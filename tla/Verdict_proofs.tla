--------------------------- MODULE Verdict_proofs ---------------------------
(***************************************************************************)
(* Proofs about what a verdict may say.  The gate, for every application,  *)
(* floor, ledger and set of drafts: nothing that happens around a run      *)
(* turns its answer green, and a regression goes only with the screen it   *)
(* stood on; advice moves no verdict, a confirmed fix only takes.  Intake, *)
(* for every project, tree and edit: a green run, or page check, is about  *)
(* the requirements of the project, every one of them.  And the history,   *)
(* for every application and order of scans, merges and pushes: it lowers  *)
(* a floor only on two scans of main that saw it fixed.                    *)
(***************************************************************************)
EXTENDS GateOrder, DebtHistory, Intake,
        FiniteSetTheorems, WellFoundedInduction, TLAPS

\* One input is at most as good as another: more reports, a lower floor of the
\* same version, the same ledger on a later day, more missing.
NoBetter(i, j) ==
    /\ i.drafts \subseteq j.drafts
    /\ i.floor.version = j.floor.version
    /\ IdentityScheme(i.floor) = IdentityScheme(j.floor)
    /\ Entries(j.floor) \subseteq Entries(i.floor)
    /\ \A k \in Entries(j.floor) : j.floor.count[k] <= i.floor.count[k]
    /\ i.waivers = j.waivers
    /\ i.now <= j.now
    /\ i.gaps => j.gaps
    /\ FloorGap(i) => FloorGap(j)

Inputs == [drafts   : SUBSET Pool,
           floor    : FloorShape,
           waivers  : SUBSET Waivers,
           now      : Nat,
           clean    : SUBSET Screens,
           seen     : [signal : SUBSET Screens, met : SUBSET Keys],
           gaps     : BOOLEAN,
           idle     : {FALSE},
           diverged : BOOLEAN]

Reports == [found    : SUBSET Pool,
            unseen   : SUBSET Screens,
            failed   : SUBSET Screens,
            gapped   : SUBSET Screens,
            walk     : SUBSET Keys,
            floor    : FloorShape,
            waivers  : SUBSET Waivers,
            now      : Nat,
            diverged : BOOLEAN]

-----------------------------------------------------------------------------
\* A floor of the right shape counts a bounded number of barriers per entry.
LEMMA FloorFields ==
    ASSUME NEW floor \in FloorShape
    PROVE  /\ floor.version \in 1..3
           /\ floor = [version |-> floor.version, count |-> floor.count]
           /\ Entries(floor) \subseteq Keys
           /\ floor.count \in [Entries(floor) -> 0..MaxCount]
<1>1. PICK version \in 1..3,
           count \in UNION {[K -> 0..MaxCount] : K \in SUBSET Keys} :
             floor = [version |-> version, count |-> count]
  BY DEF FloorShape
<1>2. PICK K \in SUBSET Keys : count \in [K -> 0..MaxCount]
  BY <1>1
<1>3. floor.version = version /\ floor.count = count
  BY <1>1
<1> QED
  BY <1>1, <1>2, <1>3 DEF Entries

\* A set of entries with counts in bounds makes a floor of the right shape.
LEMMA FloorShaped ==
    ASSUME NEW version \in 1..3, NEW K \in SUBSET Keys,
           NEW count \in [K -> 0..MaxCount]
    PROVE  [version |-> version, count |-> count] \in FloorShape
BY DEF FloorShape

\* The gate counts at least what it counted when more is reported.
LEMMA TallyGrows ==
    ASSUME NEW D, NEW E, D \subseteq E, IsFiniteSet(E), NEW scheme, NEW k
    PROVE  /\ Tally(D, scheme, k) \in Nat
           /\ Tally(E, scheme, k) \in Nat
           /\ Tally(D, scheme, k) <= Tally(E, scheme, k)
<1> DEFINE at(F) == {d \in Deterministic(F) : DraftKey(scheme, d) = k}
<1>1. at(E) \subseteq E /\ at(D) \subseteq at(E)
  BY DEF Deterministic
<1>2. IsFiniteSet(at(E))
  BY <1>1, FS_Subset
<1>3. IsFiniteSet(at(D)) /\ Cardinality(at(D)) <= Cardinality(at(E))
  BY <1>1, <1>2, FS_Subset
<1>4. Cardinality(at(D)) \in Nat /\ Cardinality(at(E)) \in Nat
  BY <1>2, <1>3, FS_CardinalityType
<1> QED
  BY <1>3, <1>4 DEF Tally

\* What blocked still blocks, and no failure becomes an unverified finding.
LEMMA BlockingGrows ==
    ASSUME NEW i \in Inputs, NEW j \in Inputs, NoBetter(i, j)
    PROVE  /\ Blocking(i) \subseteq Blocking(j)
           /\ \A k \in Blocking(i) :
                 Confidence(i, k) = "fail" => Confidence(j, k) = "fail"
<1>1. IsFiniteSet(j.drafts)
  <2>1. j.drafts \subseteq Pool
    BY DEF Inputs
  <2> QED
    BY <2>1, FS_Subset, OrderAssumption
<1>2. Scheme(i) = Scheme(j)
  BY DEF Scheme, NoBetter
<1>3. \A k : Group(i, k) \subseteq Group(j, k)
  BY <1>2 DEF Group, NoBetter
<1>4. Reported(i) \subseteq Reported(j)
  BY <1>2 DEF Reported, NoBetter
<1>5. \A k : Gates(i, k) => Gates(j, k)
  BY <1>3 DEF Gates, Deterministic
<1>6. \A k : Waived(j, k) => Waived(i, k)
  <2>1. i.waivers = j.waivers /\ i.now <= j.now
    BY DEF NoBetter
  <2>2. i.now \in Nat /\ j.now \in Nat /\ i.waivers \subseteq Waivers
    BY DEF Inputs
  <2> QED
    BY <2>1, <2>2, OrderAssumption DEF Waived
<1>7. \A k : New(i, k) => New(j, k)
  <2> SUFFICES ASSUME NEW k, New(i, k), k \in Entries(j.floor)
               PROVE  Grown(j, k)
    BY <1>6 DEF New
  <2>1. /\ k \in Entries(i.floor)
        /\ j.floor.count[k] <= i.floor.count[k]
        /\ i.floor.version = j.floor.version
    BY DEF NoBetter
  <2>2. i.floor.count[k] \in Nat /\ j.floor.count[k] \in Nat
    <3>1. i.floor \in FloorShape /\ j.floor \in FloorShape
      BY DEF Inputs
    <3> QED
      BY <2>1, <3>1, FloorFields, OrderAssumption
  <2>3. /\ CountsObserved(i.floor, k)
        /\ Tally(i.drafts, Scheme(i), k) > i.floor.count[k]
    BY <2>1 DEF New, Grown
  <2>4. /\ Tally(i.drafts, Scheme(i), k) \in Nat
        /\ Tally(j.drafts, Scheme(j), k) \in Nat
        /\ Tally(i.drafts, Scheme(i), k) <= Tally(j.drafts, Scheme(j), k)
    BY <1>1, <1>2, TallyGrows DEF NoBetter
  <2>5. CountsObserved(j.floor, k)
    BY <2>1, <2>3 DEF CountsObserved
  <2>6. Tally(j.drafts, Scheme(j), k) > j.floor.count[k]
    BY <2>1, <2>2, <2>3, <2>4
  <2> QED
    BY <2>5, <2>6 DEF Grown
<1>8. Blocking(i) \subseteq Blocking(j)
  BY <1>4, <1>5, <1>7 DEF Blocking
<1>9. \A k \in Blocking(i) :
        Confidence(i, k) = "fail" => Confidence(j, k) = "fail"
  <2> SUFFICES ASSUME NEW k \in Blocking(i), Confidence(i, k) = "fail"
               PROVE  Confidence(j, k) = "fail"
    OBVIOUS
  <2>1. Gates(i, k) /\ Gates(j, k)
    BY <1>5 DEF Blocking
  <2>2. PICK d \in Group(i, k) : d.confidence = "fail" /\ d.class = "deterministic"
    BY <2>1 DEF Confidence
  <2>3. d \in Group(j, k)
    BY <1>3
  <2> QED
    BY <2>2, <2>3 DEF Confidence
<1> QED
  BY <1>8, <1>9

\* The verdict is one of three, and not greener on an input that is no better.
LEMMA VerdictSinks ==
    ASSUME NEW i \in Inputs, NEW j \in Inputs, NoBetter(i, j)
    PROVE  /\ AccessibilityVerdict(j) = "verified" => AccessibilityVerdict(i) = "verified"
           /\ AccessibilityVerdict(i) = "regression" => AccessibilityVerdict(j) = "regression"
<1> DEFINE fails(x) == \E k \in Blocking(x) : Confidence(x, k) = "fail"
           lacks(x) == Blocking(x) # {} \/ x.gaps \/ FloorGap(x)
<1>1. i.idle = FALSE /\ j.idle = FALSE
  BY DEF Inputs
<1>2. fails(i) => fails(j)
  BY BlockingGrows
<1>3. lacks(i) => lacks(j)
  BY BlockingGrows DEF NoBetter
<1>4. \A x : x.idle = FALSE =>
        AccessibilityVerdict(x) =
          IF fails(x) THEN "regression"
          ELSE IF lacks(x) THEN "not_covered" ELSE "verified"
  BY DEF AccessibilityVerdict
<1> QED
  BY <1>1, <1>2, <1>3, <1>4

-----------------------------------------------------------------------------
\* What a report becomes is an input of the gate, field by field.
LEMMA InputOf ==
    ASSUME NEW r \in Reports
    PROVE  /\ Input(r) \in Inputs
           /\ Input(r).drafts = Drafts(r) /\ Drafts(r) \subseteq r.found
           /\ Input(r).floor = r.floor /\ Input(r).waivers = r.waivers
           /\ Input(r).now = r.now /\ Input(r).diverged = r.diverged
           /\ Input(r).idle = FALSE
           /\ Input(r).clean = Clean(r)
           /\ Input(r).gaps = (Clean(r) # Screens)
           /\ Input(r).seen.signal = Signalled \ (r.unseen \cup r.failed)
           /\ Input(r).seen.met = {k \in r.walk : ScreenOf[k] \notin r.failed}
                                    \cup UNION {Meets[d.spot] : d \in Drafts(r)}
<1>1. Drafts(r) \subseteq r.found /\ r.found \subseteq Pool
  BY DEF Drafts, Reports
<1>2. \A d \in Drafts(r) : Meets[d.spot] \subseteq Keys
  <2>1. TAKE d \in Drafts(r)
  <2>2. d.spot \in Spots
    BY <1>1, OrderAssumption DEF Draft
  <2> QED
    BY <2>2, OrderAssumption
<1>3. Evidence(r) \in [signal : SUBSET Screens, met : SUBSET Keys]
  <2>1. Signalled \ (r.unseen \cup r.failed) \in SUBSET Screens
    BY OrderAssumption
  <2>2. {k \in r.walk : ScreenOf[k] \notin r.failed} \subseteq Keys
    BY DEF Reports
  <2>3. UNION {Meets[d.spot] : d \in Drafts(r)} \subseteq Keys
    BY <1>2
  <2> QED
    BY <2>1, <2>2, <2>3 DEF Evidence
<1>4. /\ r.floor \in FloorShape /\ r.waivers \in SUBSET Waivers
      /\ r.now \in Nat /\ r.diverged \in BOOLEAN
      /\ Clean(r) \in SUBSET Screens /\ (Clean(r) # Screens) \in BOOLEAN
  BY DEF Reports, Clean
<1>5. Input(r) \in Inputs
  BY <1>1, <1>3, <1>4 DEF Input, Inputs
<1> QED
  BY <1>1, <1>5 DEF Input, Evidence

\* The types that the steps below need, taken from TypeOK.
LEMMA Typed ==
    TypeOK => /\ report \in Reports
              /\ report.found \in SUBSET Pool
              /\ report.floor \in FloorShape
              /\ report.now \in Nat
              /\ IsFloor(report.floor)
BY DEF TypeOK, Reports

\* A lowered floor: the entry gets a smaller count or is left out.
LEMMA LoweredFloor ==
    ASSUME TypeOK, NEW k \in Keys, FixConfirmed(k)
    PROVE  \E floor \in FloorShape :
             /\ report' = [report EXCEPT !.floor = floor]
             /\ floor.version = report.floor.version
             /\ floor.version >= 3
             /\ Entries(floor) \subseteq Entries(report.floor)
             /\ \A e \in Entries(floor) : floor.count[e] <= report.floor.count[e]
<1> DEFINE old == report.floor.count
<1>1. /\ report.floor.version \in 1..3
      /\ report.floor = [version |-> report.floor.version, count |-> old]
      /\ Entries(report.floor) \subseteq Keys
      /\ old \in [Entries(report.floor) -> 0..MaxCount]
  BY Typed, FloorFields
<1>2. PICK n \in 0..old[k] :
        report' = [report EXCEPT !.floor.count =
                 IF n = 0 THEN [e \in Entries(report.floor) \ {k} |-> @[e]]
                          ELSE [@ EXCEPT ![k] = n]]
  BY DEF FixConfirmed
<1>3. k \in Entries(report.floor) /\ report.floor.version >= 3
  BY DEF FixConfirmed
<1>4. old[k] \in 0..MaxCount /\ MaxCount \in Nat
  BY <1>1, <1>3, OrderAssumption
<1> DEFINE new == IF n = 0 THEN [e \in Entries(report.floor) \ {k} |-> old[e]]
                           ELSE [old EXCEPT ![k] = n]
           K   == IF n = 0 THEN Entries(report.floor) \ {k} ELSE Entries(report.floor)
           floor == [version |-> report.floor.version, count |-> new]
<1>5. new \in [K -> 0..MaxCount]
  <2>1. CASE n = 0
    BY <1>1, <2>1
  <2>2. CASE n # 0
    <3>1. n \in 0..MaxCount
      BY <1>4
    <3> QED
      BY <1>1, <2>2, <3>1
  <2> QED
    BY <2>1, <2>2
<1>6. floor \in FloorShape
  BY <1>1, <1>5, FloorShaped
<1>7. report' = [report EXCEPT !.floor = floor]
  <2>1. report.floor = [version |-> report.floor.version, count |-> old]
    BY <1>1
  <2>2. [report.floor EXCEPT !.count = new] = floor
    BY <2>1
  <2> QED
    BY <1>2, <2>2, Typed DEF Reports
<1>8. Entries(floor) = K
  BY <1>5 DEF Entries
<1>9. \A e \in Entries(floor) : floor.count[e] <= report.floor.count[e]
  <2> SUFFICES ASSUME NEW e \in K PROVE new[e] <= old[e]
    BY <1>8
  <2>1. old[e] \in 0..MaxCount
    BY <1>1
  <2>2. CASE n = 0
    BY <2>1, <2>2, <1>4
  <2>3. CASE n # 0
    BY <2>1, <2>3, <1>1, <1>4
  <2> QED
    BY <2>2, <2>3
<1> QED
  BY <1>3, <1>6, <1>7, <1>8, <1>9

\* Every step leaves a report of the right shape, with a floor the parser accepts.
LEMMA StepTyped ==
    ASSUME TypeOK, Next
    PROVE  report' \in Reports /\ IsFloor(report'.floor)
<1>0. /\ report \in Reports /\ report.found \in SUBSET Pool
      /\ report.floor \in FloorShape /\ report.now \in Nat
      /\ IsFloor(report.floor)
  BY Typed
<1>1. ASSUME NEW d \in Pool, report' = [report EXCEPT !.found = @ \cup {d}]
      PROVE  report' \in Reports /\ IsFloor(report'.floor)
  BY <1>0, <1>1 DEF Reports
<1>2. ASSUME NEW screen \in Screens, ScreenLost(screen)
      PROVE  report' \in Reports /\ IsFloor(report'.floor)
  <2>1. CASE ScreenUnseen(screen)
    BY <1>0, <2>1 DEF Reports, ScreenUnseen
  <2>2. CASE ScanFailed(screen)
    BY <1>0, <2>2 DEF Reports, ScanFailed
  <2>3. ASSUME NEW lost \in SUBSET report.found, ProviderFailed(screen, lost)
        PROVE  report' \in Reports /\ IsFloor(report'.floor)
    BY <1>0, <2>3 DEF Reports, ProviderFailed
  <2> QED
    BY <1>2, <2>1, <2>2, <2>3 DEF ScreenLost
<1>3. ASSUME NEW k \in Keys, FixConfirmed(k)
      PROVE  report' \in Reports /\ IsFloor(report'.floor)
  <2>1. PICK floor \in FloorShape :
             /\ report' = [report EXCEPT !.floor = floor]
             /\ floor.version = report.floor.version
             /\ floor.version >= 3
    BY <1>3, LoweredFloor
  <2>2. report' \in Reports /\ report'.floor = floor
    BY <1>0, <2>1 DEF Reports
  <2>3. floor.version \in 1..3
    BY FloorFields
  <2> QED
    BY <2>1, <2>2, <2>3 DEF IsFloor
<1>4. ASSUME DayPasses
      PROVE  report' \in Reports /\ IsFloor(report'.floor)
  <2>1. report.now + 1 \in Nat
    BY <1>0
  <2> QED
    BY <1>0, <1>4, <2>1, Zenon DEF Reports, DayPasses
<1>5. ASSUME PolicyEdited
      PROVE  report' \in Reports /\ IsFloor(report'.floor)
  BY <1>0, <1>5 DEF Reports, PolicyEdited
<1> QED
  BY <1>1, <1>2, <1>3, <1>4, <1>5 DEF Next, BarrierFound, AdviceFound

\* One report hands the gate at most as good an input as another, on the same
\* screens: more found, a lower floor, a later day.
LEMMA NoBetterOf ==
    ASSUME NEW r \in Reports, NEW s \in Reports,
           r.found \subseteq s.found,
           s.unseen = r.unseen, s.failed = r.failed, s.gapped = r.gapped,
           s.waivers = r.waivers, r.now <= s.now,
           \/ s.floor = r.floor
           \/ /\ s.floor.version = r.floor.version
              /\ s.floor.version >= 3
              /\ Entries(s.floor) \subseteq Entries(r.floor)
              /\ \A e \in Entries(s.floor) : s.floor.count[e] <= r.floor.count[e]
    PROVE  /\ Input(r) \in Inputs /\ Input(s) \in Inputs
           /\ NoBetter(Input(r), Input(s))
           /\ SawNothing(r) = SawNothing(s)
<1> DEFINE i == Input(r)
           j == Input(s)
<1>1. /\ i \in Inputs /\ i.drafts = Drafts(r) /\ i.floor = r.floor
      /\ i.waivers = r.waivers /\ i.now = r.now
      /\ i.gaps = (Clean(r) # Screens)
  BY InputOf
<1>2. /\ j \in Inputs /\ j.drafts = Drafts(s) /\ j.floor = s.floor
      /\ j.waivers = s.waivers /\ j.now = s.now
      /\ j.gaps = (Clean(s) # Screens)
  BY InputOf
<1> HIDE DEF i, j
<1>3. Drafts(r) \subseteq Drafts(s) /\ Clean(s) = Clean(r) /\ SawNothing(r) = SawNothing(s)
  BY DEF Drafts, Clean, SawNothing
<1>4. r.floor \in FloorShape /\ s.floor \in FloorShape
  BY DEF Reports
<1>5. CASE s.floor = r.floor
  <2>1. \A e \in Entries(r.floor) : r.floor.count[e] <= r.floor.count[e]
    BY <1>4, FloorFields, OrderAssumption
  <2>2. FloorGap(i) => FloorGap(j)
    BY <1>1, <1>2, <1>3, <1>5 DEF FloorGap, StaleFloorGap, RowKeyFloorGap, Deterministic
  <2>3. NoBetter(i, j)
    BY <1>1, <1>2, <1>3, <1>5, <2>1, <2>2 DEF NoBetter
  <2> QED
    BY <1>1, <1>2, <1>3, <2>3 DEF i, j
<1>6. CASE s.floor # r.floor
  <2>1. r.floor.version \in 1..3 /\ s.floor.version \in 1..3
    BY <1>4, FloorFields
  <2>2. IdentityScheme(r.floor) = "row-scoped" /\ IdentityScheme(s.floor) = "row-scoped"
    BY <1>6, <2>1 DEF IdentityScheme
  <2>3. ~FloorGap(i)
    BY <1>1, <1>6, <2>1, <2>2 DEF FloorGap, StaleFloorGap, RowKeyFloorGap
  <2>4. NoBetter(i, j)
    BY <1>1, <1>2, <1>3, <1>6, <2>2, <2>3 DEF NoBetter
  <2> QED
    BY <1>1, <1>2, <1>3, <2>4 DEF i, j
<1> QED
  BY <1>5, <1>6

\* A step that loses no screen hands the gate no better input.
LEMMA StepDown ==
    ASSUME TypeOK, Next, \A screen \in Screens : ~ScreenLost(screen)
    PROVE  /\ Input(report) \in Inputs /\ Input(report') \in Inputs
           /\ NoBetter(Input(report), Input(report'))
           /\ SawNothing(report) = SawNothing(report')
<1>0. /\ report \in Reports /\ report' \in Reports
      /\ report.now \in Nat /\ report.now <= report.now + 1
      /\ report.now <= report.now
  BY Typed, StepTyped
<1>1. ASSUME NEW d \in Pool, report' = [report EXCEPT !.found = @ \cup {d}]
      PROVE  /\ Input(report) \in Inputs /\ Input(report') \in Inputs
             /\ NoBetter(Input(report), Input(report'))
             /\ SawNothing(report) = SawNothing(report')
  <2>1. /\ report.found \subseteq report'.found /\ report'.unseen = report.unseen
        /\ report'.failed = report.failed /\ report'.gapped = report.gapped
        /\ report'.waivers = report.waivers /\ report'.now = report.now
        /\ report'.floor = report.floor
    BY <1>0, <1>1 DEF Reports
  <2> QED
    BY <1>0, <2>1, NoBetterOf
<1>2. ASSUME NEW k \in Keys, FixConfirmed(k)
      PROVE  /\ Input(report) \in Inputs /\ Input(report') \in Inputs
             /\ NoBetter(Input(report), Input(report'))
             /\ SawNothing(report) = SawNothing(report')
  <2>1. PICK floor \in FloorShape :
             /\ report' = [report EXCEPT !.floor = floor]
             /\ floor.version = report.floor.version
             /\ floor.version >= 3
             /\ Entries(floor) \subseteq Entries(report.floor)
             /\ \A e \in Entries(floor) : floor.count[e] <= report.floor.count[e]
    BY <1>2, LoweredFloor
  <2>2. /\ report.found \subseteq report'.found /\ report'.unseen = report.unseen
        /\ report'.failed = report.failed /\ report'.gapped = report.gapped
        /\ report'.waivers = report.waivers /\ report'.now = report.now
        /\ report'.floor = floor
    BY <1>0, <2>1 DEF Reports
  <2> QED
    BY <1>0, <2>1, <2>2, NoBetterOf
<1>3. ASSUME DayPasses
      PROVE  /\ Input(report) \in Inputs /\ Input(report') \in Inputs
             /\ NoBetter(Input(report), Input(report'))
             /\ SawNothing(report) = SawNothing(report')
  <2>1. /\ report.found \subseteq report'.found /\ report'.unseen = report.unseen
        /\ report'.failed = report.failed /\ report'.gapped = report.gapped
        /\ report'.waivers = report.waivers /\ report'.now = report.now + 1
        /\ report'.floor = report.floor
    BY <1>0, <1>3 DEF Reports, DayPasses
  <2> QED
    BY <1>0, <2>1, NoBetterOf
<1>4. ASSUME PolicyEdited
      PROVE  /\ Input(report) \in Inputs /\ Input(report') \in Inputs
             /\ NoBetter(Input(report), Input(report'))
             /\ SawNothing(report) = SawNothing(report')
  <2>1. /\ report.found \subseteq report'.found /\ report'.unseen = report.unseen
        /\ report'.failed = report.failed /\ report'.gapped = report.gapped
        /\ report'.waivers = report.waivers /\ report'.now = report.now
        /\ report'.floor = report.floor
    BY <1>0, <1>4 DEF Reports, PolicyEdited
  <2> QED
    BY <1>0, <2>1, NoBetterOf
<1> QED
  BY <1>1, <1>2, <1>3, <1>4 DEF Next, BarrierFound, AdviceFound

\* A lost screen leaves a gap, and what is found on the other screens stays.
LEMMA LossIsLocal ==
    ASSUME TypeOK, NEW screen \in Screens, ScreenLost(screen), report' \in Reports
    PROVE  /\ Clean(report') # Screens
           /\ report'.floor = report.floor /\ report'.waivers = report.waivers
           /\ report'.now = report.now
           /\ Drafts(report') \subseteq Drafts(report)
           /\ \A d \in Drafts(report) :
                 SpotScreen(d.spot) # screen => d \in Drafts(report')
<1>1. report \in Reports
  BY Typed
<1>2. CASE ScreenUnseen(screen)
  <2>1. /\ report'.unseen = report.unseen \cup {screen} /\ report'.failed = report.failed
        /\ report'.gapped = report.gapped /\ report'.found = report.found
        /\ report'.floor = report.floor /\ report'.waivers = report.waivers
        /\ report'.now = report.now
    BY <1>1, <1>2 DEF Reports, ScreenUnseen
  <2> QED
    BY <2>1 DEF Clean, Drafts
<1>3. CASE ScanFailed(screen)
  <2>1. /\ report'.unseen = report.unseen /\ report'.failed = report.failed \cup {screen}
        /\ report'.gapped = report.gapped /\ report'.found = report.found
        /\ report'.floor = report.floor /\ report'.waivers = report.waivers
        /\ report'.now = report.now
    BY <1>1, <1>3 DEF Reports, ScanFailed
  <2> QED
    BY <2>1 DEF Clean, Drafts
<1>4. ASSUME NEW lost \in SUBSET report.found, ProviderFailed(screen, lost)
      PROVE  /\ Clean(report') # Screens
             /\ report'.floor = report.floor /\ report'.waivers = report.waivers
             /\ report'.now = report.now
             /\ Drafts(report') \subseteq Drafts(report)
             /\ \A d \in Drafts(report) :
                   SpotScreen(d.spot) # screen => d \in Drafts(report')
  <2>1. /\ report'.unseen = report.unseen /\ report'.failed = report.failed
        /\ report'.gapped = report.gapped \cup {screen}
        /\ report'.found = report.found \ lost
        /\ report'.floor = report.floor /\ report'.waivers = report.waivers
        /\ report'.now = report.now
        /\ \A d \in lost : SpotScreen(d.spot) = screen
    BY <1>1, <1>4 DEF Reports, ProviderFailed
  <2> QED
    BY <2>1 DEF Clean, Drafts
<1> QED
  BY <1>2, <1>3, <1>4 DEF ScreenLost

\* A failing key of another screen fails on, and keeps the run from seeing nothing.
LEMMA LossKeepsOthers ==
    ASSUME TypeOK, NEW screen \in Screens, ScreenLost(screen), report' \in Reports,
           NEW k \in Failing(Input(report)), ScreenOf[k] # screen
    PROVE  k \in Failing(Input(report')) /\ ~SawNothing(report')
<1> DEFINE i == Input(report)
           j == Input(report')
<1>1. report \in Reports
  BY Typed
<1>2. /\ i.drafts = Drafts(report) /\ i.floor = report.floor
      /\ i.waivers = report.waivers /\ i.now = report.now
      /\ Drafts(report) \subseteq Pool
  BY <1>1, InputOf DEF Reports
<1>3. /\ j.drafts = Drafts(report') /\ j.floor = report.floor
      /\ j.waivers = report.waivers /\ j.now = report.now
      /\ Drafts(report') \subseteq Drafts(report)
      /\ \A d \in Drafts(report) :
            SpotScreen(d.spot) # screen => d \in Drafts(report')
  BY InputOf, LossIsLocal
<1>4. k \in Blocking(i) /\ Confidence(i, k) = "fail"
  BY DEF Failing
<1> HIDE DEF i, j
<1>5. Scheme(j) = Scheme(i)
  BY <1>2, <1>3 DEF Scheme
<1>6. \A d \in Drafts(report) :
        DraftKey(Scheme(i), d) = k => SpotScreen(d.spot) = ScreenOf[k]
  <2>1. TAKE d \in Drafts(report)
  <2>2. d.spot \in Spots
    BY <1>2, OrderAssumption DEF Draft
  <2> QED
    BY <2>2, IdentityAssumption DEF DraftKey, KeyOf, SpotScreen
<1>7. \A d : /\ d \in i.drafts /\ DraftKey(Scheme(i), d) = k
              <=> d \in j.drafts /\ DraftKey(Scheme(i), d) = k
  BY <1>2, <1>3, <1>6
<1>8. Group(j, k) = Group(i, k)
  BY <1>5, <1>7 DEF Group
<1>9. Tally(j.drafts, Scheme(j), k) = Tally(i.drafts, Scheme(i), k)
  <2>1. {d \in Deterministic(j.drafts) : DraftKey(Scheme(i), d) = k}
          = {d \in Deterministic(i.drafts) : DraftKey(Scheme(i), d) = k}
    BY <1>7 DEF Deterministic
  <2> QED
    BY <1>5, <2>1 DEF Tally
<1>10. New(j, k) <=> New(i, k)
  BY <1>2, <1>3, <1>9 DEF New, Waived, Grown
<1>11. Gates(j, k) <=> Gates(i, k)
  BY <1>8 DEF Gates
<1>12. k \in Reported(i) /\ Gates(i, k) /\ New(i, k)
  BY <1>4 DEF Blocking
<1>13. PICK d \in Drafts(report') : DraftKey(Scheme(i), d) = k
  BY <1>3, <1>7, <1>12 DEF Reported
<1>14. k \in Reported(j)
  BY <1>3, <1>5, <1>13 DEF Reported
<1>15. k \in Blocking(j)
  BY <1>10, <1>11, <1>12, <1>14 DEF Blocking
<1>16. Confidence(j, k) = "fail"
  BY <1>4, <1>8, <1>11 DEF Confidence
<1>17. ~SawNothing(report')
  <2>1. d.spot \in Spots
    BY <1>2, <1>3, <1>13, OrderAssumption DEF Draft
  <2>2. SpotScreen(d.spot) \in Screens
    BY <2>1, IdentityAssumption DEF SpotScreen
  <2> QED
    BY <1>13, <2>2 DEF Drafts, SawNothing
<1> QED
  BY <1>15, <1>16, <1>17 DEF Failing, j

\* Every step leaves a report the scans can leave, and the floor it is compared with
\* stays one the parser accepts.
THEOREM GateTyped == Spec => []TypeOK
<1>1. Init => TypeOK
  <2> SUFFICES ASSUME Init PROVE TypeOK
    OBVIOUS
  <2>1. PICK floor \in {f \in FloorShape : IsFloor(f)}, ledger \in SUBSET Waivers,
             walk \in SUBSET Walked :
               report = [found    |-> {},
                         unseen   |-> {},
                         failed   |-> {},
                         gapped   |-> {},
                         walk     |-> walk,
                         floor    |-> floor,
                         waivers  |-> ledger,
                         now      |-> 0,
                         diverged |-> FALSE]
    BY DEF Init
  <2>2. floor \in FloorShape /\ IsFloor(floor)
    OBVIOUS
  <2>3. walk \in SUBSET Keys /\ {} \in SUBSET Pool /\ {} \in SUBSET Screens
    BY OrderAssumption
  <2>4. report \in Reports
    BY <2>1, <2>2, <2>3 DEF Reports
  <2>5. IsFloor(report.floor)
    BY <2>1, <2>2
  <2> QED
    BY <2>4, <2>5 DEF TypeOK, Reports
<1>2. TypeOK /\ [Next]_report => TypeOK'
  <2> SUFFICES ASSUME TypeOK, [Next]_report PROVE TypeOK'
    OBVIOUS
  <2>1. CASE Next
    BY <2>1, StepTyped DEF TypeOK, Reports
  <2>2. CASE UNCHANGED report
    BY <2>2 DEF TypeOK
  <2> QED
    BY <2>1, <2>2
<1> QED
  BY <1>1, <1>2, PTL DEF Spec

\* Nothing that happens around a run turns its answer green, and a regression goes
\* only with the screen it stood on (gate/index.ts, coverage/unseen.ts, run.ts).
THEOREM GateNothingTurnsGreen == Spec => NothingTurnsGreen
<1> DEFINE Sinks ==
      LET old == Answer(report)
          new == Answer(report') IN
      /\ new = "verified" => old = "verified"
      /\ new # "regression" /\ old = "regression" =>
            \E screen \in Screens :
               /\ ScreenLost(screen)
               /\ \A k \in Failing(Input(report)) : ScreenOf[k] = screen
<1>1. ASSUME TypeOK, Next PROVE Sinks
  <2>1. CASE \A screen \in Screens : ~ScreenLost(screen)
    <3>1. /\ Input(report) \in Inputs /\ Input(report') \in Inputs
          /\ NoBetter(Input(report), Input(report'))
          /\ SawNothing(report) = SawNothing(report')
      BY <1>1, <2>1, StepDown
    <3>2. /\ AccessibilityVerdict(Input(report')) = "verified" =>
                AccessibilityVerdict(Input(report)) = "verified"
          /\ AccessibilityVerdict(Input(report)) = "regression" =>
                AccessibilityVerdict(Input(report')) = "regression"
      BY <3>1, VerdictSinks
    <3> QED
      BY <3>1, <3>2 DEF Answer
  <2>2. ASSUME NEW screen \in Screens, ScreenLost(screen)
        PROVE  Sinks
    <3>1. report' \in Reports
      BY <1>1, StepTyped
    <3>2. Input(report').gaps = TRUE /\ Input(report').idle = FALSE
      BY <1>1, <2>2, <3>1, InputOf, LossIsLocal
    <3>3. Answer(report') # "verified"
      BY <3>2 DEF Answer, AccessibilityVerdict
    <3>4. ASSUME Answer(report) = "regression", Answer(report') # "regression",
                 NEW k \in Failing(Input(report)), ScreenOf[k] # screen
          PROVE  FALSE
      <4>1. k \in Failing(Input(report')) /\ ~SawNothing(report')
        BY <1>1, <2>2, <3>1, <3>4, LossKeepsOthers
      <4>2. AccessibilityVerdict(Input(report')) = "regression"
        BY <3>2, <4>1 DEF Failing, AccessibilityVerdict
      <4> QED
        BY <3>4, <4>1, <4>2 DEF Answer
    <3> QED
      BY <2>2, <3>3, <3>4
  <2> QED
    BY <2>1, <2>2
<1>2. TypeOK /\ [Next]_report => [Sinks]_report
  BY <1>1
<1> QED
  BY <1>2, GateTyped, PTL DEF Spec, NothingTurnsGreen

-----------------------------------------------------------------------------
\* What one more advisory draft changes in the gate's input: nothing it counts, and
\* in the evidence at most the keys whose element the draft shows.
LEMMA AdviceShowsAnElement ==
    ASSUME TypeOK, NEW d \in Pool, AdviceFound(d)
    PROVE  /\ SawNothing(report') = SawNothing(report)
           /\ Input(report').floor = Input(report).floor
           /\ Input(report').waivers = Input(report).waivers
           /\ Input(report').now = Input(report).now
           /\ Input(report').gaps = Input(report).gaps
           /\ Input(report').clean = Input(report).clean
           /\ Input(report').idle = Input(report).idle
           /\ Input(report').diverged = Input(report).diverged
           /\ Deterministic(Input(report').drafts) = Deterministic(Input(report).drafts)
           /\ Input(report').seen.signal = Input(report).seen.signal
           /\ Input(report).seen.met \subseteq Input(report').seen.met
           /\ Input(report').seen.met \subseteq Input(report).seen.met \cup Meets[d.spot]
<1>1. report \in Reports
  BY Typed
<1>2. d.class = "advisory" /\ report' = [report EXCEPT !.found = @ \cup {d}]
  BY DEF AdviceFound
<1>3. report' \in Reports
  BY <1>1, <1>2 DEF Reports
<1>4. /\ report'.found = report.found \cup {d}
      /\ report'.unseen = report.unseen /\ report'.failed = report.failed
      /\ report'.gapped = report.gapped /\ report'.walk = report.walk
      /\ report'.floor = report.floor /\ report'.waivers = report.waivers
      /\ report'.now = report.now /\ report'.diverged = report.diverged
  BY <1>1, <1>2 DEF Reports
<1>5. /\ Drafts(report) \subseteq Drafts(report')
      /\ Drafts(report') \subseteq Drafts(report) \cup {d}
      /\ Clean(report') = Clean(report) /\ SawNothing(report') = SawNothing(report)
  BY <1>4 DEF Drafts, Clean, SawNothing
<1>6. Deterministic(Drafts(report')) = Deterministic(Drafts(report))
  BY <1>2, <1>5 DEF Deterministic
<1> DEFINE shown(r) == UNION {Meets[e.spot] : e \in Drafts(r)}
           stops(r) == {k \in r.walk : ScreenOf[k] \notin r.failed}
<1>7. /\ shown(report) \subseteq shown(report')
      /\ shown(report') \subseteq shown(report) \cup Meets[d.spot]
      /\ stops(report') = stops(report)
  BY <1>4, <1>5
<1>8. /\ Input(report).seen.met = stops(report) \cup shown(report)
      /\ Input(report').seen.met = stops(report') \cup shown(report')
  BY <1>1, <1>3, InputOf
<1> HIDE DEF shown, stops
<1>9. /\ Input(report).seen.met \subseteq Input(report').seen.met
      /\ Input(report').seen.met \subseteq Input(report).seen.met \cup Meets[d.spot]
  BY <1>7, <1>8
<1>10. /\ Input(report').drafts = Drafts(report') /\ Input(report).drafts = Drafts(report)
       /\ Input(report').seen.signal = Input(report).seen.signal
       /\ Input(report').clean = Clean(report') /\ Input(report).clean = Clean(report)
       /\ Input(report').gaps = Input(report).gaps
  BY <1>1, <1>3, <1>4, <1>5, InputOf
<1>11. /\ Input(report').floor = Input(report).floor
       /\ Input(report').waivers = Input(report).waivers
       /\ Input(report').now = Input(report).now
       /\ Input(report').idle = Input(report).idle
       /\ Input(report').diverged = Input(report).diverged
  BY <1>1, <1>3, <1>4, InputOf
<1> QED
  BY <1>5, <1>6, <1>9, <1>10, <1>11

\* Model and preview findings move no verdict; all they can do is confirm that a
\* barrier which is gone is gone (renderEvidenceOf, gate/index.ts).
THEOREM GateAdvisoryInert == Spec => AdvisoryInert
<1>1. TypeOK /\ [Next]_report => [AdviceMovesNoVerdict]_report
  <2> DEFINE i == Input(report)
             j == Input(report')
  <2> SUFFICES ASSUME TypeOK, NEW d \in Pool, AdviceFound(d)
               PROVE  /\ Answer(report') = Answer(report)
                      /\ RunVerdict(report') = RunVerdict(report)
                      /\ Blocking(j) = Blocking(i)
                      /\ Fixed(i) \subseteq Fixed(j)
                      /\ Fixed(j) \ Fixed(i) \subseteq Unconfirmed(i) \cap Meets[d.spot]
                      /\ Unconfirmed(j) = Unconfirmed(i) \ Fixed(j)
                      /\ Headroom(i) \subseteq Headroom(j)
                      /\ Headroom(j) \ Headroom(i) \subseteq Fixed(j) \ Fixed(i)
    BY DEF AdviceMovesNoVerdict
  <2>1. /\ SawNothing(report') = SawNothing(report)
        /\ j.floor = i.floor /\ j.waivers = i.waivers
        /\ j.now = i.now /\ j.gaps = i.gaps
        /\ j.clean = i.clean /\ j.idle = i.idle /\ j.diverged = i.diverged
        /\ Deterministic(j.drafts) = Deterministic(i.drafts)
        /\ j.seen.signal = i.seen.signal
        /\ i.seen.met \subseteq j.seen.met
        /\ j.seen.met \subseteq i.seen.met \cup Meets[d.spot]
    BY AdviceShowsAnElement
  <2>a. /\ Answer(report) = IF SawNothing(report) THEN "null" ELSE AccessibilityVerdict(i)
        /\ Answer(report') = IF SawNothing(report') THEN "null" ELSE AccessibilityVerdict(j)
        /\ RunVerdict(report) = IF SawNothing(report) THEN "null" ELSE Verdict(i)
        /\ RunVerdict(report') = IF SawNothing(report') THEN "null" ELSE Verdict(j)
    BY DEF Answer, RunVerdict
  <2> HIDE DEF i, j
  <2>2. Scheme(j) = Scheme(i)
    BY <2>1 DEF Scheme
  <2>3. \A scheme, k : Tally(j.drafts, scheme, k) = Tally(i.drafts, scheme, k)
    BY <2>1 DEF Tally
  <2>4. \A k : Deterministic(Group(j, k)) = Deterministic(Group(i, k))
    BY <2>1, <2>2 DEF Group, Deterministic
  <2>5. \A k : Gates(j, k) <=> Gates(i, k)
    BY <2>4 DEF Gates
  <2>6. \A k : /\ Gates(i, k) => k \in Reported(i)
               /\ Gates(j, k) => k \in Reported(j)
    BY DEF Gates, Group, Deterministic, Reported
  <2>7. \A k : New(j, k) <=> New(i, k)
    BY <2>1, <2>2, <2>3 DEF New, Waived, Grown
  <2>8. Blocking(j) = Blocking(i)
    BY <2>5, <2>6, <2>7 DEF Blocking
  <2>9. \A k \in Blocking(i) : Confidence(j, k) = Confidence(i, k)
    <3> SUFFICES ASSUME NEW k \in Blocking(i)
                 PROVE  Confidence(j, k) = Confidence(i, k)
      OBVIOUS
    <3>1. Gates(i, k) /\ Gates(j, k)
      BY <2>5 DEF Blocking
    <3>2. (\E e \in Group(j, k) : e.confidence = "fail" /\ e.class = "deterministic")
            <=> (\E e \in Group(i, k) : e.confidence = "fail" /\ e.class = "deterministic")
      BY <2>4 DEF Deterministic
    <3> QED
      BY <3>1, <3>2 DEF Confidence
  <2>10. FloorGap(j) <=> FloorGap(i)
    BY <2>1 DEF FloorGap, StaleFloorGap, RowKeyFloorGap
  <2>11. AccessibilityVerdict(j) = AccessibilityVerdict(i)
    BY <2>1, <2>8, <2>9, <2>10 DEF AccessibilityVerdict
  <2>12. Verdict(j) = Verdict(i)
    BY <2>1, <2>11 DEF Verdict
  <2>13. Absent(j) = Absent(i)
    BY <2>1, <2>2, <2>3 DEF Absent
  <2>14. \A k : /\ PaydownConfirmed(i.seen, k) => PaydownConfirmed(j.seen, k)
                /\ PaydownConfirmed(j.seen, k) =>
                      PaydownConfirmed(i.seen, k) \/ k \in Meets[d.spot]
    BY <2>1 DEF PaydownConfirmed
  <2>15. /\ Fixed(i) \subseteq Fixed(j)
         /\ Fixed(j) \ Fixed(i) \subseteq Unconfirmed(i) \cap Meets[d.spot]
         /\ Unconfirmed(j) = Unconfirmed(i) \ Fixed(j)
    BY <2>13, <2>14 DEF Fixed, Unconfirmed
  <2>16. /\ Headroom(i) \subseteq Headroom(j)
         /\ Headroom(j) \ Headroom(i) \subseteq Fixed(j) \ Fixed(i)
    BY <2>1, <2>2, <2>3, <2>15 DEF Headroom
  <2> QED
    BY <2>1, <2>a, <2>8, <2>11, <2>12, <2>15, <2>16
<1> QED
  BY <1>1, GateTyped, PTL DEF Spec, AdvisoryInert

\* What the history's lowering of one entry leaves alone.
LEMMA LoweringTouchesTheFloor ==
    ASSUME TypeOK, NEW k \in Keys, FixConfirmed(k)
    PROVE  LET i == Input(report)
               j == Input(report') IN
           /\ i.floor \in FloorShape /\ j.floor \in FloorShape
           /\ j.floor.version = i.floor.version
           /\ IdentityScheme(j.floor) = "row-scoped"
           /\ IdentityScheme(i.floor) = "row-scoped"
           /\ i.floor.version >= 3
           /\ Entries(j.floor) \subseteq Entries(i.floor)
           /\ \A e \in Entries(j.floor) : j.floor.count[e] <= i.floor.count[e]
           /\ j.drafts = i.drafts /\ j.waivers = i.waivers
           /\ j.now = i.now /\ j.clean = i.clean
           /\ j.seen = i.seen
           /\ IsFiniteSet(i.drafts)
<1>1. PICK floor \in FloorShape :
        /\ report' = [report EXCEPT !.floor = floor]
        /\ floor.version = report.floor.version
        /\ floor.version >= 3
        /\ Entries(floor) \subseteq Entries(report.floor)
        /\ \A e \in Entries(floor) : floor.count[e] <= report.floor.count[e]
  BY LoweredFloor
<1>2. report \in Reports
  BY Typed
<1>3. /\ report'.floor = floor
      /\ report'.found = report.found /\ report'.walk = report.walk
      /\ report'.unseen = report.unseen /\ report'.failed = report.failed
      /\ report'.gapped = report.gapped
      /\ report'.waivers = report.waivers /\ report'.now = report.now
  BY <1>1, <1>2 DEF Reports
<1>4. /\ Drafts(report') = Drafts(report) /\ Clean(report') = Clean(report)
      /\ Evidence(report') = Evidence(report)
  BY <1>3 DEF Drafts, Clean, Evidence
<1>5. /\ Input(report').floor = floor /\ Input(report).floor = report.floor
      /\ Input(report').drafts = Input(report).drafts
      /\ Input(report').waivers = Input(report).waivers
      /\ Input(report').now = Input(report).now
      /\ Input(report').clean = Input(report).clean
      /\ Input(report').seen = Input(report).seen
  BY <1>3, <1>4 DEF Input
<1>6. IsFiniteSet(Input(report).drafts)
  <2>1. Input(report).drafts \subseteq Pool
    BY <1>2, InputOf DEF Inputs
  <2> QED
    BY <2>1, FS_Subset, OrderAssumption
<1>7. IdentityScheme(floor) = "row-scoped" /\ IdentityScheme(report.floor) = "row-scoped"
  BY <1>1 DEF IdentityScheme
<1> QED
  BY <1>1, <1>5, <1>6, <1>7, Typed

\* A fix the history confirmed only takes away: carried debt may turn new, and a
\* fixed finding, a headroom line or a notice may go, but none comes of it.
THEOREM GateFixOnlyTakes == Spec => FixConfirmedOnlyTakes
<1>1. TypeOK /\ [Next]_report => [FixOnlyTakes]_report
  <2> DEFINE i == Input(report)
             j == Input(report')
  <2> SUFFICES ASSUME TypeOK, NEW k \in Keys, FixConfirmed(k)
               PROVE  /\ CarriedDebt(j) \subseteq CarriedDebt(i)
                      /\ Fixed(j) \subseteq Fixed(i)
                      /\ Headroom(j) \subseteq Headroom(i)
                      /\ Unconfirmed(j) \subseteq Unconfirmed(i)
                      /\ FloorGap(j) = FloorGap(i)
    BY DEF FixOnlyTakes
  <2>1. /\ j.floor \in FloorShape /\ i.floor \in FloorShape
        /\ j.floor.version = i.floor.version
        /\ IdentityScheme(j.floor) = "row-scoped"
        /\ IdentityScheme(i.floor) = "row-scoped"
        /\ i.floor.version >= 3
        /\ Entries(j.floor) \subseteq Entries(i.floor)
        /\ \A e \in Entries(j.floor) : j.floor.count[e] <= i.floor.count[e]
        /\ j.drafts = i.drafts /\ j.waivers = i.waivers
        /\ j.now = i.now /\ j.clean = i.clean
        /\ j.seen = i.seen
        /\ IsFiniteSet(i.drafts)
    BY LoweringTouchesTheFloor
  <2>2. IsFiniteSet(i.drafts)
    BY <2>1
  <2> HIDE DEF i, j
  <2>3. Scheme(j) = Scheme(i)
    BY <2>1 DEF Scheme
  <2>4. \A e : /\ Tally(j.drafts, Scheme(j), e) = Tally(i.drafts, Scheme(i), e)
              /\ Tally(i.drafts, Scheme(i), e) \in Nat
    BY <2>1, <2>2, <2>3, TallyGrows
  <2>5. \A e \in Entries(j.floor) :
          /\ e \in Entries(i.floor)
          /\ j.floor.count[e] \in Nat /\ i.floor.count[e] \in Nat
          /\ j.floor.count[e] <= i.floor.count[e]
    BY <2>1, FloorFields, OrderAssumption
  <2>6. \A e : CountsObserved(j.floor, e) <=> CountsObserved(i.floor, e)
    BY <2>1 DEF CountsObserved
  <2>7. \A e : Waived(j, e) <=> Waived(i, e)
    BY <2>1 DEF Waived
  <2>8. \A e \in Entries(j.floor) : New(i, e) => New(j, e)
    BY <2>4, <2>5, <2>6, <2>7 DEF New, Grown
  <2>9. \A e : Gates(j, e) <=> Gates(i, e)
    BY <2>1, <2>3 DEF Gates, Group
  <2>10. Reported(j) = Reported(i)
    BY <2>1, <2>3 DEF Reported
  <2>11. CarriedDebt(j) \subseteq CarriedDebt(i)
    BY <2>1, <2>8, <2>9, <2>10 DEF CarriedDebt
  <2>12. Absent(j) \subseteq Absent(i)
    BY <2>1, <2>4 DEF Absent
  <2>13. Fixed(j) \subseteq Fixed(i) /\ Unconfirmed(j) \subseteq Unconfirmed(i)
    BY <2>1, <2>12 DEF Fixed, Unconfirmed
  <2>14. Headroom(j) \subseteq Headroom(i)
    BY <2>4, <2>5, <2>6, <2>13 DEF Headroom
  <2>15. ~FloorGap(j) /\ ~FloorGap(i)
    <3>1. j.floor.version \in 1..3
      BY <2>1, FloorFields
    <3> QED
      BY <2>1, <3>1 DEF FloorGap, StaleFloorGap, RowKeyFloorGap
  <2>16. FloorGap(j) = FloorGap(i)
    <3>1. FloorGap(j) \in BOOLEAN /\ FloorGap(i) \in BOOLEAN
      BY DEF FloorGap, StaleFloorGap, RowKeyFloorGap
    <3> QED
      BY <2>15, <3>1
  <2> QED
    BY <2>11, <2>13, <2>14, <2>16
<1> QED
  BY <1>1, GateTyped, PTL DEF Spec, FixConfirmedOnlyTakes

\* Both hold of every step: advice moves no verdict, and a fix the history confirmed
\* only takes away, whatever else the run reports (gate/index.ts).
THEOREM GateStepsDoNoMore == Spec => StepsDoNoMore
BY GateAdvisoryInert, GateFixOnlyTakes,
   PTL DEF AdvisoryInert, FixConfirmedOnlyTakes, StepsDoNoMore

-----------------------------------------------------------------------------
(* Intake.  What a run and a page check read is of the right kind.         *)

LEMMA ElementOf ==
    ASSUME NEW S, NEW s \in Seq(S), NEW i \in DOMAIN s
    PROVE  s[i] \in S
OBVIOUS

\* What the files of a repository load as is a bundle.
LEMMA LoadTyped ==
    ASSUME NEW repo \in Repository, NEW root
    PROVE  LoadRequirements(root, repo.files) \in Bundle
<1>1. \A s \in Sites(repo.files) : EntryAt(repo.files, s) \in Entry
  <2>1. TAKE s \in Sites(repo.files)
  <2>2. PICK f \in DOMAIN repo.files : s \in {f} \X DOMAIN repo.files[f].entries
    BY <2>1 DEF Sites
  <2>3. s[1] = f /\ s[2] \in DOMAIN repo.files[f].entries
    BY <2>2
  <2>4. repo.files \in Seq([shaped : BOOLEAN, entries : Seq(Entry)])
    BY DEF Repository
  <2>5. repo.files[f] \in [shaped : BOOLEAN, entries : Seq(Entry)]
    BY <2>2, <2>4, ElementOf
  <2>6. repo.files[f].entries \in Seq(Entry)
    BY <2>5
  <2>7. repo.files[f].entries[s[2]] \in Entry
    BY <2>3, <2>6, ElementOf
  <2> QED
    BY <2>3, <2>7 DEF EntryAt
<1> QED
  BY <1>1 DEF LoadRequirements, Refused, Bundle

LEMMA KnownTyped ==
    ASSUME NEW config \in Config
    PROVE  SurfaceIds(config) \subseteq Ids /\ KnownSurfaces(config) \subseteq Ids
BY IntakeAssumption DEF Config, SurfaceIds, KnownSurfaces

\* The state of a run past its first step: what it reads by is a config.
Started == run.step # "start" => ConfigParses(run.config)

LEMMA ConfigOfDocument ==
    ASSUME NEW config \in Config \cup {NoConfig, Garbled}, ConfigParses(config)
    PROVE  config \in Config
BY DEF ConfigParses, IsDocument

LEMMA ConfigsTyped ==
    ASSUME IntakeTypeOK, ConfigParses(run.config)
    PROVE  /\ IntakeConfig \in Config
           /\ ScanConfig \in Config
           /\ Plannable \subseteq Ids
           /\ LoadRequirements(IntakeConfig.root, FilesRead) \in Bundle
           /\ LoadRequirements(ScanConfig.root, FilesRead) \in Bundle
<1>1. tree \in Repository /\ trusted \in Repository
  BY IntakeAssumption DEF IntakeTypeOK
<1>2. run.config \in Config
  BY ConfigOfDocument DEF IntakeTypeOK
<1>3. ConfigParses(trusted.config) => trusted.config \in Config
  BY <1>1, ConfigOfDocument DEF Repository
<1>4. /\ [run.config EXCEPT !.root = "none"] \in Config
      /\ [run.config EXCEPT !.surfaces = <<>>] \in Config
  <2>1. <<>> \in Seq(Ids)
    OBVIOUS
  <2>2. /\ run.config.root \in {"none", "unanchored", "dir"}
        /\ run.config.surfaces \in Seq(Ids)
        /\ run.config = [root |-> run.config.root, surfaces |-> run.config.surfaces]
    BY <1>2 DEF Config
  <2>3. /\ [run.config EXCEPT !.root = "none"] =
              [root |-> "none", surfaces |-> run.config.surfaces]
        /\ [run.config EXCEPT !.surfaces = <<>>] =
              [root |-> run.config.root, surfaces |-> <<>>]
    BY <2>2
  <2> QED
    BY <2>1, <2>2, <2>3 DEF Config
<1>5. IntakeConfig \in Config /\ ScanConfig \in Config
  BY <1>2, <1>3, <1>4 DEF IntakeConfig, ScanConfig
<1>6. Plannable \subseteq Ids
  BY <1>5, KnownTyped, IntakeAssumption DEF Plannable
<1>7. /\ LoadRequirements(IntakeConfig.root, trusted.files) \in Bundle
      /\ LoadRequirements(IntakeConfig.root, tree.files) \in Bundle
      /\ LoadRequirements(ScanConfig.root, trusted.files) \in Bundle
      /\ LoadRequirements(ScanConfig.root, tree.files) \in Bundle
  BY <1>1, LoadTyped
<1> QED
  BY <1>5, <1>6, <1>7 DEF FilesRead

LEMMA RefusedTyped == Refused \in Bundle
BY DEF Refused, Bundle

LEMMA IntakeTypedStep ==
    ASSUME IntakeTypeOK, Started, [IntakeNext]_intakeVars
    PROVE  IntakeTypeOK' /\ Started'
<1> USE DEF IntakeTypeOK, Started
<1>1. ASSUME NEW trusting \in BOOLEAN, RunStarts(trusting)
      PROVE  IntakeTypeOK' /\ Started'
  <2>1. tree.config \in Config \cup {NoConfig, Garbled}
    BY IntakeAssumption DEF Repository
  <2> QED
    BY <1>1, <2>1 DEF RunStarts
<1>2. CASE Builds
  <2>1. PICK bundle \in {LoadRequirements(IntakeConfig.root, FilesRead), Refused} :
           /\ Loads(IntakeConfig.root, bundle)
           /\ run' = [run EXCEPT !.step = "built",
                                 !.wired = bundle,
                                 !.disturbed = @ \/ troubles' # troubles]
    BY <1>2 DEF Builds
  <2>2. bundle \in Bundle
    BY <1>2, ConfigsTyped, RefusedTyped DEF Builds
  <2>3. troubles' \in Nat
    BY <2>1 DEF Loads
  <2> QED
    BY <1>2, <2>1, <2>2, <2>3 DEF Builds
<1>3. CASE Guards
  <2>1. DivergedPaths \subseteq {"config", "files", "ledger"}
    BY DEF DivergedPaths
  <2> QED
    BY <1>3, <2>1 DEF Guards
<1>4. CASE Plans
  <2>1. PICK bundle \in {LoadRequirements(ScanConfig.root, FilesRead), Refused},
             affected \in SUBSET Plannable :
           /\ Loads(ScanConfig.root, bundle)
           /\ run' = [run EXCEPT !.step = "planned",
                                 !.loaded = bundle,
                                 !.affected = affected,
                                 !.disturbed = @ \/ troubles' # troubles]
    BY <1>4 DEF Plans
  <2>2. bundle \in Bundle /\ affected \subseteq Ids
    BY <1>4, ConfigsTyped, RefusedTyped DEF Plans
  <2>3. troubles' \in Nat
    BY <2>1 DEF Loads
  <2> QED
    BY <1>4, <2>1, <2>2, <2>3 DEF Plans
<1>5. CASE Scans
  <2>1. PICK seen \in SUBSET run.affected :
           run' = [run EXCEPT !.step = "scanned", !.seen = seen]
    BY <1>5 DEF Scans
  <2> QED
    BY <1>5, <2>1 DEF Scans
<1>6. CASE Judges
  <2>1. Accessibility \in RunVerdicts
    BY DEF Accessibility, Decide, RunVerdicts
  <2>2. PICK said \in RunVerdicts, verdict \in RunVerdicts :
           run' = [run EXCEPT !.step = "done", !.accessibility = said, !.verdict = verdict]
    BY <1>6, <2>1 DEF Judges, RunVerdicts
  <2> QED
    BY <1>6, <2>2 DEF Judges
<1>7. ASSUME NEW label \in Labels \cup {Unlabeled},
             NEW rootPassed \in BOOLEAN, NEW manifestReads \in BOOLEAN,
             PageReads(label, rootPassed, manifestReads)
      PROVE  IntakeTypeOK' /\ Started'
  <2>1. tree \in Repository
    BY IntakeAssumption
  <2>2. LoadRequirements(tree.config.root, tree.files) \in Bundle
    BY <2>1, LoadTyped
  <2>3. ConfigParses(tree.config) => SurfaceIds(tree.config) \subseteq Ids
    BY <2>1, ConfigOfDocument, KnownTyped DEF Repository
  <2>4. ProjectIntake(tree, rootPassed, manifestReads) \in
           [ok : BOOLEAN, entries : SUBSET Entry, gap : BOOLEAN, known : SUBSET Ids]
    BY <2>2, <2>3, IntakeAssumption DEF ProjectIntake, Bundle
  <2> QED
    BY <1>7, <2>4 DEF PageReads
<1>8. ASSUME NEW shown \in BOOLEAN, PageChecks(shown)
      PROVE  IntakeTypeOK' /\ Started'
  <2>1. PageVerdict(page.intake, page.label, shown) \in RunVerdicts
    BY DEF PageVerdict, Decide, RunVerdicts
  <2> QED
    BY <1>8, <2>1 DEF PageChecks
<1>9. ASSUME NEW repo \in Repos, Edits(repo)
      PROVE  IntakeTypeOK' /\ Started'
  <2>1. PICK disturbed \in BOOLEAN : run' = [run EXCEPT !.disturbed = disturbed]
    BY <1>9 DEF Edits, Active
  <2>2. troubles' \in Nat
    BY <1>9 DEF Edits
  <2> QED
    BY <1>9, <2>1, <2>2 DEF Edits
<1>10. CASE UNCHANGED intakeVars
  BY <1>10 DEF intakeVars
<1> QED
  BY <1>1, <1>2, <1>3, <1>4, <1>5, <1>6, <1>7, <1>8, <1>9, <1>10 DEF IntakeNext

\* Every state of a run and of a page check is of the right kind.
THEOREM IntakeTyped == IntakeSpec => []IntakeTypeOK
<1>1. IntakeInit => IntakeTypeOK /\ Started
  BY IntakeAssumption
     DEF IntakeInit, IntakeTypeOK, Started, EmptyBundle, Bundle, RunVerdicts
<1>2. IntakeTypeOK /\ Started /\ [IntakeNext]_intakeVars => (IntakeTypeOK /\ Started)'
  BY IntakeTypedStep
<1> QED
  BY <1>1, <1>2, PTL DEF IntakeSpec

-----------------------------------------------------------------------------
(* What a run nobody disturbed knows at each of its steps.                 *)

Calm == ~run.disturbed

\* Until the guard has compared it, the config in use is the tree's.
SteadyConfig ==
    Calm /\ run.step \in {"parsed", "built"} => run.config = tree.config

WiredAsRead ==
    Calm /\ run.step = "built" =>
        run.wired = LoadRequirements(IntakeConfig.root, FilesRead)

AfterGuard == run.step \in {"guarded", "planned", "scanned", "done"}

AfterPlan == run.step \in {"planned", "scanned", "done"}

\* A guard that found nothing vouches for the config and for the providers.
Committed ==
    Calm /\ AfterGuard /\ run.diverged = {} =>
        run.config = trusted.config /\ run.wired = TrustedBundle

\* Without a trusted ref the tree it compared is still there to be read.
HeldStill ==
    Calm /\ AfterGuard /\ run.step # "done" /\ run.diverged = {} /\ ~run.trusting =>
        /\ tree.excused = trusted.excused
        /\ run.config.root # "none" => tree.files = trusted.files

LoadedCommitted ==
    Calm /\ AfterPlan /\ run.diverged = {} => run.loaded = TrustedBundle

InReach ==
    /\ AfterPlan => run.affected \subseteq Plannable
    /\ run.seen \subseteq run.affected
    /\ run.step \notin {"scanned", "done"} => run.seen = {}

NotYet == run.step # "done" => run.verdict = "null"

RunInv ==
    /\ IntakeTypeOK /\ Started
    /\ SteadyConfig /\ WiredAsRead
    /\ Committed /\ HeldStill /\ LoadedCommitted
    /\ InReach /\ NotYet /\ VerifiedMeansMet

\* Two equal roots and the same files load the same.
LEMMA LoadOfRoot ==
    ASSUME NEW files, NEW others, NEW root, root # "none" => files = others
    PROVE  LoadRequirements(root, files) = LoadRequirements(root, others)
BY DEF LoadRequirements

\* A load that met no trouble gives what the files say.
LEMMA QuietLoad ==
    ASSUME NEW root, NEW bundle, Loads(root, bundle), troubles \in Nat,
           ~(troubles' # troubles)
    PROVE  bundle = LoadRequirements(root, FilesRead)
BY DEF Loads

\* In a bundle that loads, one text is one requirement.
LEMMA TextsApart ==
    ASSUME NEW repo \in Repository, NEW root,
           LoadRequirements(root, repo.files).ok,
           NEW r \in LoadRequirements(root, repo.files).entries,
           NEW s \in LoadRequirements(root, repo.files).entries,
           s.id.text = r.id.text
    PROVE  s = r
<1>1. root # "none"
  BY DEF LoadRequirements
<1>2. /\ \A f \in DOMAIN repo.files : FileParses(repo.files[f])
      /\ ~RepeatsAnId(repo.files)
      /\ LoadRequirements(root, repo.files).entries =
             {EntryAt(repo.files, t) : t \in Sites(repo.files)}
  BY <1>1 DEF LoadRequirements, Refused
<1>3. PICK p, q \in Sites(repo.files) :
         r = EntryAt(repo.files, p) /\ s = EntryAt(repo.files, q)
  BY <1>2
<1>4. \A t \in Sites(repo.files) :
         EntryParses(EntryAt(repo.files, t)) /\ EntryAt(repo.files, t) \in Entry
  <2>1. TAKE t \in Sites(repo.files)
  <2>2. PICK f \in DOMAIN repo.files : t \in {f} \X DOMAIN repo.files[f].entries
    BY <2>1 DEF Sites
  <2>3. t[1] = f /\ t[2] \in DOMAIN repo.files[f].entries
    BY <2>2
  <2>4. EntryParses(EntryAt(repo.files, t))
    BY <1>2, <2>2, <2>3 DEF FileParses, EntryAt
  <2>5. LoadRequirements(root, repo.files).entries \subseteq Entry
    BY LoadTyped DEF Bundle
  <2>6. EntryAt(repo.files, t) \in Entry
    BY <1>2, <2>5
  <2> QED
    BY <2>4, <2>6
<1>5. r.id \in Ids /\ s.id \in Ids /\ UsableId(r.id) /\ UsableId(s.id)
  BY <1>3, <1>4 DEF EntryParses, Entry
<1>6. s.id = r.id
  BY <1>5, IntakeAssumption
<1>7. p = q
  BY <1>2, <1>3, <1>6 DEF RepeatsAnId
<1> QED
  BY <1>3, <1>7

\* The verdict of an undisturbed run, at the step that says it.
LEMMA JudgedMeansMet ==
    ASSUME RunInv, Judges, Calm, run'.verdict = "verified"
    PROVE  /\ ConfigParses(trusted.config)
           /\ TrustedBundle.ok
           /\ \A r \in Runtime(TrustedBundle.entries) :
                 /\ r.surface \in KnownSurfaces(trusted.config) \cup DocsPages
                 /\ \A s \in TrustedBundle.entries : s.id.text = r.id.text => s = r
                 /\ r.surface \in run.affected =>
                       \/ app[r.asks] = "met"
                       \/ /\ app[r.asks] \in {"unmet", "unsure"}
                          /\ [id |-> r.id, surface |-> r.surface] \in trusted.excused
<1> USE DEF RunInv
<1>1. /\ run.step = "scanned" /\ ~PolicyUntrusted /\ Accessibility = "verified"
      /\ LedgerParses
  BY DEF Judges, IntakeTypeOK
<1>2. run.diverged = {} /\ run.loaded.ok
  BY <1>1 DEF PolicyUntrusted
<1>3. run.config = trusted.config /\ run.wired = TrustedBundle /\ run.loaded = TrustedBundle
  BY <1>1, <1>2 DEF Committed, LoadedCommitted, AfterGuard, AfterPlan
<1>4. ConfigParses(trusted.config) /\ ScanConfig = trusted.config
  BY <1>1, <1>2, <1>3 DEF Started, ScanConfig, TrustsOwnConfig
<1>5. /\ ~Idle /\ Covered
      /\ \A r \in SeenWith("unmet") \cup SeenWith("unsure") : Excused(r)
  BY <1>1 DEF Accessibility, Decide
<1>6. CanScan /\ run.seen = run.affected /\ SeenWith("thrown") = {} /\ RunGaps = {}
  BY <1>2, <1>5 DEF Covered, CanScan
<1>7. Excuses = trusted.excused
  BY <1>1, <1>2 DEF Excuses, Ledger, HeldStill, AfterGuard
<1>8. ASSUME NEW r \in Runtime(TrustedBundle.entries)
      PROVE  /\ r.surface \in KnownSurfaces(trusted.config) \cup DocsPages
             /\ \A s \in TrustedBundle.entries : s.id.text = r.id.text => s = r
             /\ r.surface \in run.affected =>
                   \/ app[r.asks] = "met"
                   \/ /\ app[r.asks] \in {"unmet", "unsure"}
                      /\ [id |-> r.id, surface |-> r.surface] \in trusted.excused
  <2>1. r.surface \in KnownSurfaces(trusted.config) \cup DocsPages
    BY <1>3, <1>4, <1>6 DEF RunGaps, UnknownSurface
  <2>2. trusted \in Repository
    BY IntakeAssumption DEF IntakeTypeOK
  <2>3. r \in TrustedBundle.entries /\ TrustedBundle.ok
    BY <1>2, <1>3 DEF Runtime
  <2>4. \A s \in TrustedBundle.entries : s.id.text = r.id.text => s = r
    BY <2>2, <2>3, TextsApart DEF TrustedBundle
  <2>5. ASSUME r.surface \in run.affected
        PROVE  \/ app[r.asks] = "met"
               \/ /\ app[r.asks] \in {"unmet", "unsure"}
                  /\ [id |-> r.id, surface |-> r.surface] \in trusted.excused
    <3>1. \A outcome : app[r.asks] = outcome => r \in SeenWith(outcome)
      BY <1>3, <1>6, <2>5 DEF SeenWith, Outcomes
    <3>2. r.asks \in Asks
      BY <2>3, <1>3 DEF IntakeTypeOK, Bundle, Entry
    <3>3. app[r.asks] \in {"met", "unmet", "unsure", "thrown"}
      BY <3>2, IntakeAssumption DEF IntakeTypeOK
    <3>4. app[r.asks] # "thrown"
      BY <3>1, <1>6
    <3> QED
      BY <3>1, <3>3, <3>4, <1>5, <1>7 DEF Excused
  <2> QED
    BY <2>1, <2>4, <2>5
<1> QED
  BY <1>2, <1>3, <1>4, <1>8

\* The facts a step rests on, where it changes only these fields of the run.
LEMMA RunInvStep ==
    ASSUME RunInv, [IntakeNext]_intakeVars
    PROVE  RunInv'
<1> USE DEF RunInv, Calm, AfterGuard, AfterPlan
<1>1. IntakeTypeOK' /\ Started'
  BY IntakeTypedStep
<1>2. ASSUME NEW trusting \in BOOLEAN, RunStarts(trusting)
      PROVE  RunInv'
  BY <1>1, <1>2
     DEF RunStarts, IntakeTypeOK, SteadyConfig, WiredAsRead, Committed, HeldStill,
         LoadedCommitted, InReach, NotYet, VerifiedMeansMet
<1>3. CASE Builds
  <2>1. PICK bundle \in {LoadRequirements(IntakeConfig.root, FilesRead), Refused} :
           /\ Loads(IntakeConfig.root, bundle)
           /\ run' = [run EXCEPT !.step = "built",
                                 !.wired = bundle,
                                 !.disturbed = @ \/ troubles' # troubles]
    BY <1>3 DEF Builds
  <2>2. /\ run.step = "parsed" /\ UNCHANGED <<tree, trusted, app, page>>
        /\ run'.step = "built" /\ run'.wired = bundle
        /\ run'.disturbed = (run.disturbed \/ troubles' # troubles)
        /\ run'.config = run.config /\ run'.trusting = run.trusting
        /\ run'.verdict = run.verdict
        /\ run'.seen = run.seen /\ run'.affected = run.affected
    BY <1>3, <2>1 DEF Builds, IntakeTypeOK
  <2>3. IntakeConfig' = IntakeConfig /\ FilesRead' = FilesRead
    BY <2>2 DEF IntakeConfig, FilesRead
  <2>4. Calm' => Calm /\ bundle = LoadRequirements(IntakeConfig.root, FilesRead)
    <3>1. troubles \in Nat /\ Loads(IntakeConfig.root, bundle)
      BY <2>1 DEF IntakeTypeOK
    <3>2. ~(troubles' # troubles) => bundle = LoadRequirements(IntakeConfig.root, FilesRead)
      BY <3>1, QuietLoad
    <3> QED
      BY <2>2, <3>2
  <2>5. WiredAsRead'
    BY <2>2, <2>3, <2>4 DEF WiredAsRead
  <2> QED
    BY <1>1, <2>2, <2>4, <2>5
       DEF SteadyConfig, Committed, HeldStill, LoadedCommitted, InReach, NotYet,
           VerifiedMeansMet
<1>4. CASE Guards
  <2>1. /\ run.step = "built" /\ UNCHANGED <<tree, trusted, app, page, troubles>>
        /\ run'.step = "guarded" /\ run'.diverged = DivergedPaths
        /\ run'.wired = run.wired /\ run'.disturbed = run.disturbed
        /\ run'.config = run.config /\ run'.trusting = run.trusting
        /\ run'.verdict = run.verdict
        /\ run'.seen = run.seen /\ run'.affected = run.affected
    BY <1>4 DEF Guards, IntakeTypeOK
  <2>2. ASSUME Calm, DivergedPaths = {}
        PROVE  /\ run.config = trusted.config
               /\ run.wired = TrustedBundle
               /\ tree.excused = trusted.excused
               /\ run.config.root # "none" => tree.files = trusted.files
    <3>1. /\ tree.config = trusted.config /\ IsDocument(tree.config)
          /\ tree.excused = trusted.excused
          /\ trusted.config.root # "none" => tree.files = trusted.files
      BY <2>2 DEF DivergedPaths
    <3>2. run.config = trusted.config
      BY <2>1, <2>2, <3>1 DEF SteadyConfig
    <3>3. ConfigParses(trusted.config) /\ IntakeConfig = trusted.config
      BY <2>1, <3>2 DEF Started, IntakeConfig
    <3>4. run.wired = LoadRequirements(trusted.config.root, FilesRead)
      BY <2>1, <2>2, <3>3 DEF WiredAsRead
    <3>5. LoadRequirements(trusted.config.root, FilesRead) = TrustedBundle
      BY <3>1, LoadOfRoot DEF FilesRead, TrustedBundle
    <3> QED
      BY <3>1, <3>2, <3>4, <3>5
  <2>3. TrustedBundle' = TrustedBundle
    BY <2>1 DEF TrustedBundle
  <2>4. Committed' /\ HeldStill'
    BY <2>1, <2>2, <2>3 DEF Committed, HeldStill
  <2> QED
    BY <1>1, <2>1, <2>4
       DEF SteadyConfig, WiredAsRead, LoadedCommitted, InReach, NotYet, VerifiedMeansMet
<1>5. CASE Plans
  <2>1. PICK bundle \in {LoadRequirements(ScanConfig.root, FilesRead), Refused},
             affected \in SUBSET Plannable :
           /\ Loads(ScanConfig.root, bundle)
           /\ run' = [run EXCEPT !.step = "planned",
                                 !.loaded = bundle,
                                 !.affected = affected,
                                 !.disturbed = @ \/ troubles' # troubles]
    BY <1>5 DEF Plans
  <2>2. /\ run.step = "guarded" /\ UNCHANGED <<tree, trusted, app, page>>
        /\ run'.step = "planned" /\ run'.loaded = bundle
        /\ run'.affected = affected
        /\ run'.disturbed = (run.disturbed \/ troubles' # troubles)
        /\ run'.wired = run.wired /\ run'.diverged = run.diverged
        /\ run'.config = run.config /\ run'.trusting = run.trusting
        /\ run'.verdict = run.verdict /\ run'.seen = run.seen
    BY <1>5, <2>1 DEF Plans, IntakeTypeOK
  <2>3. /\ TrustedBundle' = TrustedBundle
        /\ Plannable' = Plannable
    BY <2>2 DEF TrustedBundle, Plannable, Readable, TrustsOwnConfig, ScanConfig
  <2>4. Calm' => Calm /\ bundle = LoadRequirements(ScanConfig.root, FilesRead)
    <3>1. troubles \in Nat /\ Loads(ScanConfig.root, bundle)
      BY <2>1 DEF IntakeTypeOK
    <3>2. ~(troubles' # troubles) => bundle = LoadRequirements(ScanConfig.root, FilesRead)
      BY <3>1, QuietLoad
    <3> QED
      BY <2>2, <3>2
  <2>5. ASSUME Calm', run.diverged = {}
        PROVE  bundle = TrustedBundle
    <3>1. run.config = trusted.config /\ ScanConfig = trusted.config
      BY <2>2, <2>4, <2>5 DEF Committed, ScanConfig, TrustsOwnConfig
    <3>2. LoadRequirements(trusted.config.root, FilesRead) = TrustedBundle
      BY <2>2, <2>4, <2>5, <3>1, LoadOfRoot DEF HeldStill, FilesRead, TrustedBundle
    <3> QED
      BY <2>4, <2>5, <3>1, <3>2
  <2>6. Committed' /\ HeldStill' /\ LoadedCommitted'
    BY <2>2, <2>3, <2>4, <2>5 DEF Committed, HeldStill, LoadedCommitted
  <2> QED
    BY <1>1, <2>2, <2>3, <2>6
       DEF SteadyConfig, WiredAsRead, InReach, NotYet, VerifiedMeansMet
<1>6. CASE Scans
  <2>1. PICK seen \in SUBSET run.affected :
           run' = [run EXCEPT !.step = "scanned", !.seen = seen]
    BY <1>6 DEF Scans
  <2>2. /\ run.step = "planned" /\ UNCHANGED <<tree, trusted, app, page, troubles>>
        /\ run'.step = "scanned" /\ run'.seen = seen
        /\ run'.loaded = run.loaded /\ run'.affected = run.affected
        /\ run'.disturbed = run.disturbed
        /\ run'.wired = run.wired /\ run'.diverged = run.diverged
        /\ run'.config = run.config /\ run'.trusting = run.trusting
        /\ run'.verdict = run.verdict
    BY <1>6, <2>1 DEF Scans, IntakeTypeOK
  <2>3. TrustedBundle' = TrustedBundle /\ Plannable' = Plannable
    BY <2>2 DEF TrustedBundle, Plannable, Readable, TrustsOwnConfig, ScanConfig
  <2> QED
    BY <1>1, <2>1, <2>2, <2>3
       DEF SteadyConfig, WiredAsRead, Committed, HeldStill, LoadedCommitted, InReach,
           NotYet, VerifiedMeansMet
<1>7. CASE Judges
  <2>1. /\ run.step = "scanned" /\ UNCHANGED <<tree, trusted, app, page, troubles>>
        /\ run'.step = "done" /\ run'.seen = run.seen
        /\ run'.loaded = run.loaded /\ run'.affected = run.affected
        /\ run'.disturbed = run.disturbed
        /\ run'.wired = run.wired /\ run'.diverged = run.diverged
        /\ run'.config = run.config /\ run'.trusting = run.trusting
    BY <1>7 DEF Judges, IntakeTypeOK
  <2>2. TrustedBundle' = TrustedBundle /\ Plannable' = Plannable
    BY <2>1 DEF TrustedBundle, Plannable, Readable, TrustsOwnConfig, ScanConfig
  <2>3. VerifiedMeansMet'
    BY <1>7, <2>1, <2>2, JudgedMeansMet DEF VerifiedMeansMet
  <2> QED
    BY <1>1, <2>1, <2>2, <2>3
       DEF SteadyConfig, WiredAsRead, Committed, HeldStill, LoadedCommitted, InReach,
           NotYet
<1>8. ASSUME NEW repo \in Repos, Edits(repo)
      PROVE  RunInv'
  <2>1. /\ UNCHANGED <<trusted, app, page>> /\ tree' = repo
        /\ run'.step = run.step /\ run'.seen = run.seen
        /\ run'.loaded = run.loaded /\ run'.affected = run.affected
        /\ run'.wired = run.wired /\ run'.diverged = run.diverged
        /\ run'.config = run.config /\ run'.trusting = run.trusting
        /\ run'.verdict = run.verdict
        /\ run'.disturbed =
              (run.disturbed \/ (Active /\ (run.trusting => repo.config # tree.config)))
    BY <1>8 DEF Edits, IntakeTypeOK
  <2>2. /\ TrustedBundle' = TrustedBundle /\ Plannable' = Plannable
        /\ IntakeConfig' = IntakeConfig
    BY <2>1 DEF TrustedBundle, Plannable, Readable, TrustsOwnConfig, ScanConfig,
               IntakeConfig
  <2>3. Calm' => Calm /\ (Active => run.trusting /\ tree'.config = tree.config)
    BY <2>1
  <2>4. VerifiedMeansMet'
    BY <2>1, <2>2, <2>3 DEF VerifiedMeansMet
  <2>5. WiredAsRead'
    BY <2>1, <2>2, <2>3 DEF WiredAsRead, FilesRead, Active
  <2>6. SteadyConfig' /\ HeldStill'
    BY <2>1, <2>3 DEF SteadyConfig, HeldStill, Active
  <2> QED
    BY <1>1, <2>1, <2>2, <2>3, <2>4, <2>5, <2>6
       DEF Committed, LoadedCommitted, InReach, NotYet
<1>9. ASSUME UNCHANGED <<tree, trusted, app, run>>
      PROVE  RunInv'
  <2>1. /\ TrustedBundle' = TrustedBundle /\ Plannable' = Plannable
        /\ IntakeConfig' = IntakeConfig /\ FilesRead' = FilesRead
    BY <1>9 DEF TrustedBundle, Plannable, Readable, TrustsOwnConfig, ScanConfig,
               IntakeConfig, FilesRead
  <2> QED
    BY <1>1, <1>9, <2>1
       DEF SteadyConfig, WiredAsRead, Committed, HeldStill, LoadedCommitted, InReach,
           NotYet, VerifiedMeansMet
<1> QED
  BY <1>2, <1>3, <1>4, <1>5, <1>6, <1>7, <1>8, <1>9
     DEF IntakeNext, intakeVars, PageReads, PageChecks

\* What a run knows at each step holds in every state: the guard that found nothing
\* vouches for the config, the providers and the second load (run.ts).
THEOREM RunInvariance == IntakeSpec => []RunInv
<1>1. IntakeInit => RunInv
  <2>1. IntakeInit => IntakeTypeOK /\ Started
    BY IntakeAssumption
       DEF IntakeInit, IntakeTypeOK, Started, EmptyBundle, Bundle, RunVerdicts
  <2> QED
    BY <2>1
       DEF IntakeInit, RunInv, Calm, AfterGuard, AfterPlan, SteadyConfig, WiredAsRead,
           Committed, HeldStill, LoadedCommitted, InReach, NotYet, VerifiedMeansMet
<1>2. RunInv /\ [IntakeNext]_intakeVars => RunInv'
  BY RunInvStep
<1> QED
  BY <1>1, <1>2, PTL DEF IntakeSpec

\* A run nobody disturbed says verified only of the committed requirements, whole
\* and met on every screen it planned (run.ts, intake/load.ts).
THEOREM IntakeVerifiedMeansMet == IntakeSpec => []VerifiedMeansMet
<1>1. RunInv => VerifiedMeansMet
  BY DEF RunInv
<1> QED
  BY <1>1, RunInvariance, PTL

-----------------------------------------------------------------------------
(* The page check.                                                         *)

ReadPage ==
    \E rootPassed, manifestReads \in BOOLEAN :
        page.intake = ProjectIntake(tree, rootPassed, manifestReads)

\* A page check is alone, and what it read is still the project's.
PageInv ==
    /\ page.step # "start" => run.step = "start" /\ ReadPage
    /\ page.step # "done" => page.verdict = "null"
    /\ PageAccountsForAll

\* The verdict of a page check, at the step that says it.
LEMMA CheckedPageAccounts ==
    ASSUME IntakeTypeOK, ReadPage, tree.config # NoConfig, NEW shown \in BOOLEAN,
           PageVerdict(page.intake, page.label, shown) = "verified"
    PROVE  LET bundle == LoadRequirements(tree.config.root, tree.files) IN
           /\ ConfigParses(tree.config)
           /\ bundle.ok
           /\ \A r \in Runtime(bundle.entries) :
                 /\ page.label # Unlabeled
                 /\ IF r.surface = page.label
                    THEN app[r.asks] = "met"
                    ELSE /\ r.surface \in KnownSurfaces(tree.config)
                         /\ \/ page.label \in KnownSurfaces(tree.config)
                            \/ \E s \in Runtime(bundle.entries) :
                                  s.surface = page.label
<1> DEFINE bundle == LoadRequirements(tree.config.root, tree.files)
<1>1. /\ ~page.intake.gap /\ shown
      /\ PageGaps(page.intake, page.label) = {}
      /\ PageOutcomes(page.intake, page.label, "unmet") = {}
      /\ PageOutcomes(page.intake, page.label, "thrown") = {}
      /\ PageOutcomes(page.intake, page.label, "unsure") = {}
  BY DEF PageVerdict, Decide
<1>2. /\ ConfigParses(tree.config) /\ bundle.ok
      /\ page.intake.entries = bundle.entries
      /\ page.intake.known \subseteq KnownSurfaces(tree.config)
  <2>1. PICK rootPassed, manifestReads \in BOOLEAN :
           page.intake = ProjectIntake(tree, rootPassed, manifestReads)
    BY DEF ReadPage
  <2>2. ConfigParses(tree.config)
    BY <1>1, <2>1 DEF ProjectIntake
  <2>3. /\ page.intake.gap = ~bundle.ok
        /\ page.intake.entries = bundle.entries
        /\ page.intake.known =
              SurfaceIds(tree.config) \cup (IF manifestReads THEN Routes ELSE {})
    BY <2>1, <2>2 DEF ProjectIntake
  <2>4. bundle.ok
    BY <1>1, <2>3 DEF LoadRequirements, Refused
  <2> QED
    BY <2>2, <2>3, <2>4 DEF KnownSurfaces
<1>3. tree \in Repository
  BY IntakeAssumption DEF IntakeTypeOK
<1>4. bundle.entries \subseteq Entry
  BY <1>3, LoadTyped DEF Bundle
<1>5. ASSUME NEW r \in Runtime(bundle.entries)
      PROVE  /\ page.label # Unlabeled
             /\ IF r.surface = page.label
                THEN app[r.asks] = "met"
                ELSE /\ r.surface \in KnownSurfaces(tree.config)
                     /\ \/ page.label \in KnownSurfaces(tree.config)
                        \/ \E s \in Runtime(bundle.entries) : s.surface = page.label
  <2>1. PageIsKnown(page.intake, page.label)
    BY <1>1, <1>2 DEF PageGaps
  <2>2. /\ page.label # Unlabeled
        /\ \/ page.label \in KnownSurfaces(tree.config)
           \/ \E s \in Runtime(bundle.entries) : s.surface = page.label
    BY <1>2, <2>1 DEF PageIsKnown
  <2>3. r.surface \in page.intake.known \cup {page.label}
    BY <1>1, <1>2, <2>1 DEF PageGaps, UnknownSurface
  <2>4. ASSUME r.surface = page.label
        PROVE  app[r.asks] = "met"
    <3>1. app[r.asks] \notin {"unmet", "thrown", "unsure"}
      BY <1>1, <1>2, <2>2, <2>4 DEF PageOutcomes, Outcomes
    <3>2. r.asks \in Asks
      BY <1>4 DEF Runtime, Entry
    <3>3. app[r.asks] \in {"met", "unmet", "unsure", "thrown"}
      BY <3>2, IntakeAssumption DEF IntakeTypeOK
    <3> QED
      BY <3>1, <3>3
  <2> QED
    BY <1>2, <2>2, <2>3, <2>4
<1> QED
  BY <1>2, <1>5

LEMMA PageInvStep ==
    ASSUME IntakeTypeOK, PageInv, [IntakeNext]_intakeVars
    PROVE  PageInv'
<1> USE DEF PageInv
<1>1. ASSUME NEW label \in Labels \cup {Unlabeled},
             NEW rootPassed \in BOOLEAN, NEW manifestReads \in BOOLEAN,
             PageReads(label, rootPassed, manifestReads)
      PROVE  PageInv'
  <2>1. /\ page.step = "start" /\ run'.step = "start"
        /\ page'.step = "read" /\ page'.verdict = page.verdict
        /\ page'.intake = ProjectIntake(tree, rootPassed, manifestReads)
        /\ tree' = tree
    BY <1>1 DEF PageReads, IntakeTypeOK
  <2> QED
    BY <2>1 DEF ReadPage, ProjectIntake, PageAccountsForAll
<1>2. ASSUME NEW shown \in BOOLEAN, PageChecks(shown)
      PROVE  PageInv'
  <2>1. /\ page.step = "read" /\ page'.step = "done"
        /\ page'.label = page.label /\ page'.intake = page.intake
        /\ page'.verdict = PageVerdict(page.intake, page.label, shown)
        /\ UNCHANGED <<tree, trusted, app, run, troubles>>
    BY <1>2 DEF PageChecks, IntakeTypeOK
  <2>2. ReadPage'
    BY <2>1 DEF ReadPage, ProjectIntake
  <2>3. PageAccountsForAll'
    BY <2>1, CheckedPageAccounts DEF PageAccountsForAll
  <2> QED
    BY <2>1, <2>2, <2>3
<1>3. ASSUME NEW repo \in Repos, Edits(repo)
      PROVE  PageInv'
  BY <1>3 DEF Edits, PageAccountsForAll
<1>4. ASSUME page.step = "start", page' = page
      PROVE  PageInv'
  BY <1>4 DEF PageAccountsForAll
<1>5. ASSUME run.step # "start", page' = page
      PROVE  PageInv'
  BY <1>4, <1>5
<1>6. CASE UNCHANGED intakeVars
  BY <1>6 DEF intakeVars, ReadPage, ProjectIntake, PageAccountsForAll
<1> QED
  BY <1>1, <1>2, <1>3, <1>4, <1>5, <1>6
     DEF IntakeNext, RunStarts, Builds, Guards, Plans, Scans, Judges

\* A page check that says verified has accounted for every requirement of the
\* project it read.
THEOREM IntakePageAccounts == IntakeSpec => []PageAccountsForAll
<1>1. IntakeInit => PageInv
  BY DEF IntakeInit, PageInv, PageAccountsForAll
<1>2. IntakeTypeOK /\ PageInv /\ [IntakeNext]_intakeVars => PageInv'
  BY PageInvStep
<1>3. PageInv => PageAccountsForAll
  BY DEF PageInv
<1> QED
  BY <1>1, <1>2, <1>3, IntakeTyped, PTL DEF IntakeSpec

-----------------------------------------------------------------------------
\* On a screen a clean run saw, the page check finds the same failures.
LEMMA RunAgrees == RunInv => PageAgreesWithRun
<1> SUFFICES ASSUME RunInv, run.step = "done", ~run.disturbed, run.diverged = {},
                    NEW label \in run.seen, NEW manifestReads \in BOOLEAN
             PROVE  LET intake == ProjectIntake(trusted, TRUE, manifestReads) IN
                    /\ PageOutcomes(intake, label, "unmet") =
                           {r \in SeenWith("unmet") : r.surface = label}
                    /\ RunGaps \subseteq PageGaps(intake, label)
  BY DEF PageAgreesWithRun
<1> DEFINE intake == ProjectIntake(trusted, TRUE, manifestReads)
<1>1. /\ run.config = trusted.config /\ run.wired = TrustedBundle
      /\ run.loaded = TrustedBundle
  BY DEF RunInv, Committed, LoadedCommitted, Calm, AfterGuard, AfterPlan
<1>2. ConfigParses(trusted.config)
  BY <1>1 DEF RunInv, Started
<1>3. ScanConfig = trusted.config
  BY <1>1 DEF ScanConfig, TrustsOwnConfig
<1>4. /\ intake.entries = TrustedBundle.entries
      /\ intake.known \subseteq KnownSurfaces(trusted.config)
  BY <1>2 DEF ProjectIntake, TrustedBundle, ConfigParses, IsDocument, KnownSurfaces
<1>5. label \in KnownSurfaces(trusted.config) \cup DocsPages
  BY <1>3 DEF RunInv, InReach, AfterPlan, Plannable
<1>6. label # Unlabeled
  BY IntakeAssumption DEF RunInv, IntakeTypeOK
<1>7. PageOutcomes(intake, label, "unmet") =
         {r \in SeenWith("unmet") : r.surface = label}
  BY <1>1, <1>4, <1>6 DEF PageOutcomes, SeenWith, Outcomes
<1>8. RunGaps \subseteq
         UnknownSurface(TrustedBundle.entries, KnownSurfaces(trusted.config) \cup DocsPages)
  BY <1>1, <1>3 DEF RunGaps
<1>9. RunGaps \subseteq PageGaps(intake, label)
  BY <1>4, <1>5, <1>8 DEF PageGaps, UnknownSurface
<1> QED
  BY <1>7, <1>9

\* A page cannot pass checkPage and regress in a run over the same policy.
THEOREM IntakePageAgrees == IntakeSpec => []PageAgreesWithRun
<1> QED
  BY RunAgrees, RunInvariance, PTL

-----------------------------------------------------------------------------
\* A set of numbers that is not empty has a least member.
LEMMA LeastNumber ==
    ASSUME NEW T, T \subseteq Nat, T # {}
    PROVE  \E m \in T : \A k \in T : m <= k
<1> DEFINE R == OpToRel(<, Nat)
<1>1. \E x \in T : \A y \in T : ~ (<<y, x>> \in R)
  <2>1. IsWellFoundedOn(R, Nat)
    BY NatLessThanWellFounded
  <2> HIDE DEF R
  <2> QED BY <2>1, WFMin
<1>2. \A x, y \in Nat : x < y => <<x, y>> \in R
  BY DEF OpToRel
<1> HIDE DEF R
<1>3. PICK x \in T : \A y \in T : ~ (<<y, x>> \in R)
  BY <1>1
<1>4. \A y \in T : ~(y < x)
  BY <1>2, <1>3
<1>5. \A y \in T : x <= y
  BY <1>4
<1> QED BY <1>5

\* A set that holds zero, and with a number the next one, holds every number.
LEMMA EveryNumber ==
    ASSUME NEW T, 0 \in T, \A n \in Nat : n \in T => n + 1 \in T
    PROVE  \A n \in Nat : n \in T
<1> DEFINE U == {n \in Nat : n \notin T}
<1> SUFFICES ASSUME U # {} PROVE FALSE
  OBVIOUS
<1>1. PICK m \in U : \A k \in U : m <= k
  <2>1. U \subseteq Nat
    OBVIOUS
  <2> HIDE DEF U
  <2> QED BY <2>1, LeastNumber
<1>2. m \in Nat /\ m # 0
  OBVIOUS
<1>3. m - 1 \in Nat /\ ~(m <= m - 1) /\ (m - 1) + 1 = m
  BY <1>2
<1>4. m - 1 \in T
  BY <1>1, <1>3
<1>5. m \in T
  BY <1>3, <1>4
<1> QED BY <1>5

-----------------------------------------------------------------------------
\* What a record says of one identity, and the tree it scanned.
TreeIds == Codes \X Nat

CommitType == [code : Codes, floor : Nat]

ScanType == [commit : Nat, tree : TreeIds, floor : Nat, count : Nat \cup {NoReading}]

\* main has a commit, and a record names the one it scanned and its floor.
ScansAreOfMain ==
    /\ main \in Seq(CommitType) /\ Len(main) >= 1
    /\ scans \in Seq(ScanType)
    /\ \A s \in 1..Len(scans) : /\ scans[s].commit \in 1..Len(main)
                                /\ scans[s].floor = main[scans[s].commit].floor

\* A page that draws all it has draws what its code has when the count is low.
LowCountsAreFixes ==
    ~world.dynamic =>
        \A s \in 1..Len(scans) :
            \/ scans[s].count = NoReading
            \/ scans[s].count >= scans[s].floor
            \/ scans[s].count = Barriers[main[scans[s].commit].code]

\* The branch holds records of scans, and each once unless one is redelivered.
BranchHoldsScans ==
    /\ waiting \subseteq 1..Len(scans)
    /\ history \in Seq(Nat)
    /\ \A i \in 1..Len(history) : history[i] \in 1..Len(scans)
    /\ ~world.redelivered =>
         /\ \A i, j \in 1..Len(history) : history[i] = history[j] => i = j
         /\ \A i \in 1..Len(history) : history[i] \notin waiting

HistoryInv == ScansAreOfMain /\ LowCountsAreFixes /\ BranchHoldsScans

-----------------------------------------------------------------------------
LEMMA HistoryStarts == HistoryInit => HistoryInv
<1> SUFFICES ASSUME HistoryInit PROVE HistoryInv
  OBVIOUS
<1>1. Commit(FirstCode, Barriers[FirstCode]) \in CommitType
  BY DebtHistoryAssumption DEF Commit, CommitType
<1>2. main \in Seq(CommitType) /\ Len(main) = 1
  BY <1>1 DEF HistoryInit
<1>3. scans = <<>> /\ waiting = {} /\ history = <<>>
  BY DEF HistoryInit
<1> QED
  BY <1>2, <1>3 DEF HistoryInv, ScansAreOfMain, LowCountsAreFixes, BranchHoldsScans

\* A low count that is recorded is one of a part of the page that mounted.
LEMMA ObservedCounts ==
    ASSUME NEW code \in Codes, NEW floor \in Nat, NEW v \in Sightings(code)
    PROVE  LET n == Observed(v, floor) IN
           /\ n \in Nat \cup {NoReading}
           /\ ~world.dynamic => n = NoReading \/ n >= floor \/ n = Barriers[code]
<1>1. Barriers[code] \in Nat
  BY DebtHistoryAssumption
<1>2. /\ v \in [mounted : BOOLEAN, count : 0..Barriers[code]]
      /\ v.mounted /\ ~world.dynamic => v.count = Barriers[code]
  BY DEF Sightings
<1>3. v.count \in Nat
  BY <1>1, <1>2
<1>4. CASE v.count < floor
  <2>1. CASE LowerCountConfirmed(v)
    <3>1. v.mounted
      BY <2>1, <1>2, <1>3 DEF LowerCountConfirmed, FixShown, SignalHeld, ElementMet
    <3> QED BY <1>2, <1>3, <3>1 DEF Observed
  <2>2. CASE ~LowerCountConfirmed(v)
    BY <1>4, <2>2 DEF Observed
  <2> QED BY <2>1, <2>2
<1>5. CASE ~(v.count < floor)
  BY <1>3, <1>5 DEF Observed
<1> QED BY <1>4, <1>5

LEMMA ScanKeepsHistory == HistoryInv /\ ScanMain => HistoryInv'
<1> SUFFICES ASSUME HistoryInv, ScanMain PROVE HistoryInv'
  OBVIOUS
<1>1. PICK v \in Sightings(main[Tip].code) :
        scans' = Append(scans, [commit |-> Tip,
                                tree   |-> TreeOf(Tip),
                                floor  |-> main[Tip].floor,
                                count  |-> Observed(v, main[Tip].floor)])
  BY DEF ScanMain
<1> DEFINE new == [commit |-> Tip, tree |-> TreeOf(Tip), floor |-> main[Tip].floor,
                   count |-> Observed(v, main[Tip].floor)]
<1>2. /\ main \in Seq(CommitType) /\ Len(main) >= 1 /\ Len(main) \in Nat
      /\ scans \in Seq(ScanType) /\ Len(scans) \in Nat
      /\ world' = world /\ main' = main /\ history' = history
      /\ waiting' = waiting \cup {Len(scans) + 1}
  BY DEF HistoryInv, ScansAreOfMain, ScanMain
<1>3. Tip \in 1..Len(main) /\ main[Tip] \in CommitType
  BY <1>2 DEF Tip
<1>4. main[Tip].code \in Codes /\ main[Tip].floor \in Nat
  BY <1>3 DEF CommitType
<1>5. /\ new.count \in Nat \cup {NoReading}
      /\ ~world.dynamic => \/ new.count = NoReading
                           \/ new.count >= new.floor
                           \/ new.count = Barriers[main[new.commit].code]
  BY <1>1, <1>4, ObservedCounts
<1>6. new \in ScanType
  BY <1>3, <1>4, <1>5 DEF ScanType, TreeOf, TreeIds, Tip
<1>7. /\ new.commit = Tip /\ new.floor = main[Tip].floor
  OBVIOUS
<1>8. scans' = Append(scans, new)
  BY <1>1
<1> HIDE DEF new
<1>9. /\ scans' \in Seq(ScanType) /\ Len(scans') = Len(scans) + 1
      /\ \A s \in 1..Len(scans) : scans'[s] = scans[s]
      /\ scans'[Len(scans) + 1] = new
  BY <1>2, <1>6, <1>8
<1>10. \A s \in 1..Len(scans') : s \in 1..Len(scans) \/ s = Len(scans) + 1
  BY <1>2, <1>9
<1>11. ScansAreOfMain'
  BY <1>2, <1>3, <1>7, <1>9, <1>10 DEF HistoryInv, ScansAreOfMain
<1>12. LowCountsAreFixes'
  BY <1>2, <1>5, <1>9, <1>10 DEF HistoryInv, LowCountsAreFixes
<1>13. BranchHoldsScans'
  <2>1. 1..Len(scans) \subseteq 1..Len(scans') /\ Len(scans) + 1 \in 1..Len(scans')
    BY <1>2, <1>9
  <2>2. \A i \in 1..Len(history) : history[i] \in 1..Len(scans) /\ history[i] # Len(scans) + 1
    BY <1>2 DEF HistoryInv, BranchHoldsScans
  <2>3. waiting' \subseteq 1..Len(scans')
    BY <1>2, <2>1 DEF HistoryInv, BranchHoldsScans
  <2>4. \A i \in 1..Len(history') : history'[i] \in 1..Len(scans')
    BY <1>2, <2>1, <2>2
  <2>5. ~world.redelivered => \A i \in 1..Len(history) : history[i] \notin waiting'
    BY <1>2, <2>2 DEF HistoryInv, BranchHoldsScans
  <2> QED BY <1>2, <2>3, <2>4, <2>5 DEF HistoryInv, BranchHoldsScans
<1> QED BY <1>11, <1>12, <1>13 DEF HistoryInv

\* A record appended to the branch is one that was not on it, unless again.
LEMMA AppendKeepsHistory ==
    ASSUME HistoryInv, NEW s \in Nat, AppendRecord(s) \/ AppendAgain(s)
    PROVE  HistoryInv'
<1>1. /\ world' = world /\ main' = main /\ scans' = scans
      /\ history' = Append(history, s)
      /\ waiting' \subseteq waiting
      /\ s \in 1..Len(scans)
      /\ ~world.redelivered => s \in waiting /\ waiting' = waiting \ {s}
  BY DEF AppendRecord, AppendAgain, HistoryInv, BranchHoldsScans
<1>2. /\ history \in Seq(Nat) /\ Len(history) \in Nat
      /\ waiting \subseteq 1..Len(scans)
      /\ \A i \in 1..Len(history) : history[i] \in 1..Len(scans)
  BY DEF HistoryInv, BranchHoldsScans
<1>3. /\ history' \in Seq(Nat) /\ Len(history') = Len(history) + 1
      /\ \A i \in 1..Len(history) : history'[i] = history[i]
      /\ history'[Len(history) + 1] = s
  BY <1>1, <1>2
<1>4. \A i \in 1..Len(history') : i \in 1..Len(history) \/ i = Len(history) + 1
  BY <1>2, <1>3
<1>5. ScansAreOfMain' /\ LowCountsAreFixes'
  BY <1>1 DEF HistoryInv, ScansAreOfMain, LowCountsAreFixes
<1>6. \A i \in 1..Len(history') : history'[i] \in 1..Len(scans')
  BY <1>1, <1>2, <1>3, <1>4
<1>7. ASSUME ~world.redelivered
      PROVE  /\ \A i, j \in 1..Len(history') : history'[i] = history'[j] => i = j
             /\ \A i \in 1..Len(history') : history'[i] \notin waiting'
  <2>1. /\ \A i, j \in 1..Len(history) : history[i] = history[j] => i = j
        /\ \A i \in 1..Len(history) : history[i] \notin waiting
    BY <1>7 DEF HistoryInv, BranchHoldsScans
  <2>2. \A i \in 1..Len(history) : history[i] # s
    BY <1>1, <1>7, <2>1
  <2> QED BY <1>1, <1>3, <1>4, <1>7, <2>1, <2>2
<1>8. BranchHoldsScans'
  BY <1>1, <1>2, <1>3, <1>6, <1>7 DEF BranchHoldsScans
<1> QED BY <1>5, <1>8 DEF HistoryInv

\* A merge adds a commit, and leaves the ones that were scanned where they are.
LEMMA MergeKeepsHistory ==
    ASSUME HistoryInv, NEW code \in Codes, NEW floor \in Nat, MergeTo(code, floor)
    PROVE  HistoryInv'
<1>1. /\ main' = Append(main, Commit(code, floor))
      /\ world' = world /\ scans' = scans /\ waiting' = waiting /\ history' = history
  BY DEF MergeTo
<1>2. Commit(code, floor) \in CommitType
  BY DEF Commit, CommitType
<1>3. /\ main \in Seq(CommitType) /\ Len(main) >= 1 /\ Len(main) \in Nat
  BY DEF HistoryInv, ScansAreOfMain
<1>4. /\ main' \in Seq(CommitType) /\ Len(main') = Len(main) + 1
      /\ \A c \in 1..Len(main) : main'[c] = main[c]
  BY <1>1, <1>2, <1>3
<1>5. \A s \in 1..Len(scans) : scans[s].commit \in 1..Len(main)
  BY DEF HistoryInv, ScansAreOfMain
<1>6. /\ Len(main') >= 1
      /\ \A s \in 1..Len(scans) : /\ scans[s].commit \in 1..Len(main')
                                  /\ main'[scans[s].commit] = main[scans[s].commit]
  BY <1>3, <1>4, <1>5
<1>7. ScansAreOfMain'
  BY <1>1, <1>4, <1>6 DEF HistoryInv, ScansAreOfMain
<1>8. LowCountsAreFixes'
  BY <1>1, <1>6 DEF HistoryInv, LowCountsAreFixes
<1>9. BranchHoldsScans'
  BY <1>1 DEF HistoryInv, BranchHoldsScans
<1> QED BY <1>7, <1>8, <1>9 DEF HistoryInv

LEMMA HistoryKeeps == HistoryInv /\ [HistoryNext]_historyVars => HistoryInv'
<1> SUFFICES ASSUME HistoryInv, [HistoryNext]_historyVars PROVE HistoryInv'
  OBVIOUS
<1>1. /\ Tip \in 1..Len(main)
      /\ main[Tip].code \in Codes /\ main[Tip].floor \in Nat
  <2>1. main \in Seq(CommitType) /\ Len(main) >= 1 /\ Len(main) \in Nat
    BY DEF HistoryInv, ScansAreOfMain
  <2>2. Tip \in 1..Len(main) /\ main[Tip] \in CommitType
    BY <2>1 DEF Tip
  <2> QED BY <2>2 DEF CommitType
<1>2. \A v \in Sightings(main[Tip].code) : v.count \in Nat
  BY <1>1, DebtHistoryAssumption DEF Sightings
<1>3. CASE ScanMain
  BY <1>3, ScanKeepsHistory
<1>4. CASE \E s \in 1..MaxScans : AppendRecord(s) \/ AppendAgain(s)
  BY <1>4, AppendKeepsHistory, DebtHistoryAssumption
<1>5. ASSUME NEW code \in Codes, MergeCode(code) PROVE HistoryInv'
  BY <1>1, <1>5, MergeKeepsHistory DEF MergeCode
<1>6. CASE MergeBaseline
  <2>1. PICK v, w \in Sightings(main[Tip].code) :
          MergeTo(main[Tip].code, BaselineCount(v, w, main[Tip].floor))
    BY <1>6 DEF MergeBaseline
  <2>2. BaselineCount(v, w, main[Tip].floor) \in Nat
    BY <1>1, <1>2 DEF BaselineCount
  <2> QED BY <1>1, <2>1, <2>2, MergeKeepsHistory
<1>7. CASE MergePrune
  BY <1>1, <1>2, <1>7, MergeKeepsHistory DEF MergePrune
<1>8. CASE UNCHANGED historyVars
  BY <1>8 DEF historyVars, HistoryInv, ScansAreOfMain, LowCountsAreFixes, BranchHoldsScans
<1> QED BY <1>3, <1>4, <1>5, <1>6, <1>7, <1>8 DEF HistoryNext

\* Whatever is merged, scanned and pushed, in any order: the records name the
\* commit they scanned and the floor it had (history/record-run.ts), a low count
\* among them is one buildRecord confirmed, and the branch holds each once unless
\* a push was repeated.
THEOREM HistoryInvariance == HistorySpec => []HistoryInv
BY HistoryStarts, HistoryKeeps, PTL DEF HistorySpec
-----------------------------------------------------------------------------
\* The fold over the records, as far as the count it accepts goes.
IsTrack(t) ==
    /\ t = [accepted |-> t.accepted, state |-> t.state, pending |-> t.pending,
            counts |-> t.counts]
    /\ t.accepted \in Nat
    /\ t.pending \in Nat \cup {NoPending}

\* What a turn does to the accepted count and to the waiting reading.
LEMMA TakeTurns ==
    ASSUME NEW t, IsTrack(t), NEW o, o.count \in Nat, NEW n \in Nat
    PROVE  LET new == Take(n, t, o) IN
           /\ IsTrack(new)
           /\ \/ new.accepted = t.accepted /\ new.pending \in {t.pending, NoPending}
              \/ new.accepted = n /\ new.pending = NoPending
              \/ /\ new.accepted = t.accepted /\ new.pending = o.count
                 /\ o.count < t.accepted
              \/ /\ t.pending # NoPending /\ o.count < t.accepted
                 /\ new.accepted = HigherOf(t.pending, o.count)
                 /\ new.pending = NoPending
<1> DEFINE r == Remember(t, o)
<1>1. /\ r = [accepted |-> r.accepted, state |-> r.state, pending |-> r.pending,
              counts |-> r.counts]
      /\ r.accepted = t.accepted /\ r.pending = t.pending
  <2>1. PICK a, s, p, c :
          t = [accepted |-> a, state |-> s, pending |-> p, counts |-> c]
    BY DEF IsTrack
  <2>2. r = [accepted |-> a, state |-> s, pending |-> p,
             counts |-> [c EXCEPT ![o.tree] = @ \cup {o.count}]]
    BY <2>1 DEF Remember
  <2> QED BY <2>1, <2>2
<1>2. IsTrack(r)
  BY <1>1 DEF IsTrack
<1> HIDE DEF r
<1>3. CASE t.state = "intermittent"
  <2>1. Take(n, t, o) = r
    BY <1>3 DEF Take, r
  <2> QED BY <1>1, <1>2, <2>1
<1>4. CASE t.state # "intermittent" /\ Differs(t, o)
  <2>1. Take(n, t, o) = [r EXCEPT !.state = "intermittent", !.accepted = n, !.pending = NoPending]
    BY <1>4 DEF Take, MarkIntermittent, r
  <2> QED BY <1>1, <2>1 DEF IsTrack
<1>5. CASE t.state # "intermittent" /\ ~Differs(t, o) /\ o.count < t.accepted
  <2>1. CASE t.pending = NoPending
    <3>1. Take(n, t, o) = [r EXCEPT !.pending = o.count]
      BY <1>5, <2>1 DEF Take, Lower, r
    <3> QED BY <1>1, <1>2, <1>5, <2>1, <3>1 DEF IsTrack
  <2>2. CASE t.pending # NoPending
    <3>1. Take(n, t, o) = [r EXCEPT !.state = "confirmed-fixed",
                                    !.accepted = HigherOf(t.pending, o.count),
                                    !.pending = NoPending]
      BY <1>5, <2>2 DEF Take, Lower, Release, r
    <3>2. HigherOf(t.pending, o.count) \in Nat
      BY <2>2 DEF HigherOf, IsTrack
    <3> QED BY <1>1, <1>2, <1>5, <2>2, <3>1, <3>2 DEF IsTrack
  <2> QED BY <2>1, <2>2
<1>6. CASE t.state # "intermittent" /\ ~Differs(t, o) /\ ~(o.count < t.accepted)
  <2>1. Take(n, t, o) = [r EXCEPT !.pending = NoPending]
    BY <1>6 DEF Take, r
  <2> QED BY <1>1, <1>2, <1>6, <2>1 DEF IsTrack
<1> QED BY <1>3, <1>4, <1>5, <1>6

\* The tracks of the first m records.
TracksOf(b, m) ==
    LET after[n \in 0..m] ==
            IF n = 0
            THEN Start(main[b].floor)
            ELSE TakeRecord(after[n - 1], history[n], b)
    IN  after

IsRun(g, b, m) ==
    g = [n \in 0..m |-> IF n = 0
                        THEN Start(main[b].floor)
                        ELSE TakeRecord(g[n - 1], history[n], b)]

\* The recursion of the fold has a value for every number of records.
LEMMA RunExists ==
    ASSUME NEW b
    PROVE  \A m \in Nat : \E g : IsRun(g, b, m)
<1> DEFINE T == {m \in Nat : \E g : IsRun(g, b, m)}
<1>1. 0 \in T
  <2> DEFINE g == [n \in 0..0 |-> Start(main[b].floor)]
  <2>1. IsRun(g, b, 0)
    BY DEF IsRun
  <2> QED BY <2>1
<1>2. ASSUME NEW m \in Nat, m \in T PROVE m + 1 \in T
  <2>1. PICK g : IsRun(g, b, m)
    BY <1>2
  <2> DEFINE last == TakeRecord(g[m], history[m + 1], b)
             h == [n \in 0..(m + 1) |-> IF n = m + 1 THEN last ELSE g[n]]
  <2>2. /\ h = [n \in 0..(m + 1) |-> h[n]]
        /\ h[m + 1] = last
        /\ \A n \in 0..m : h[n] = g[n]
    OBVIOUS
  <2>3. h[m + 1] = TakeRecord(h[m], history[m + 1], b)
    BY <2>2
  <2>4. \A n \in 0..m : g[n] = IF n = 0 THEN Start(main[b].floor)
                               ELSE TakeRecord(g[n - 1], history[n], b)
    BY <2>1 DEF IsRun
  <2> HIDE DEF h, last
  <2>5. \A n \in 0..(m + 1) : h[n] = IF n = 0 THEN Start(main[b].floor)
                                     ELSE TakeRecord(h[n - 1], history[n], b)
    <3> SUFFICES ASSUME NEW n \in 0..(m + 1)
                 PROVE  h[n] = IF n = 0 THEN Start(main[b].floor)
                               ELSE TakeRecord(h[n - 1], history[n], b)
      OBVIOUS
    <3>1. CASE n = m + 1
      <4>1. n - 1 = m /\ n # 0
        BY <3>1
      <4> QED BY <2>3, <3>1, <4>1
    <3>2. CASE n = 0
      <4>1. n \in 0..m
        BY <3>2
      <4>2. h[n] = Start(main[b].floor)
        BY <2>2, <2>4, <3>2, <4>1
      <4> QED BY <3>2, <4>2
    <3>3. CASE n \in 1..m
      <4>3. n \in 0..m /\ n - 1 \in 0..m
        BY <3>3
      <4>1. h[n] = g[n] /\ h[n - 1] = g[n - 1]
        BY <2>2, <4>3
      <4>2. g[n] = TakeRecord(g[n - 1], history[n], b)
        BY <2>4, <3>3
      <4> QED BY <3>3, <4>1, <4>2
    <3> QED BY <3>1, <3>2, <3>3
  <2>6. IsRun(h, b, m + 1)
    BY <2>2, <2>5 DEF IsRun
  <2> QED BY <2>6
<1> HIDE DEF T
<1>3. \A m \in Nat : m \in T
  BY <1>1, <1>2, EveryNumber
<1> QED BY <1>3 DEF T

LEMMA TracksUnroll ==
    ASSUME NEW b, Len(history) \in Nat
    PROVE  /\ TracksAt(b)[0] = Start(main[b].floor)
           /\ \A n \in 1..Len(history) :
                TracksAt(b)[n] = TakeRecord(TracksAt(b)[n - 1], history[n], b)
<1>1. PICK g : IsRun(g, b, Len(history))
  BY RunExists
<1>2. IsRun(TracksAt(b), b, Len(history))
  BY <1>1 DEF TracksAt, IsRun
<1> DEFINE f == TracksAt(b)
<1> HIDE DEF f
<1>3. IsRun(f, b, Len(history))
  BY <1>2 DEF f
<1>4. \A n \in 0..Len(history) : f[n] = IF n = 0 THEN Start(main[b].floor)
                               ELSE TakeRecord(f[n - 1], history[n], b)
  BY <1>3 DEF IsRun
<1> QED BY <1>4 DEF f

-----------------------------------------------------------------------------
\* A record the fold of a run based on b takes.
Taken(s, b) == Applies(s, b) /\ scans[s].count # NoReading

\* What is accepted after n records is the floor, or was confirmed by two of
\* them, and the reading that waits is one of them.
FoldIsShown(t, n, b) ==
    /\ IsTrack(t)
    /\ t.accepted <= main[b].floor
    /\ t.accepted < main[b].floor =>
         \E j, k \in 1..n :
            /\ j # k
            /\ \A i \in {j, k} : /\ Taken(history[i], b)
                                 /\ scans[history[i]].count <= t.accepted
    /\ t.pending # NoPending =>
         /\ t.pending < t.accepted
         /\ \E j \in 1..n : /\ Taken(history[j], b)
                            /\ scans[history[j]].count = t.pending

LEMMA FoldStep ==
    ASSUME NEW b, NEW n \in Nat, NEW t, FoldIsShown(t, n, b),
           main[b].floor \in Nat,
           scans[history[n + 1]].count \in Nat \cup {NoReading}
    PROVE  FoldIsShown(TakeRecord(t, history[n + 1], b), n + 1, b)
<1> DEFINE s == history[n + 1]
           F == main[b].floor
           new == TakeRecord(t, s, b)
<1> SUFFICES FoldIsShown(new, n + 1, b)
  OBVIOUS
<1>1. \A j \in 1..n : j \in 1..(n + 1) /\ j # n + 1
  OBVIOUS
<1>2. n + 1 \in 1..(n + 1)
  OBVIOUS
<1>3. CASE ~Taken(s, b)
  <2>1. new = t
    BY <1>3 DEF TakeRecord, Taken
  <2> QED BY <1>1, <2>1 DEF FoldIsShown
<1>4. CASE Taken(s, b)
  <2> DEFINE o == Reading(s)
             c == scans[s].count
  <2>1. new = Take(F, t, o) /\ o.count = c /\ c \in Nat
    BY <1>4 DEF TakeRecord, Taken, Reading
  <2>2. /\ IsTrack(t) /\ t.accepted \in Nat /\ t.pending \in Nat \cup {NoPending}
        /\ t.accepted <= F
    BY DEF FoldIsShown, IsTrack
  <2>3. /\ IsTrack(new)
        /\ \/ new.accepted = t.accepted /\ new.pending \in {t.pending, NoPending}
           \/ new.accepted = F /\ new.pending = NoPending
           \/ new.accepted = t.accepted /\ new.pending = c /\ c < t.accepted
           \/ /\ t.pending # NoPending /\ c < t.accepted
              /\ new.accepted = HigherOf(t.pending, c) /\ new.pending = NoPending
    BY <2>1, <2>2, TakeTurns
  <2> HIDE DEF new
  <2>4. CASE new.accepted = t.accepted /\ new.pending \in {t.pending, NoPending}
    BY <1>1, <2>2, <2>3, <2>4 DEF FoldIsShown
  <2>5. CASE new.accepted = F /\ new.pending = NoPending
    BY <2>3, <2>5 DEF FoldIsShown
  <2>6. CASE new.accepted = t.accepted /\ new.pending = c /\ c < t.accepted
    <3>1. new.pending < new.accepted /\ new.accepted <= F
      BY <2>2, <2>6
    <3>2. \E j \in 1..(n + 1) : /\ Taken(history[j], b)
                                /\ scans[history[j]].count = new.pending
      BY <1>2, <1>4, <2>6
    <3>3. new.accepted < F =>
            \E j, k \in 1..(n + 1) :
               /\ j # k
               /\ \A i \in {j, k} : /\ Taken(history[i], b)
                                    /\ scans[history[i]].count <= new.accepted
      BY <1>1, <2>6 DEF FoldIsShown
    <3> QED BY <2>3, <3>1, <3>2, <3>3 DEF FoldIsShown
  <2>7. CASE /\ t.pending # NoPending /\ c < t.accepted
             /\ new.accepted = HigherOf(t.pending, c) /\ new.pending = NoPending
    <3>1. PICK j \in 1..n : Taken(history[j], b) /\ scans[history[j]].count = t.pending
      BY <2>7 DEF FoldIsShown
    <3>2. t.pending < t.accepted /\ t.pending \in Nat
      BY <2>2, <2>7 DEF FoldIsShown
    <3>3. /\ t.pending <= new.accepted /\ c <= new.accepted
          /\ new.accepted <= F
      BY <2>1, <2>2, <2>7, <3>2 DEF HigherOf
    <3>4. /\ j \in 1..(n + 1) /\ j # n + 1
          /\ \A i \in {j, n + 1} : /\ Taken(history[i], b)
                                   /\ scans[history[i]].count <= new.accepted
      BY <1>1, <1>4, <3>1, <3>3
    <3> QED BY <1>2, <2>3, <2>7, <3>3, <3>4 DEF FoldIsShown
  <2> QED BY <2>3, <2>4, <2>5, <2>6, <2>7 DEF new
<1> QED BY <1>3, <1>4

LEMMA FoldShown ==
    ASSUME HistoryInv, NEW b \in 1..Tip
    PROVE  FoldIsShown(TrackAt(b), Len(history), b)
<1>1. /\ main \in Seq(CommitType) /\ scans \in Seq(ScanType)
      /\ history \in Seq(Nat) /\ Len(history) \in Nat
      /\ \A i \in 1..Len(history) : history[i] \in 1..Len(scans)
  BY DEF HistoryInv, ScansAreOfMain, BranchHoldsScans
<1>2. main[b].floor \in Nat
  <2>1. main[b] \in CommitType
    BY <1>1 DEF Tip
  <2> QED BY <2>1 DEF CommitType
<1>3. \A i \in 1..Len(history) : scans[history[i]].count \in Nat \cup {NoReading}
  <2>1. \A i \in 1..Len(history) : scans[history[i]] \in ScanType
    BY <1>1
  <2> QED BY <2>1 DEF ScanType
<1> DEFINE f == TracksAt(b)
           T == {n \in Nat : n <= Len(history) => FoldIsShown(f[n], n, b)}
<1>4. /\ f[0] = Start(main[b].floor)
      /\ \A n \in 1..Len(history) : f[n] = TakeRecord(f[n - 1], history[n], b)
  BY <1>1, TracksUnroll
<1> HIDE DEF f
<1>5. 0 \in T
  <2>1. FoldIsShown(Start(main[b].floor), 0, b)
    BY <1>2, NoPendingAssumption DEF FoldIsShown, IsTrack, Start
  <2> QED BY <1>4, <2>1
<1>6. ASSUME NEW n \in Nat, n \in T PROVE n + 1 \in T
  <2> SUFFICES ASSUME n + 1 <= Len(history) PROVE FoldIsShown(f[n + 1], n + 1, b)
    OBVIOUS
  <2>1. n + 1 \in 1..Len(history) /\ (n + 1) - 1 = n /\ n <= Len(history)
    BY <1>1
  <2>2. FoldIsShown(f[n], n, b)
    BY <1>6, <2>1
  <2>3. f[n + 1] = TakeRecord(f[n], history[n + 1], b)
    BY <1>4, <2>1
  <2>4. scans[history[n + 1]].count \in Nat \cup {NoReading}
    BY <1>3, <2>1
  <2> QED BY <1>2, <2>2, <2>3, <2>4, FoldStep
<1> HIDE DEF T
<1>7. Len(history) \in T
  BY <1>1, <1>5, <1>6, EveryNumber
<1> QED BY <1>1, <1>7 DEF T, f, TrackAt

\* Two records that lowered what a run accepts are of two scans of main.
LEMMA ShownByTwo == HistoryInv => TwoScansConfirm
<1> SUFFICES ASSUME HistoryInv, ~world.redelivered, NEW b \in 1..Tip,
                    AcceptedAt(b) < main[b].floor
             PROVE  \E p, q \in 1..Len(scans) : ConfirmedBy(p, q, AcceptedAt(b), b)
  BY DEF TwoScansConfirm
<1>1. FoldIsShown(TrackAt(b), Len(history), b)
  BY FoldShown
<1>2. PICK j, k \in 1..Len(history) :
        /\ j # k
        /\ \A i \in {j, k} : /\ Taken(history[i], b)
                             /\ scans[history[i]].count <= AcceptedAt(b)
  BY <1>1 DEF FoldIsShown, AcceptedAt
<1>3. /\ history[j] \in 1..Len(scans) /\ history[k] \in 1..Len(scans)
      /\ history[j] # history[k]
  BY <1>2 DEF HistoryInv, BranchHoldsScans
<1>4. ConfirmedBy(history[j], history[k], AcceptedAt(b), b)
  BY <1>2, <1>3 DEF ConfirmedBy, Taken, Applies
<1> QED BY <1>3, <1>4

\* Below the floor there is a reading below the floor, and it is of a fix.
LEMMA ShownByFix == HistoryInv => UnfixedDebtIsKept
<1> SUFFICES ASSUME HistoryInv, ~world.dynamic, NEW b \in 1..Tip,
                    \A c \in 1..b : main[c].floor = main[b].floor
                                      => Barriers[main[c].code] >= main[b].floor,
                    AcceptedAt(b) # main[b].floor
             PROVE  FALSE
  BY DEF UnfixedDebtIsKept
<1>1. FoldIsShown(TrackAt(b), Len(history), b)
  BY FoldShown
<1>2. /\ main \in Seq(CommitType) /\ scans \in Seq(ScanType) /\ Len(main) \in Nat
      /\ \A i \in 1..Len(history) : history[i] \in 1..Len(scans)
  BY DEF HistoryInv, ScansAreOfMain, BranchHoldsScans
<1>3. main[b].floor \in Nat /\ b \in Nat
  <2>1. main[b] \in CommitType
    BY <1>2 DEF Tip
  <2> QED BY <2>1 DEF CommitType
<1>4. AcceptedAt(b) \in Nat /\ AcceptedAt(b) < main[b].floor
  BY <1>1, <1>3 DEF FoldIsShown, IsTrack, AcceptedAt
<1>5. PICK j \in 1..Len(history) :
        Taken(history[j], b) /\ scans[history[j]].count <= AcceptedAt(b)
  BY <1>1, <1>4 DEF FoldIsShown, AcceptedAt
<1> DEFINE s == history[j]
           c == scans[s].commit
<1>6. /\ s \in 1..Len(scans)
      /\ scans[s].count \in Nat /\ scans[s].count # NoReading
      /\ c <= b /\ scans[s].floor = main[b].floor
  <2>1. s \in 1..Len(scans) /\ scans[s] \in ScanType
    BY <1>2
  <2> QED BY <1>5, <2>1 DEF Taken, Applies, ScanType
<1>7. c \in 1..Len(main) /\ scans[s].floor = main[c].floor
  BY <1>6 DEF HistoryInv, ScansAreOfMain
<1>8. c \in 1..b
  BY <1>2, <1>3, <1>6, <1>7
<1>9. Barriers[main[c].code] >= main[b].floor
  BY <1>6, <1>7, <1>8
<1>10. scans[s].count < main[b].floor
  BY <1>3, <1>4, <1>5, <1>6
<1>11. \/ scans[s].count >= main[b].floor
       \/ scans[s].count = Barriers[main[c].code]
  BY <1>6 DEF HistoryInv, LowCountsAreFixes
<1> QED BY <1>3, <1>6, <1>9, <1>10, <1>11

\* For every application, number of commits and number of scans: the count a run
\* is judged against is below its floor only when two different scans of main,
\* under that floor and no later than the base, both saw no more than it
\* (trackDebt and follow in history/track.ts).
THEOREM HistoryTwoScansConfirm == HistorySpec => []TwoScansConfirm
BY HistoryInvariance, ShownByTwo, PTL

\* For every application, number of commits and number of scans: while no commit
\* that carries the floor has fewer barriers, a run accepts the whole count,
\* however many scans drew only part of the page (buildRecord in
\* history/record.ts, follow in history/track.ts).
THEOREM HistoryKeepsUnfixedDebt == HistorySpec => []UnfixedDebtIsKept
BY HistoryInvariance, ShownByFix, PTL
=============================================================================
