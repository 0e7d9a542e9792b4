----------------------------- MODULE DebtHistory -----------------------------
(***************************************************************************)
(* Automatic debt tracking as a whole, for one floor identity on one       *)
(* screen: people merge code and floors to main, CI scans main and writes  *)
(* records (history/record.ts, history/record-run.ts), the records reach   *)
(* the history branch late, out of order or twice (HistoryBranch), and a   *)
(* pull request is judged against the floor of its base commit, lowered by *)
(* the records that apply there (history/read.ts, history/tracking.ts,     *)
(* history/track.ts).                                                      *)
(*                                                                         *)
(* main is linear: a commit is its index, and the ancestors of a commit    *)
(* are the smaller indices.  The floor is one count; 0 is a floor without  *)
(* the entry, and the count stands for floorHashOf, which is the same for  *)
(* two floors with the same content.                                       *)
(***************************************************************************)
EXTENDS DebtFold, Sequences, FiniteSets

CONSTANTS
    Codes,        \* versions of the application's source
    Barriers,     \* how many barriers each has at the identity
    FirstCode,    \* the version main starts with
    NoReading,    \* a record that holds no observation of the identity
    MaxCommits,   \* bound: commits on main
    MaxScans      \* bound: scans of main

ASSUME DebtHistoryAssumption ==
    /\ Barriers \in [Codes -> Nat]
    /\ FirstCode \in Codes
    /\ NoReading \notin Nat
    /\ MaxCommits \in Nat
    /\ MaxScans \in Nat

VARIABLES
    world,    \* what can happen around this repository, chosen once:
              \*   dynamic    : a mounted page may show fewer barriers than
              \*                the code has
              \*   redelivered: a record can be appended twice
    main,     \* the commits of main, oldest first: code and floor
    scans,    \* the records CI wrote, in the order the scans ran
    waiting,  \* the scans whose record may still be appended
    history   \* the scans in the order their records stand on the branch

historyVars == <<world, main, scans, waiting, history>>

Commit(code, floor) == [code |-> code, floor |-> floor]

Tip == Len(main)

\* A source tree holds the code and the floor file.
TreeOf(c) == <<main[c].code, main[c].floor>>

HistoryInit ==
    /\ world \in [dynamic : BOOLEAN, redelivered : BOOLEAN]
    /\ main = <<Commit(FirstCode, Barriers[FirstCode])>>
    /\ scans = <<>>
    /\ waiting = {}
    /\ history = <<>>

-----------------------------------------------------------------------------
\* What a scan shows of the screen: whether the part of the page that holds the
\* identity mounted, and how many of its barriers it drew.  A page that mounts
\* draws them all, unless its content comes and goes; one that does not draws
\* any part of them, and then its readiness signal does not hold.
Sightings(code) ==
    {v \in [mounted : BOOLEAN, count : 0..Barriers[code]] :
        v.mounted /\ ~world.dynamic => v.count = Barriers[code]}

SignalHeld(v) == v.mounted

\* The element slots of the scan hold the identity's own element.
ElementMet(v) == v.mounted \/ v.count > 0

FixShown(v) == SignalHeld(v) \/ ElementMet(v)

\* Mutant: a nonzero count is confirmed the way a zero is.
LowerCountConfirmedBySlot(v) == FixShown(v)

LowerCountConfirmed(v) ==
    IF v.count = 0 THEN FixShown(v) ELSE SignalHeld(v)

\* buildRecord: a count below the floor's is recorded only when it is shown to
\* be a fix.  Without an entry in the floor there is nothing to observe.
Observed(v, floor) ==
    IF floor = 0 \/ (v.count < floor /\ ~LowerCountConfirmed(v))
    THEN NoReading
    ELSE v.count

\* usabl history record, on the commit main was at when CI checked it out.
ScanMain ==
    /\ Len(scans) < MaxScans
    /\ \E v \in Sightings(main[Tip].code) :
         scans' = Append(scans, [commit |-> Tip,
                                 tree   |-> TreeOf(Tip),
                                 floor  |-> main[Tip].floor,
                                 count  |-> Observed(v, main[Tip].floor)])
    /\ waiting' = waiting \cup {Len(scans) + 1}
    /\ UNCHANGED <<world, main, history>>

\* usabl history append and the push of it, in any order of the jobs.  A push
\* whose answer was lost leaves the record to be appended once more.
AppendRecord(s) ==
    /\ s \in waiting
    /\ history' = Append(history, s)
    /\ waiting' = waiting \ {s}
    /\ UNCHANGED <<world, main, scans>>

AppendAgain(s) ==
    /\ world.redelivered
    /\ s \in 1..Len(scans)
    /\ Cardinality({i \in 1..Len(history) : history[i] = s}) = 1
    /\ history' = Append(history, s)
    /\ UNCHANGED <<world, main, scans, waiting>>

MergeTo(code, floor) ==
    /\ Tip < MaxCommits
    /\ main' = Append(main, Commit(code, floor))
    /\ UNCHANGED <<world, scans, waiting, history>>

MergeCode(code) ==
    /\ code # main[Tip].code
    /\ MergeTo(code, main[Tip].floor)

\* A floored identity that is absent, with nothing to show its part rendered.
UnconfirmedAbsence(v) == v.count = 0 /\ ~FixShown(v)

\* The count two scans of one tree leave in a floor: what both drew, or the
\* recorded count when either of them cannot show the barriers went away.
BaselineCount(v, w, floor) ==
    IF floor > 0 /\ (UnconfirmedAbsence(v) \/ UnconfirmedAbsence(w))
    THEN floor
    ELSE IF v.count <= w.count THEN v.count ELSE w.count

\* usabl baseline, reviewed and merged.  A floor that comes out the same is no
\* change to merge.
MergeBaseline ==
    \E v, w \in Sightings(main[Tip].code) :
        LET n == BaselineCount(v, w, main[Tip].floor) IN
        /\ n # main[Tip].floor
        /\ MergeTo(main[Tip].code, n)

\* usabl floor prune, reviewed and merged: lower only, and an absence only when
\* it is confirmed.
MergePrune ==
    \E v \in Sightings(main[Tip].code) :
        /\ v.count < main[Tip].floor
        /\ ~UnconfirmedAbsence(v)
        /\ MergeTo(main[Tip].code, v.count)

HistoryNext ==
    \/ ScanMain
    \/ \E s \in 1..MaxScans : AppendRecord(s) \/ AppendAgain(s)
    \/ \E code \in Codes : MergeCode(code)
    \/ MergeBaseline
    \/ MergePrune

HistorySpec == HistoryInit /\ [][HistoryNext]_historyVars

-----------------------------------------------------------------------------
\* readHistory keeps the records of the base and its ancestors; trackDebt the
\* ones written against this exact floor.
Applies(s, base) ==
    /\ scans[s].commit <= base
    /\ scans[s].floor = main[base].floor

\* The observation a record holds, as `follow` takes it.
Reading(s) == [tree |-> scans[s].tree, count |-> scans[s].count]

\* One record of the branch: trackDebt hands it to `follow` when it was written
\* against this floor and observed the identity, and passes it over otherwise.
TakeRecord(track, s, base) ==
    IF Applies(s, base) /\ scans[s].count # NoReading
    THEN Take(main[base].floor, track, Reading(s))
    ELSE track

\* What `follow` knows after each number of records, in the order of the branch.
TracksAt(base) ==
    LET after[n \in 0..Len(history)] ==
            IF n = 0
            THEN Start(main[base].floor)
            ELSE TakeRecord(after[n - 1], history[n], base)
    IN  after

\* The identity as a run with this base commit sees it.
TrackAt(base) == TracksAt(base)[Len(history)]

\* The count the effective floor accepts there.
AcceptedAt(base) == TrackAt(base).accepted

-----------------------------------------------------------------------------
\* Debt nobody fixed is never released: while every commit that carries this
\* floor still has the barriers it accepts, a pull request is judged against
\* the whole count, however many scans drew only part of the page.
UnfixedDebtIsKept ==
    ~world.dynamic =>
        \A b \in 1..Tip :
            (\A c \in 1..b : main[c].floor = main[b].floor
                               => Barriers[main[c].code] >= main[b].floor)
            => AcceptedAt(b) = main[b].floor

\* Two scans that together confirm level n for a run based on b.
ConfirmedBy(p, q, n, b) ==
    /\ p # q
    /\ \A s \in {p, q} : /\ scans[s].commit <= b
                         /\ scans[s].floor = main[b].floor
                         /\ scans[s].count # NoReading
                         /\ scans[s].count <= n

\* A fix counts as confirmed when two different scans of main, at the base or
\* before it and under its floor, saw it (docs/ground-truth.md: "Two
\* consecutive observations of an identity, each from a full scan of main").
\* A record that was appended twice counts as two observations (history/read.ts
\* does not tell them apart), so this asks for branches where none was.
TwoScansConfirm ==
    ~world.redelivered =>
        \A b \in 1..Tip :
            AcceptedAt(b) < main[b].floor =>
                \E p, q \in 1..Len(scans) : ConfirmedBy(p, q, AcceptedAt(b), b)
=============================================================================
