-------------------------- MODULE DebtRecord_proofs --------------------------
(***************************************************************************)
(* Proofs about the two halves of automatic debt tracking: the fold that   *)
(* decides what the records of main's scans let a run accept, and the      *)
(* branch that brings those records to it.  Neither half has a variable of *)
(* the other's, so each has its own inductive invariant.                   *)
(***************************************************************************)
EXTENDS DebtTrack, HistoryBranch, SequenceTheorems, TLAPS

-----------------------------------------------------------------------------
(***************************************************************************)
(* Proofs about the debt-tracking fold, for every floor count, every set   *)
(* of source trees and every history.  The inductive invariant says what   *)
(* the three local variables of `follow` know about the observations they  *)
(* have consumed.                                                          *)
(***************************************************************************)

TrackType == [accepted : Nat,
              state    : States,
              pending  : Nat \cup {NoPending},
              counts   : [Trees -> SUBSET Nat]]

\* A pending reading is the newest one, and it is below the accepted count.
PendingIsLast ==
    track.pending # NoPending =>
        /\ Len(obs) > 0
        /\ obs[Len(obs)].count = track.pending
        /\ track.pending < track.accepted

\* An intermittent identity accepts the floor count and waits for nothing.
RevokedIsFinal ==
    track.state = "intermittent" =>
        track.accepted = FloorCount /\ track.pending = NoPending

\* An identity nobody released or revoked still accepts the floor count.
OpenIsFloor == track.state = "open" => track.accepted = FloorCount

\* The remembered counts of a tree are exactly the ones read on it.
CountsExact ==
    \A t \in Trees : \A c \in Nat :
        c \in track.counts[t]
          <=> (\E i \in 1..Len(obs) : obs[i].tree = t /\ obs[i].count = c)

TrackInv ==
    /\ TypeOK
    /\ NeverAboveFloor
    /\ PendingIsLast
    /\ RevokedIsFinal
    /\ OpenIsFloor

-----------------------------------------------------------------------------
\* Remembering a reading touches nothing but the counts.
LEMMA RememberFields ==
    ASSUME NEW tr \in TrackType, NEW o \in Observations
    PROVE  /\ Remember(tr, o) \in TrackType
           /\ Remember(tr, o).accepted = tr.accepted
           /\ Remember(tr, o).state = tr.state
           /\ Remember(tr, o).pending = tr.pending
           /\ Remember(tr, o).counts = [tr.counts EXCEPT ![o.tree] = @ \cup {o.count}]
<1>1. o.tree \in Trees /\ o.count \in Nat
  BY CountsAssumption DEF Observations
<1>2. [tr.counts EXCEPT ![o.tree] = @ \cup {o.count}] \in [Trees -> SUBSET Nat]
  BY <1>1 DEF TrackType
<1> QED
  BY <1>1, <1>2 DEF Remember, TrackType

\* The five things one turn of the loop can do to the fold.
Skips(tr, new) ==
    /\ tr.state = "intermittent"
    /\ new.state = tr.state /\ new.accepted = tr.accepted /\ new.pending = tr.pending

Revokes(n, tr, o, new) ==
    /\ tr.state # "intermittent" /\ Differs(tr, o)
    /\ new.state = "intermittent" /\ new.accepted = n /\ new.pending = NoPending

Waits(tr, o, new) ==
    /\ tr.state # "intermittent" /\ ~Differs(tr, o)
    /\ o.count < tr.accepted /\ tr.pending = NoPending
    /\ new.state = tr.state /\ new.accepted = tr.accepted /\ new.pending = o.count

Releases(tr, o, new) ==
    /\ tr.state # "intermittent" /\ ~Differs(tr, o)
    /\ o.count < tr.accepted /\ tr.pending \in Nat
    /\ new.state = "confirmed-fixed"
    /\ new.accepted = HigherOf(tr.pending, o.count)
    /\ new.pending = NoPending

Clears(tr, o, new) ==
    /\ tr.state # "intermittent" /\ ~Differs(tr, o)
    /\ ~(o.count < tr.accepted)
    /\ new.state = tr.state /\ new.accepted = tr.accepted /\ new.pending = NoPending

\* One turn of the loop does one of the five, and remembers its reading.
LEMMA TakeCases ==
    ASSUME NEW tr \in TrackType, NEW o \in Observations, NEW n \in Nat
    PROVE  LET new == Take(n, tr, o) IN
           /\ new \in TrackType
           /\ new.counts = [tr.counts EXCEPT ![o.tree] = @ \cup {o.count}]
           /\ \/ Skips(tr, new)
              \/ Revokes(n, tr, o, new)
              \/ Waits(tr, o, new)
              \/ Releases(tr, o, new)
              \/ Clears(tr, o, new)
<1> DEFINE r == Remember(tr, o)
<1>1. /\ r \in TrackType
      /\ r.accepted = tr.accepted
      /\ r.state = tr.state
      /\ r.pending = tr.pending
      /\ r.counts = [tr.counts EXCEPT ![o.tree] = @ \cup {o.count}]
  BY RememberFields
<1>2. o.count \in Nat /\ tr.accepted \in Nat /\ tr.pending \in Nat \cup {NoPending}
  BY CountsAssumption DEF Observations, TrackType
<1> HIDE DEF r
<1>3. CASE tr.state = "intermittent"
  <2>1. Take(n, tr, o) = r
    BY <1>3 DEF Take, r
  <2> QED BY <1>1, <1>3, <2>1 DEF Skips
<1>4. CASE tr.state # "intermittent" /\ Differs(tr, o)
  <2>1. Take(n, tr, o) = [r EXCEPT !.state = "intermittent", !.accepted = n, !.pending = NoPending]
    BY <1>4 DEF Take, MarkIntermittent, r
  <2> QED BY <1>1, <1>2, <1>4, <2>1 DEF TrackType, States, Revokes
<1>5. CASE tr.state # "intermittent" /\ ~Differs(tr, o) /\ o.count < tr.accepted
  <2>1. CASE tr.pending = NoPending
    <3>1. Take(n, tr, o) = [r EXCEPT !.pending = o.count]
      BY <1>5, <2>1 DEF Take, Lower, r
    <3> QED BY <1>1, <1>2, <1>5, <2>1, <3>1 DEF TrackType, States, Waits
  <2>2. CASE tr.pending # NoPending
    <3>1. Take(n, tr, o) = [r EXCEPT !.state = "confirmed-fixed",
                                     !.accepted = HigherOf(tr.pending, o.count),
                                     !.pending = NoPending]
      BY <1>5, <2>2 DEF Take, Lower, Release, r
    <3>2. HigherOf(tr.pending, o.count) \in Nat /\ tr.pending \in Nat
      BY <1>2, <2>2 DEF HigherOf
    <3> QED BY <1>1, <1>2, <1>5, <2>2, <3>1, <3>2 DEF TrackType, States, Releases
  <2> QED BY <2>1, <2>2
<1>6. CASE tr.state # "intermittent" /\ ~Differs(tr, o) /\ ~(o.count < tr.accepted)
  <2>1. Take(n, tr, o) = [r EXCEPT !.pending = NoPending]
    BY <1>6 DEF Take, r
  <2> QED BY <1>1, <1>2, <1>6, <2>1 DEF TrackType, States, Clears
<1> QED BY <1>3, <1>4, <1>5, <1>6

-----------------------------------------------------------------------------
LEMMA InitInv == TrackInit => TrackInv
<1> SUFFICES ASSUME TrackInit PROVE TrackInv
  OBVIOUS
<1> QED
  BY CountsAssumption, NoPendingAssumption
  DEF TrackInit, Start, TrackInv, TypeOK, NeverAboveFloor, PendingIsLast,
      RevokedIsFinal, OpenIsFloor, States

LEMMA NextInv == TrackInv /\ [TrackNext]_trackVars => TrackInv'
<1> SUFFICES ASSUME TrackInv, [TrackNext]_trackVars PROVE TrackInv'
  OBVIOUS
<1>1. ASSUME NEW o \in Observations, Observe(o) PROVE TrackInv'
  <2>1. track \in TrackType /\ obs \in Seq(Observations) /\ FloorCount \in Nat
    BY CountsAssumption DEF TrackInv, TypeOK, TrackType
  <2>2. /\ obs' = Append(obs, o) /\ track' = Take(FloorCount, track, o)
    BY <1>1 DEF Observe
  <2>3. /\ obs' \in Seq(Observations)
        /\ Len(obs') = Len(obs) + 1 /\ Len(obs) \in Nat
        /\ obs'[Len(obs')] = o
    BY <2>1, <2>2
  <2>4. track' \in TrackType
    BY <2>1, <2>2, TakeCases
  <2>5. o.count \in Nat /\ track.accepted \in Nat /\ track.pending \in Nat \cup {NoPending}
    BY <2>1, CountsAssumption DEF Observations, TrackType
  <2>6. TypeOK'
    BY <2>3, <2>4 DEF TypeOK, TrackType
  <2>7. \/ Skips(track, track')
        \/ Revokes(FloorCount, track, o, track')
        \/ Waits(track, o, track')
        \/ Releases(track, o, track')
        \/ Clears(track, o, track')
    BY <2>1, <2>2, TakeCases
  <2>8. /\ NeverAboveFloor /\ PendingIsLast /\ RevokedIsFinal /\ OpenIsFloor
    BY DEF TrackInv
  <2>9. NeverAboveFloor'
    BY <2>1, <2>5, <2>7, <2>8, NoPendingAssumption
    DEF NeverAboveFloor, PendingIsLast, Skips, Revokes, Waits, Releases, Clears, HigherOf
  <2>10. PendingIsLast'
    <3>1. CASE Skips(track, track')
      BY <2>8, <3>1 DEF Skips, RevokedIsFinal, PendingIsLast
    <3>2. CASE Waits(track, o, track')
      BY <2>3, <2>5, <3>2 DEF Waits, PendingIsLast
    <3>3. CASE track'.pending = NoPending
      BY <3>3 DEF PendingIsLast
    <3> QED BY <2>7, <3>1, <3>2, <3>3 DEF Revokes, Releases, Clears
  <2>11. RevokedIsFinal'
    BY <2>7, <2>8
    DEF RevokedIsFinal, Skips, Revokes, Waits, Releases, Clears
  <2>12. OpenIsFloor'
    BY <2>7, <2>8
    DEF OpenIsFloor, Skips, Revokes, Waits, Releases, Clears
  <2> QED BY <2>6, <2>9, <2>10, <2>11, <2>12 DEF TrackInv
<1>2. CASE UNCHANGED trackVars
  BY <1>2 DEF trackVars, TrackInv, TypeOK, NeverAboveFloor, PendingIsLast, RevokedIsFinal, OpenIsFloor
<1> QED BY <1>1, <1>2 DEF TrackNext

\* The inductive invariant holds of every history.
THEOREM TrackInvariance == TrackSpec => []TrackInv
<1> QED BY InitInv, NextInv, PTL DEF TrackSpec

\* The fold's local variables keep their types.
THEOREM TrackTyped == TrackSpec => []TypeOK
<1>1. TrackInv => TypeOK
  BY DEF TrackInv
<1> QED BY <1>1, TrackInvariance, PTL

\* No history makes a run accept more barriers than the committed floor.
THEOREM NeverGreener == TrackSpec => []NeverAboveFloor
<1>1. TrackInv => NeverAboveFloor
  BY DEF TrackInv
<1> QED BY <1>1, TrackInvariance, PTL

-----------------------------------------------------------------------------
\* The accepted count is lowered only by a reading below it that follows
\* another reading below it.
LEMMA LowerStep ==
    ASSUME TrackInv, [TrackNext]_trackVars, track'.accepted < track.accepted
    PROVE  /\ Len(obs') >= 2
           /\ obs'[Len(obs')].count < track.accepted
           /\ obs'[Len(obs') - 1].count < track.accepted
<1>1. track \in TrackType /\ obs \in Seq(Observations) /\ FloorCount \in Nat
  BY CountsAssumption DEF TrackInv, TypeOK, TrackType
<1>2. PICK o \in Observations : Observe(o)
  <2>1. track.accepted \in Nat
    BY <1>1 DEF TrackType
  <2> QED BY <2>1 DEF TrackNext, trackVars
<1>3. obs' = Append(obs, o) /\ track' = Take(FloorCount, track, o)
  BY <1>2 DEF Observe
<1>4. /\ o.count \in Nat /\ track.accepted \in Nat
      /\ track.pending \in Nat \cup {NoPending} /\ track'.accepted \in Nat
  <2>1. track' \in TrackType
    BY <1>1, <1>3, TakeCases
  <2> QED BY <1>1, <2>1, CountsAssumption DEF Observations, TrackType
<1>5. Releases(track, o, track')
  <2>1. \/ Skips(track, track')
        \/ Revokes(FloorCount, track, o, track')
        \/ Waits(track, o, track')
        \/ Releases(track, o, track')
        \/ Clears(track, o, track')
    BY <1>1, <1>3, TakeCases
  <2>2. ~Revokes(FloorCount, track, o, track')
    BY <1>1, <1>4 DEF Revokes, TrackInv, NeverAboveFloor
  <2> QED BY <1>4, <2>1, <2>2 DEF Skips, Waits, Clears
<1>6. /\ Len(obs) > 0 /\ obs[Len(obs)].count = track.pending
      /\ track.pending < track.accepted /\ o.count < track.accepted
  BY <1>4, <1>5, NoPendingAssumption DEF Releases, TrackInv, PendingIsLast
<1>7. /\ Len(obs') = Len(obs) + 1 /\ Len(obs) \in Nat
      /\ obs'[Len(obs')] = o /\ obs'[Len(obs)] = obs[Len(obs)]
  BY <1>1, <1>3, <1>6
<1> QED BY <1>6, <1>7

\* A release takes two consecutive readings below what was accepted.
THEOREM ReleaseTakesTwo == TrackSpec => LowersOnTwoReadings
<1>1. TrackInv /\ [TrackNext]_trackVars =>
        [track'.accepted < track.accepted =>
           /\ Len(obs') >= 2
           /\ obs'[Len(obs')].count < track.accepted
           /\ obs'[Len(obs') - 1].count < track.accepted]_trackVars
  BY LowerStep
<1> QED BY <1>1, TrackInvariance, PTL DEF TrackSpec, LowersOnTwoReadings

-----------------------------------------------------------------------------
\* Two readings of one tree in s disagree.
ConflictIn(s) ==
    \E i, j \in 1..Len(s) : s[i].tree = s[j].tree /\ s[i].count # s[j].count

CInv ==
    /\ CountsExact
    /\ track.state = "intermittent" <=> ConflictIn(obs)

LEMMA InitCounts == TrackInit => CInv
  BY DEF TrackInit, Start, CInv, CountsExact, ConflictIn

\* A reading disagrees with a remembered one exactly when the two conflict.
LEMMA DiffersIsConflict ==
    ASSUME TrackInv, CInv, NEW o \in Observations
    PROVE  Differs(track, o) <=>
             \E i \in 1..Len(obs) : obs[i].tree = o.tree /\ obs[i].count # o.count
<1>1. /\ obs \in Seq(Observations) /\ o.tree \in Trees
      /\ track.counts \in [Trees -> SUBSET Nat]
  BY DEF TrackInv, TypeOK, Observations
<1>2. \A i \in 1..Len(obs) : obs[i].tree \in Trees /\ obs[i].count \in Nat
  <2>1. \A i \in 1..Len(obs) : obs[i] \in Observations
    BY <1>1
  <2>2. \A x \in Observations : x.tree \in Trees /\ x.count \in Nat
    BY CountsAssumption DEF Observations
  <2> QED BY <2>1, <2>2
<1>3. \A c \in Nat : c \in track.counts[o.tree]
        <=> (\E i \in 1..Len(obs) : obs[i].tree = o.tree /\ obs[i].count = c)
  BY <1>1 DEF CInv, CountsExact
<1>4. track.counts[o.tree] \in SUBSET Nat
  BY <1>1
<1>5. ASSUME Differs(track, o)
      PROVE  \E i \in 1..Len(obs) : obs[i].tree = o.tree /\ obs[i].count # o.count
  <2>1. PICK c \in track.counts[o.tree] : c # o.count
    BY <1>5 DEF Differs
  <2>2. PICK i \in 1..Len(obs) : obs[i].tree = o.tree /\ obs[i].count = c
    BY <1>3, <1>4, <2>1
  <2> QED BY <2>1, <2>2
<1>6. ASSUME NEW i \in 1..Len(obs), obs[i].tree = o.tree, obs[i].count # o.count
      PROVE  Differs(track, o)
  <2>1. obs[i].count \in track.counts[o.tree]
    BY <1>2, <1>3, <1>6
  <2> QED BY <1>6, <2>1 DEF Differs
<1> QED BY <1>5, <1>6

LEMMA NextCounts == TrackInv /\ CInv /\ [TrackNext]_trackVars => CInv'
<1> SUFFICES ASSUME TrackInv, CInv, [TrackNext]_trackVars PROVE CInv'
  OBVIOUS
<1>1. ASSUME NEW o \in Observations, Observe(o) PROVE CInv'
  <2>1. track \in TrackType /\ obs \in Seq(Observations) /\ FloorCount \in Nat
    BY CountsAssumption DEF TrackInv, TypeOK, TrackType
  <2>2. /\ obs' = Append(obs, o) /\ track' = Take(FloorCount, track, o)
    BY <1>1 DEF Observe
  <2>3. /\ Len(obs') = Len(obs) + 1 /\ Len(obs) \in Nat
        /\ obs'[Len(obs) + 1] = o
        /\ \A i \in 1..Len(obs) : obs'[i] = obs[i]
    BY <2>1, <2>2
  <2>4. track'.counts = [track.counts EXCEPT ![o.tree] = @ \cup {o.count}]
    BY <2>1, <2>2, TakeCases
  <2>5. /\ o.tree \in Trees /\ o.count \in Nat
        /\ track.counts \in [Trees -> SUBSET Nat]
    BY <2>1, CountsAssumption DEF Observations, TrackType
  <2>6. CountsExact'
    <3>1. SUFFICES ASSUME NEW t \in Trees, NEW c \in Nat
                   PROVE  c \in track'.counts[t]
                            <=> (\E i \in 1..Len(obs') : obs'[i].tree = t /\ obs'[i].count = c)
      BY DEF CountsExact
    <3>2. c \in track'.counts[t]
            <=> c \in track.counts[t] \/ (t = o.tree /\ c = o.count)
      BY <2>4, <2>5
    <3>3. c \in track.counts[t]
            <=> (\E i \in 1..Len(obs) : obs[i].tree = t /\ obs[i].count = c)
      BY DEF CInv, CountsExact
    <3>4. (\E i \in 1..Len(obs') : obs'[i].tree = t /\ obs'[i].count = c)
            <=> \/ \E i \in 1..Len(obs) : obs[i].tree = t /\ obs[i].count = c
                \/ t = o.tree /\ c = o.count
      BY <2>3
    <3> QED BY <3>2, <3>3, <3>4
  <2>7. ConflictIn(obs') <=> ConflictIn(obs) \/ Differs(track, o)
    <3>1. Differs(track, o) <=>
             \E i \in 1..Len(obs) : obs[i].tree = o.tree /\ obs[i].count # o.count
      BY DiffersIsConflict
    <3>2. ASSUME ConflictIn(obs') PROVE ConflictIn(obs) \/ Differs(track, o)
      <4>1. PICK i, j \in 1..Len(obs') :
                obs'[i].tree = obs'[j].tree /\ obs'[i].count # obs'[j].count
        BY <3>2 DEF ConflictIn
      <4>2. CASE i \in 1..Len(obs) /\ j \in 1..Len(obs)
        BY <2>3, <4>1, <4>2 DEF ConflictIn
      <4>3. CASE i = Len(obs) + 1 /\ j \in 1..Len(obs)
        BY <2>3, <3>1, <4>1, <4>3
      <4>4. CASE j = Len(obs) + 1 /\ i \in 1..Len(obs)
        BY <2>3, <3>1, <4>1, <4>4
      <4>5. i # j
        BY <4>1
      <4> QED BY <2>3, <4>1, <4>2, <4>3, <4>4, <4>5
    <3>3. ASSUME ConflictIn(obs) PROVE ConflictIn(obs')
      <4>1. PICK i, j \in 1..Len(obs) :
                obs[i].tree = obs[j].tree /\ obs[i].count # obs[j].count
        BY <3>3 DEF ConflictIn
      <4>2. i \in 1..Len(obs') /\ j \in 1..Len(obs')
        BY <2>3
      <4>3. obs'[i] = obs[i] /\ obs'[j] = obs[j]
        BY <2>3
      <4> QED BY <4>1, <4>2, <4>3 DEF ConflictIn
    <3>4. ASSUME Differs(track, o) PROVE ConflictIn(obs')
      <4>1. PICK i \in 1..Len(obs) : obs[i].tree = o.tree /\ obs[i].count # o.count
        BY <3>1, <3>4
      <4>2. i \in 1..Len(obs') /\ Len(obs) + 1 \in 1..Len(obs')
        BY <2>3
      <4>3. obs'[i] = obs[i] /\ obs'[Len(obs) + 1] = o
        BY <2>3
      <4> QED BY <4>1, <4>2, <4>3 DEF ConflictIn
    <3> QED BY <3>2, <3>3, <3>4
  <2>8. track'.state = "intermittent"
          <=> track.state = "intermittent" \/ Differs(track, o)
    <3>1. \/ Skips(track, track')
          \/ Revokes(FloorCount, track, o, track')
          \/ Waits(track, o, track')
          \/ Releases(track, o, track')
          \/ Clears(track, o, track')
      BY <2>1, <2>2, TakeCases
    <3> QED BY <3>1 DEF Skips, Revokes, Waits, Releases, Clears
  <2>9. track.state = "intermittent" <=> ConflictIn(obs)
    BY DEF CInv
  <2> QED BY <2>6, <2>7, <2>8, <2>9 DEF CInv, ConflictIn
<1>2. CASE UNCHANGED trackVars
  BY <1>2 DEF trackVars, CInv, CountsExact, ConflictIn
<1> QED BY <1>1, <1>2 DEF TrackNext

\* An identity is labelled intermittent exactly when the history holds two
\* readings of one source tree that disagree, and is then at its floor count.
THEOREM IntermittentIsExact == TrackSpec => []IntermittentExactly
<1>1. TrackInv /\ CInv => IntermittentExactly
  BY DEF TrackInv, CInv, RevokedIsFinal, IntermittentExactly, ConflictIn, Conflict
<1> QED BY <1>1, InitInv, NextInv, InitCounts, NextCounts, PTL DEF TrackSpec

-----------------------------------------------------------------------------
\* A step of the fold is a step of the promise, or leaves it as it is.
LEMMA PromiseStep == TrackInv /\ [TrackNext]_trackVars => [Promise!Next]_(Promise!vars)
<1> SUFFICES ASSUME TrackInv, [TrackNext]_trackVars PROVE [Promise!Next]_(Promise!vars)
  OBVIOUS
<1>1. track \in TrackType /\ FloorCount \in Nat
  BY CountsAssumption DEF TrackInv, TypeOK, TrackType
<1>2. ASSUME NEW o \in Observations, Observe(o)
      PROVE  [Promise!Next]_(Promise!vars)
  <2>1. track' = Take(FloorCount, track, o)
    BY <1>2 DEF Observe
  <2>2. /\ o.count \in Nat /\ track.accepted \in Nat
        /\ track.pending \in Nat \cup {NoPending}
    BY <1>1, CountsAssumption DEF Observations, TrackType
  <2>3. \/ Skips(track, track')
        \/ Revokes(FloorCount, track, o, track')
        \/ Waits(track, o, track')
        \/ Releases(track, o, track')
        \/ Clears(track, o, track')
    BY <1>1, <2>1, TakeCases
  <2>4. CASE Skips(track, track') \/ Waits(track, o, track') \/ Clears(track, o, track')
    BY <2>4 DEF Skips, Waits, Clears, Promise!vars
  <2>5. CASE Revokes(FloorCount, track, o, track')
    <3>1. Promise!Revoke
      BY <2>5 DEF Revokes, Promise!Revoke
    <3> QED BY <3>1 DEF Promise!Next
  <2>6. CASE Releases(track, o, track')
    <3>1. /\ track.pending \in Nat /\ track.pending < track.accepted
          /\ o.count < track.accepted /\ track.accepted <= FloorCount
      BY <2>6, NoPendingAssumption DEF Releases, TrackInv, PendingIsLast, NeverAboveFloor
    <3>2. /\ track'.accepted = HigherOf(track.pending, o.count)
          /\ track.state # "intermittent" /\ track'.state = "confirmed-fixed"
      BY <2>6 DEF Releases
    <3>3. track'.accepted \in 0..FloorCount /\ track'.accepted < track.accepted
      BY <1>1, <2>2, <3>1, <3>2 DEF HigherOf
    <3>4. Promise!LowerTo(track'.accepted)
      BY <3>2, <3>3 DEF Promise!LowerTo
    <3> QED BY <3>3, <3>4 DEF Promise!Next
  <2> QED BY <2>3, <2>4, <2>5, <2>6
<1>3. CASE UNCHANGED trackVars
  BY <1>3 DEF trackVars, Promise!vars
<1> QED BY <1>2, <1>3 DEF TrackNext

\* The fold keeps the promise of AcceptedDebt, whatever it observes.
THEOREM KeepsThePromise == TrackSpec => PromiseKept
<1>1. TrackInit => Promise!Init
  BY DEF TrackInit, Start, Promise!Init
<1> QED BY <1>1, PromiseStep, TrackInvariance, PTL DEF TrackSpec, PromiseKept, Promise!Spec

-----------------------------------------------------------------------------
(***************************************************************************)
(* Proofs about the history branch, for any number of jobs, turns of the   *)
(* push loop and re-runs: whatever races, fetches a stale ref or is        *)
(* retried, the branch is a RecordLog.  The inductive invariant says why a *)
(* fast-forward is always exactly one record: a job commits one entry on   *)
(* top of what it fetched, what it fetched is still the beginning of the   *)
(* branch, and the entry it pushes is on the branch at most once.          *)
(***************************************************************************)

Labels == {"queued", "fetch", "append", "push", "done", "failed"}

Entries == [job : Jobs, run : Nat, attempt : Nat] \cup {Unreadable}

BranchTypeOK ==
    /\ world \in [group : BOOLEAN, faults : BOOLEAN, hand : BOOLEAN]
    /\ remote \in Seq(Entries)
    /\ pc \in [Jobs -> Labels]
    /\ run \in [Jobs -> Nat]
    /\ attempt \in [Jobs -> Nat]
    /\ tracking \in [Jobs -> Seq(Entries)]
    /\ local \in [Jobs -> Seq(Entries)]

\* What a job fetched is where the branch began.
TrackingIsBehind == \A j \in Jobs : IsPrefix(tracking[j], remote)

\* What a job pushes is one record on top of it, and no job builds on a history
\* it cannot read.
OneOnTop ==
    \A j \in Jobs : pc[j] = "push" =>
        /\ Readable(tracking[j])
        /\ local[j] = Append(tracking[j], Entry(j))

\* An entry of this job is of an earlier turn than the one it is in.
Before(e, j) ==
    /\ e.run <= run[j]
    /\ InProgress(j) /\ e.run = run[j] => e.attempt < attempt[j]

EntriesAreEarlier ==
    \A j \in Jobs : \A i \in 1..Len(remote) :
        remote[i].job = j => Before(remote[i], j)

\* A job that exits 0 has its record on the branch.
DoneIsHeld == \A j \in Jobs : pc[j] = "done" => Holds(remote, j)

BranchInv ==
    /\ BranchTypeOK
    /\ TrackingIsBehind
    /\ OneOnTop
    /\ EntriesAreEarlier
    /\ DoneIsHeld

-----------------------------------------------------------------------------
\* A prefix, element by element.
LEMMA PrefixIs ==
  ASSUME NEW S, NEW s \in Seq(S), NEW t \in Seq(S)
  PROVE  IsPrefix(s, t) <=> /\ Len(s) <= Len(t)
                            /\ \A i \in 1..Len(s) : s[i] = t[i]
<1>1. ASSUME Len(s) <= Len(t)
      PROVE  SubSeq(s, 1, Len(s)) = SubSeq(t, 1, Len(s))
                <=> \A i \in 1..Len(s) : s[i] = t[i]
  <2>1. SubSeq(s, 1, Len(s)) = s
    BY SubSeqFull
  <2>2. /\ Len(s) \in Nat /\ Len(t) \in Nat
        /\ \A i \in 1..Len(s) : s[i] \in S /\ t[i] \in S
    BY <1>1, LenProperties, ElementOfSeq
  <2>3. /\ SubSeq(t, 1, Len(s)) \in Seq(S)
        /\ Len(SubSeq(t, 1, Len(s))) = Len(s)
        /\ \A i \in 1..Len(s) : SubSeq(t, 1, Len(s))[i] = t[i]
    <3>1. \A i \in 1..Len(s) : t[i] \in S
      BY <2>2
    <3> QED
      BY <2>2, <3>1, SubSeqProperties, Z3
  <2>4. ASSUME \A i \in 1..Len(s) : s[i] = t[i]
        PROVE  s = SubSeq(t, 1, Len(s))
    BY <2>3, <2>4, SeqEqual
  <2> QED
    BY <2>1, <2>3, <2>4
<1> QED
  BY <1>1 DEF IsPrefix

LEMMA Appended ==
  ASSUME NEW S, NEW s \in Seq(S), NEW e \in S
  PROVE  /\ Append(s, e) \in Seq(S)
         /\ Len(Append(s, e)) = Len(s) + 1
         /\ \A i \in 1..Len(s) : Append(s, e)[i] = s[i]
         /\ Append(s, e)[Len(s) + 1] = e
  BY AppendProperties

\* What was a prefix stays one when the sequence grows.
LEMMA StaysPrefix ==
  ASSUME NEW S, NEW s \in Seq(S), NEW t \in Seq(S), NEW e \in S, IsPrefix(s, t)
  PROVE  IsPrefix(s, Append(t, e))
<1> DEFINE longer == Append(t, e)
<1>1. Len(s) \in Nat /\ Len(t) \in Nat
  BY LenProperties
<1>2. Len(s) <= Len(t) /\ \A i \in 1..Len(s) : s[i] = t[i]
  BY PrefixIs
<1>3. /\ longer \in Seq(S) /\ Len(longer) = Len(t) + 1
      /\ \A i \in 1..Len(t) : longer[i] = t[i]
  BY Appended
<1> HIDE DEF longer
<1>4. Len(s) <= Len(longer) /\ \A i \in 1..Len(s) : s[i] = longer[i]
  BY <1>1, <1>2, <1>3
<1>5. IsPrefix(s, longer)
  BY <1>3, <1>4, PrefixIs
<1> QED
  BY <1>5 DEF longer

LEMMA OwnPrefix ==
  ASSUME NEW S, NEW s \in Seq(S)
  PROVE  IsPrefix(s, s) /\ IsPrefix(<<>>, s)
<1>1. Len(s) \in Nat /\ Len(<<>>) = 0
  BY LenProperties, EmptySeq
<1>2. SubSeq(s, 1, 0) = <<>> /\ SubSeq(<<>>, 1, 0) = <<>>
  BY SubSeqEmpty
<1> QED
  BY <1>1, <1>2 DEF IsPrefix

LEMMA EntryTyped ==
  ASSUME BranchTypeOK
  PROVE  Unreadable \in Entries /\ \A j \in Jobs : Entry(j) \in Entries /\ Entry(j) # Unreadable
  BY HistoryAssumption DEF BranchTypeOK, Entries, Entry, Unreadable

\* A push the server takes adds exactly the job's entry to a branch that can be
\* read: what the job fetched is all of it.
LEMMA FastForwardIsOne ==
  ASSUME BranchInv, NEW j \in Jobs, pc[j] = "push", FastForward(j)
  PROVE  /\ Readable(remote)
         /\ local[j] = Append(remote, Entry(j))
<1> DEFINE old == tracking[j]
           mine == local[j]
<1>1. /\ old \in Seq(Entries) /\ remote \in Seq(Entries) /\ mine \in Seq(Entries)
      /\ Entry(j) \in Entries
  BY EntryTyped DEF BranchInv, BranchTypeOK
<1>2. Readable(old) /\ mine = Append(old, Entry(j))
  BY DEF BranchInv, OneOnTop
<1>3. Len(old) <= Len(remote) /\ \A i \in 1..Len(old) : old[i] = remote[i]
  BY <1>1, PrefixIs DEF BranchInv, TrackingIsBehind
<1>4. Len(remote) <= Len(mine) /\ \A i \in 1..Len(remote) : remote[i] = mine[i]
  BY <1>1, PrefixIs DEF FastForward
<1>5. Len(mine) = Len(old) + 1 /\ mine[Len(old) + 1] = Entry(j)
  BY <1>1, <1>2, Appended
<1>6. Len(old) \in Nat /\ Len(remote) \in Nat
  BY <1>1, LenProperties
<1>7. Len(remote) # Len(old) + 1
  <2> SUFFICES ASSUME Len(remote) = Len(old) + 1 PROVE FALSE
    OBVIOUS
  <2>1. Len(remote) \in 1..Len(remote) /\ remote[Len(remote)] = Entry(j)
    BY <1>4, <1>5, <1>6
  <2>2. Before(Entry(j), j)
    BY <2>1 DEF BranchInv, EntriesAreEarlier, Entry
  <2> QED
    BY <2>2 DEF Before, Entry, InProgress, BranchInv, BranchTypeOK
<1>8. Len(remote) = Len(old)
  BY <1>3, <1>4, <1>5, <1>6, <1>7
<1>9. remote = old
  BY <1>1, <1>3, <1>8, SeqEqual
<1> QED
  BY <1>2, <1>9

\* A step of one job that leaves the branch alone or adds the job's entry.
LEMMA JobStepKeeps ==
  ASSUME BranchInv, BranchTypeOK', NEW j \in Jobs,
         \A k \in Jobs \ {j} : /\ pc'[k] = pc[k] /\ run'[k] = run[k] /\ attempt'[k] = attempt[k]
                               /\ tracking'[k] = tracking[k] /\ local'[k] = local[k],
         remote' = remote \/ remote' = Append(remote, Entry(j)),
         tracking'[j] \in {tracking[j], remote, <<>>},
         pc'[j] = "push" => Readable(tracking'[j]) /\ local'[j] = Append(tracking'[j], Entry(j)'),
         \A i \in 1..Len(remote') : remote'[i].job = j => Before(remote[i], j)',
         pc'[j] = "done" => Holds(remote, j)'
  PROVE  BranchInv'
<1>1. /\ remote \in Seq(Entries) /\ remote' \in Seq(Entries) /\ Entry(j) \in Entries
      /\ Len(remote) \in Nat
  BY EntryTyped, LenProperties DEF BranchInv, BranchTypeOK
<1>2. \/ remote' = remote
      \/ /\ Len(remote') = Len(remote) + 1 /\ remote'[Len(remote) + 1].job = j
         /\ \A i \in 1..Len(remote) : remote'[i] = remote[i]
  BY <1>1, Appended DEF Entry
<1>3. ASSUME NEW s \in Seq(Entries), IsPrefix(s, remote) PROVE IsPrefix(s, remote')
  BY <1>1, <1>3, StaysPrefix
<1>4. TrackingIsBehind'
  <2> SUFFICES ASSUME NEW k \in Jobs PROVE IsPrefix(tracking'[k], remote')
    BY DEF TrackingIsBehind
  <2>1. IsPrefix(tracking[k], remote) /\ tracking[k] \in Seq(Entries)
    BY DEF BranchInv, BranchTypeOK, TrackingIsBehind
  <2>2. IsPrefix(remote, remote) /\ IsPrefix(<<>>, remote) /\ <<>> \in Seq(Entries)
    BY <1>1, OwnPrefix, EmptySeq
  <2>3. tracking'[k] \in {tracking[k], remote, <<>>}
    OBVIOUS
  <2> QED
    BY <1>1, <1>3, <2>1, <2>2, <2>3
<1>5. OneOnTop'
  <2> SUFFICES ASSUME NEW k \in Jobs, pc'[k] = "push"
               PROVE  Readable(tracking'[k]) /\ local'[k] = Append(tracking'[k], Entry(k)')
    BY DEF OneOnTop, Readable, Unreadable
  <2>1. CASE k = j
    BY <2>1
  <2>2. CASE k # j
    BY <2>2 DEF BranchInv, OneOnTop, Entry
  <2> QED
    BY <2>1, <2>2
<1>6. EntriesAreEarlier'
  <2> SUFFICES ASSUME NEW k \in Jobs, NEW i \in 1..Len(remote'), remote'[i].job = k
               PROVE  Before(remote[i], k)'
    BY DEF EntriesAreEarlier
  <2>1. CASE k = j
    BY <2>1
  <2>2. CASE k # j
    <3>1. i \in 1..Len(remote) /\ remote'[i] = remote[i]
      BY <1>1, <1>2, <2>2
    <3>2. Before(remote[i], k)
      BY <3>1 DEF BranchInv, EntriesAreEarlier
    <3> QED
      BY <2>2, <3>1, <3>2 DEF Before, InProgress
  <2> QED
    BY <2>1, <2>2
<1>7. DoneIsHeld'
  <2> SUFFICES ASSUME NEW k \in Jobs, pc'[k] = "done" PROVE Holds(remote, k)'
    BY DEF DoneIsHeld
  <2>1. CASE k = j
    BY <2>1
  <2>2. CASE k # j
    <3>1. PICK i \in 1..Len(remote) : remote[i].job = k
      BY <2>2 DEF BranchInv, DoneIsHeld, Holds
    <3>2. i \in 1..Len(remote') /\ remote'[i] = remote[i]
      BY <1>1, <1>2
    <3> QED
      BY <3>1, <3>2 DEF Holds
  <2> QED
    BY <2>1, <2>2
<1> QED
  BY <1>4, <1>5, <1>6, <1>7 DEF BranchInv

-----------------------------------------------------------------------------
LEMMA InitHolds == Init => BranchInv
<1> SUFFICES ASSUME Init PROVE BranchInv
  OBVIOUS
<1>1. <<>> \in Seq(Entries) /\ Len(<<>>) = 0
  BY EmptySeq
<1>2. BranchTypeOK
  BY <1>1 DEF Init, BranchTypeOK, Labels
<1>3. TrackingIsBehind
  BY <1>1, OwnPrefix DEF Init, TrackingIsBehind
<1> QED
  BY <1>1, <1>2, <1>3 DEF Init, BranchInv, OneOnTop, EntriesAreEarlier, DoneIsHeld

\* A job goes on without touching the branch.
LEMMA QuietStepKeeps ==
  ASSUME BranchInv, NEW j \in Jobs,
         Checkout(j) \/ FetchOk(j) \/ FetchFails(j) \/ AppendRecord(j) \/ Rerun(j)
  PROVE  BranchInv' /\ UNCHANGED remote
<1> USE DEF Goto
<1>1. BranchTypeOK
  BY DEF BranchInv
<1>2. \A i \in 1..Len(remote) : remote[i].job = j => Before(remote[i], j)
  BY DEF BranchInv, EntriesAreEarlier
<1>3. \A i \in 1..Len(remote) : remote[i].job = j => remote[i] \in [job : Jobs, run : Nat, attempt : Nat]
  BY <1>1, HistoryAssumption, ElementOfSeq DEF BranchTypeOK, Entries, Unreadable
<1>4. CASE Checkout(j)
  <2>1. BranchTypeOK' /\ UNCHANGED remote
    BY <1>1, <1>4, EmptySeq DEF Checkout, BranchTypeOK, Labels
  <2>2. run'[j] = run[j] + 1 /\ tracking'[j] = remote /\ pc'[j] = "fetch"
    BY <1>1, <1>4 DEF Checkout, BranchTypeOK
  <2>3. ASSUME NEW i \in 1..Len(remote'), remote'[i].job = j PROVE Before(remote[i], j)'
    <3>1. remote'[i] = remote[i] /\ run[j] \in Nat /\ remote[i].run \in Nat
      BY <1>1, <1>3, <2>1, <2>3 DEF BranchTypeOK
    <3>2. remote[i].run <= run[j]
      BY <1>2, <2>1, <2>3 DEF Before
    <3>3. remote'[i].run <= run'[j] /\ remote'[i].run # run'[j]
      BY <2>2, <3>1, <3>2
    <3> QED
      BY <3>3 DEF Before
  <2> QED
    BY <1>1, <1>4, <2>1, <2>2, <2>3, JobStepKeeps DEF Checkout, BranchTypeOK
<1>5. CASE FetchOk(j)
  <2>1. BranchTypeOK' /\ UNCHANGED <<remote, run, attempt>>
    BY <1>1, <1>5 DEF FetchOk, BranchTypeOK, Labels
  <2>2. tracking'[j] = remote /\ pc'[j] = "append" /\ InProgress(j)
    BY <1>1, <1>5 DEF FetchOk, BranchTypeOK, InProgress
  <2>3. \A i \in 1..Len(remote') : remote'[i].job = j => Before(remote[i], j)'
    BY <1>2, <2>1, <2>2 DEF Before
  <2> QED
    BY <1>1, <1>5, <2>1, <2>2, <2>3, JobStepKeeps DEF FetchOk, BranchTypeOK
<1>6. CASE FetchFails(j)
  <2>1. BranchTypeOK' /\ UNCHANGED <<remote, run, attempt, tracking>>
    BY <1>1, <1>6 DEF FetchFails, BranchTypeOK, Labels
  <2>2. pc'[j] = "append" /\ InProgress(j)
    BY <1>1, <1>6 DEF FetchFails, BranchTypeOK, InProgress
  <2>3. \A i \in 1..Len(remote') : remote'[i].job = j => Before(remote[i], j)'
    BY <1>2, <2>1, <2>2 DEF Before
  <2> QED
    BY <1>1, <1>6, <2>1, <2>2, <2>3, JobStepKeeps DEF FetchFails, BranchTypeOK
<1>7. CASE AppendRecord(j)
  <2>1. Append(tracking[j], Entry(j)) \in Seq(Entries)
    BY <1>1, EntryTyped, Appended DEF BranchTypeOK
  <2>2. BranchTypeOK' /\ UNCHANGED <<remote, run, attempt, tracking>>
    BY <1>1, <1>7, <2>1 DEF AppendRecord, BranchTypeOK, Labels
  <2>3. /\ pc'[j] = "push" /\ InProgress(j) /\ Readable(tracking[j])
        /\ local'[j] = Append(tracking[j], Entry(j)) /\ Entry(j)' = Entry(j)
    BY <1>1, <1>7 DEF AppendRecord, BranchTypeOK, InProgress, Entry
  <2>4. \A i \in 1..Len(remote') : remote'[i].job = j => Before(remote[i], j)'
    BY <1>2, <2>2, <2>3 DEF Before
  <2> QED
    BY <1>1, <1>7, <2>2, <2>3, <2>4, JobStepKeeps DEF AppendRecord, BranchTypeOK
<1>8. CASE Rerun(j)
  <2>1. BranchTypeOK' /\ UNCHANGED <<remote, run, attempt, tracking>>
    BY <1>1, <1>8 DEF Rerun, BranchTypeOK, Labels
  <2>2. pc'[j] = "queued"
    BY <1>1, <1>8 DEF Rerun, BranchTypeOK
  <2>3. \A i \in 1..Len(remote') : remote'[i].job = j => Before(remote[i], j)'
    BY <1>2, <2>1, <2>2 DEF Before, InProgress
  <2> QED
    BY <1>1, <1>8, <2>1, <2>2, <2>3, JobStepKeeps DEF Rerun, BranchTypeOK
<1> QED
  BY <1>4, <1>5, <1>6, <1>7, <1>8 DEF Checkout, FetchOk, FetchFails, AppendRecord, Rerun

\* A job leaves, its clone with it.
LEMMA LeaveKeeps ==
  ASSUME BranchInv, NEW j \in Jobs, NEW outcome \in {"done", "failed"}, Leave(j, outcome),
         UNCHANGED <<world, run, attempt>>,
         remote' = remote \/ remote' = Append(remote, Entry(j)),
         outcome = "done" => Holds(remote, j)'
  PROVE  BranchInv'
<1>1. BranchTypeOK /\ Entry(j) \in Entries
  BY EntryTyped DEF BranchInv
<1>2. remote' \in Seq(Entries)
  <2>1. Append(remote, Entry(j)) \in Seq(Entries)
    BY <1>1, Appended DEF BranchTypeOK
  <2> QED
    BY <1>1, <2>1 DEF BranchTypeOK
<1>3. BranchTypeOK'
  BY <1>1, <1>2, EmptySeq DEF BranchTypeOK, Leave, Goto, Labels
<1>4. pc'[j] = outcome /\ tracking'[j] = <<>>
  BY <1>1 DEF BranchTypeOK, Leave, Goto
<1>5. ASSUME NEW i \in 1..Len(remote'), remote'[i].job = j PROVE Before(remote[i], j)'
  <2>1. remote'[i].run <= run[j]
    <3>1. CASE i \in 1..Len(remote) /\ remote'[i] = remote[i]
      BY <1>5, <3>1 DEF BranchInv, EntriesAreEarlier, Before
    <3>2. CASE remote'[i] = Entry(j)
      BY <1>1, <3>2 DEF Entry, BranchTypeOK
    <3> QED
      BY <1>1, <3>1, <3>2, Appended, LenProperties DEF BranchTypeOK
  <2> QED
    BY <1>4, <2>1 DEF Before, InProgress
<1> QED
  BY <1>1, <1>3, <1>4, <1>5, JobStepKeeps DEF Leave, Goto, BranchTypeOK

\* After a push that failed, or whose answer was lost, the loop turns or gives up.
LEMMA NextTurnKeeps ==
  ASSUME BranchInv, NEW j \in Jobs, pc[j] = "push", NextTurn(j), UNCHANGED <<world, run>>,
         remote' = remote \/ remote' = Append(remote, Entry(j))
  PROVE  BranchInv'
<1>1. BranchTypeOK /\ Entry(j) \in Entries
  BY EntryTyped DEF BranchInv
<1>2. remote' \in Seq(Entries)
  <2>1. Append(remote, Entry(j)) \in Seq(Entries)
    BY <1>1, Appended DEF BranchTypeOK
  <2> QED
    BY <1>1, <2>1 DEF BranchTypeOK
<1>3. CASE attempt[j] < MaxAttempts
  <2>1. /\ pc' = [pc EXCEPT ![j] = "fetch"] /\ attempt' = [attempt EXCEPT ![j] = @ + 1]
        /\ UNCHANGED <<tracking, local>>
    BY <1>3 DEF NextTurn, Goto
  <2>2. BranchTypeOK'
    BY <1>1, <1>2, <2>1 DEF BranchTypeOK, Labels
  <2>3. attempt'[j] = attempt[j] + 1 /\ attempt[j] \in Nat /\ run[j] \in Nat
    BY <1>1, <2>1 DEF BranchTypeOK
  <2>4. ASSUME NEW i \in 1..Len(remote'), remote'[i].job = j PROVE Before(remote[i], j)'
    <3>1. CASE i \in 1..Len(remote) /\ remote'[i] = remote[i]
      <4>1. Before(remote[i], j) /\ InProgress(j)
        BY <2>4, <3>1 DEF BranchInv, EntriesAreEarlier, InProgress
      <4>2. remote[i] \in [job : Jobs, run : Nat, attempt : Nat]
        BY <1>1, <2>4, <3>1, HistoryAssumption, ElementOfSeq DEF BranchTypeOK, Entries, Unreadable
      <4> QED
        BY <2>3, <3>1, <4>1, <4>2 DEF Before
    <3>2. CASE remote'[i] = Entry(j)
      BY <2>3, <3>2 DEF Entry, Before
    <3> QED
      BY <1>1, <3>1, <3>2, Appended, LenProperties DEF BranchTypeOK
  <2> QED
    BY <1>1, <2>1, <2>2, <2>4, JobStepKeeps DEF BranchTypeOK
<1>4. CASE ~(attempt[j] < MaxAttempts)
  BY <1>4, LeaveKeeps DEF NextTurn
<1> QED
  BY <1>3, <1>4

\* What one job does to the branch and to the invariant: nothing or one entry of
\* its own on a branch that can be read.
Delivers(j) == Readable(remote) /\ remote' = Append(remote, Entry(j))

LEMMA JobKeeps ==
  ASSUME BranchInv, NEW j \in Jobs, Step(j) \/ RunnerLost(j) \/ Rerun(j)
  PROVE  BranchInv' /\ (UNCHANGED remote \/ Delivers(j))
<1>1. CASE Checkout(j) \/ FetchOk(j) \/ FetchFails(j) \/ AppendRecord(j) \/ Rerun(j)
  BY <1>1, QuietStepKeeps
<1>2. CASE AppendRefused(j)
  BY <1>2, LeaveKeeps DEF AppendRefused
<1>3. CASE PushAccepted(j)
  <2>1. Delivers(j)
    BY <1>3, FastForwardIsOne DEF PushAccepted, Delivers
  <2>2. remote \in Seq(Entries) /\ Entry(j) \in Entries /\ Len(remote) \in Nat
    BY EntryTyped, LenProperties DEF BranchInv, BranchTypeOK
  <2>3. Len(remote') = Len(remote) + 1 /\ remote'[Len(remote) + 1] = Entry(j)
    BY <2>1, <2>2, Appended DEF Delivers
  <2>4. Holds(remote, j)'
    BY <2>2, <2>3 DEF Holds, Entry
  <2> QED
    BY <1>3, <2>1, <2>4, LeaveKeeps DEF PushAccepted, Delivers
<1>4. CASE PushRefused(j)
  BY <1>4, NextTurnKeeps DEF PushRefused
<1>5. CASE PushAnswerLost(j)
  <2>1. Delivers(j)
    BY <1>5, FastForwardIsOne DEF PushAnswerLost, Delivers
  <2> QED
    BY <1>5, <2>1, NextTurnKeeps DEF PushAnswerLost, Delivers
<1>6. CASE RunnerLost(j)
  BY <1>6, LeaveKeeps DEF RunnerLost
<1> QED
  BY <1>1, <1>2, <1>3, <1>4, <1>5, <1>6 DEF Step

\* A bad line closes the branch and disturbs no job that already fetched.
LEMMA BadLineKeeps == BranchInv /\ PushBadLine => BranchInv'
<1> SUFFICES ASSUME BranchInv, PushBadLine PROVE BranchInv'
  OBVIOUS
<1>1. /\ remote \in Seq(Entries) /\ Unreadable \in Entries /\ Len(remote) \in Nat
      /\ \A j \in Jobs : tracking[j] \in Seq(Entries) /\ IsPrefix(tracking[j], remote)
  BY EntryTyped, LenProperties DEF BranchInv, BranchTypeOK, TrackingIsBehind
<1>2. remote' = Append(remote, Unreadable) /\ UNCHANGED <<world, pc, run, attempt, tracking, local>>
  BY DEF PushBadLine
<1>3. /\ remote' \in Seq(Entries) /\ Len(remote') = Len(remote) + 1
      /\ \A i \in 1..Len(remote) : remote'[i] = remote[i]
      /\ remote'[Len(remote) + 1] = Unreadable
  BY <1>1, <1>2, Appended
<1>4. BranchTypeOK'
  BY <1>2, <1>3 DEF BranchInv, BranchTypeOK
<1>5. TrackingIsBehind'
  BY <1>1, <1>2, StaysPrefix DEF TrackingIsBehind
<1>6. OneOnTop'
  BY <1>2 DEF BranchInv, OneOnTop, Readable, Unreadable, Entry
<1>7. EntriesAreEarlier'
  <2> SUFFICES ASSUME NEW j \in Jobs, NEW i \in 1..Len(remote'), remote'[i].job = j
               PROVE  Before(remote[i], j)'
    BY DEF EntriesAreEarlier
  <2>1. i \in 1..Len(remote) /\ remote'[i] = remote[i]
    BY <1>1, <1>3, HistoryAssumption DEF Unreadable
  <2>2. Before(remote[i], j)
    BY <2>1 DEF BranchInv, EntriesAreEarlier
  <2> QED
    BY <1>2, <2>1, <2>2 DEF Before, InProgress
<1>8. DoneIsHeld'
  <2> SUFFICES ASSUME NEW j \in Jobs, pc'[j] = "done" PROVE Holds(remote, j)'
    BY DEF DoneIsHeld
  <2>1. PICK i \in 1..Len(remote) : remote[i].job = j
    BY <1>2 DEF BranchInv, DoneIsHeld, Holds
  <2>2. i \in 1..Len(remote') /\ remote'[i] = remote[i]
    BY <1>1, <1>3
  <2> QED
    BY <2>1, <2>2 DEF Holds
<1> QED
  BY <1>4, <1>5, <1>6, <1>7, <1>8 DEF BranchInv

\* BranchInv is inductive.
THEOREM BranchInvariance == Spec => []BranchInv
<1>1. BranchInv /\ [Next]_vars => BranchInv'
  <2> SUFFICES ASSUME BranchInv, [Next]_vars PROVE BranchInv'
    OBVIOUS
  <2>1. CASE UNCHANGED vars
    BY <2>1 DEF vars, BranchInv, BranchTypeOK, TrackingIsBehind, OneOnTop, EntriesAreEarlier, DoneIsHeld,
               Before, InProgress, Holds, Entry, Readable, Unreadable
  <2>2. CASE Next
    BY <2>2, JobKeeps, BadLineKeeps DEF Next
  <2> QED
    BY <2>1, <2>2
<1> QED
  BY <1>1, InitHolds, PTL DEF Spec

\* A job that exits 0 has its record on the branch, whoever pushed meanwhile.
THEOREM SuccessIsHeld == Spec => []DoneIsHeld
  BY BranchInvariance, PTL DEF BranchInv

-----------------------------------------------------------------------------
\* The records of a chain of entries.
Records(chain) == [i \in 1..Len(chain) |-> chain[i].job]
Acked == {j \in Jobs : pc[j] = "done"}

LEMMA RecordsGrow ==
  ASSUME NEW chain \in Seq(Entries), NEW e \in Entries
  PROVE  Records(Append(chain, e)) = Append(Records(chain), e.job)
<1> DEFINE longer == Append(chain, e)
           names == Jobs \cup {Unreadable.job}
           more == Append(Records(chain), e.job)
<1>1. \A x \in Entries : x.job \in names
  BY DEF Entries
<1>2. /\ longer \in Seq(Entries) /\ Len(longer) = Len(chain) + 1 /\ Len(chain) \in Nat
      /\ \A i \in 1..Len(chain) : longer[i] = chain[i]
      /\ longer[Len(chain) + 1] = e
  BY Appended, LenProperties
<1>3. ASSUME NEW c \in Seq(Entries)
      PROVE  /\ Records(c) \in Seq(names) /\ Len(Records(c)) = Len(c)
             /\ \A i \in 1..Len(c) : Records(c)[i] = c[i].job
  <2>1. Len(c) \in Nat /\ \A i \in 1..Len(c) : c[i].job \in names
    BY <1>1, LenProperties, ElementOfSeq
  <2>2. Records(c) \in [1..Len(c) -> names]
    BY <2>1 DEF Records
  <2>3. Records(c) \in Seq(names) /\ Len(Records(c)) = Len(c)
    BY <2>1, <2>2
  <2> QED
    BY <2>3 DEF Records
<1>4. /\ more \in Seq(names) /\ Len(more) = Len(chain) + 1
      /\ \A i \in 1..Len(chain) : more[i] = chain[i].job
      /\ more[Len(chain) + 1] = e.job
  BY <1>1, <1>2, <1>3, Appended
<1>5. /\ Records(longer) \in Seq(names) /\ Len(Records(longer)) = Len(chain) + 1
      /\ \A i \in 1..Len(chain) + 1 : Records(longer)[i] = longer[i].job
  BY <1>2, <1>3
<1> HIDE DEF longer, more
<1>6. \A i \in 1..Len(chain) + 1 : Records(longer)[i] = more[i]
  BY <1>2, <1>4, <1>5
<1>7. Records(longer) = more
  BY <1>4, <1>5, <1>6, SeqEqual
<1> QED
  BY <1>7 DEF longer, more

\* Success is reported by the step whose push the server took, and never taken
\* back.
LEMMA AckedBy ==
  ASSUME BranchTypeOK, NEW j \in Jobs, Step(j) \/ RunnerLost(j) \/ Rerun(j)
  PROVE  Acked' \in {Acked, Acked \cup {j}} /\ (Acked' = Acked \/ PushAccepted(j))
<1>1. \E label \in Labels : /\ pc[j] # "done" /\ pc' = [pc EXCEPT ![j] = label]
                            /\ label = "done" => PushAccepted(j)
  BY DEF Step, Checkout, MayStart, FetchOk, FetchFails, AppendRecord, AppendRefused, PushAccepted,
         PushRefused, PushAnswerLost, NextTurn, RunnerLost, Rerun, Leave, Goto, Labels
<1>2. PICK label \in Labels : /\ pc[j] # "done" /\ pc' = [pc EXCEPT ![j] = label]
                              /\ label = "done" => PushAccepted(j)
  BY <1>1
<1>3. CASE label = "done"
  <2>1. Acked' = Acked \cup {j}
    BY <1>2, <1>3 DEF Acked, BranchTypeOK
  <2> QED
    BY <1>2, <1>3, <2>1
<1>4. CASE label # "done"
  <2>1. Acked' = Acked
    BY <1>2, <1>4 DEF Acked, BranchTypeOK
  <2> QED
    BY <2>1
<1> QED
  BY <1>3, <1>4

\* The log is closed exactly by a line nobody can read.
LEMMA ClosedIsUnreadable ==
  ASSUME BranchTypeOK
  PROVE  Log!Closed <=> ~Readable(remote)
<1>1. Len(remote) \in Nat /\ \A i \in 1..Len(remote) : remote[i] \in Entries
  BY LenProperties, ElementOfSeq DEF BranchTypeOK
<1>2. Len(Records(remote)) = Len(remote) /\ \A i \in 1..Len(remote) : Records(remote)[i] = remote[i].job
  BY <1>1 DEF Records
<1>3. \A i \in 1..Len(remote) : remote[i].job = Unreadable.job <=> remote[i] = Unreadable
  BY <1>1, HistoryAssumption DEF Entries, Unreadable
<1>4. Log!Closed <=> \E i \in 1..Len(Records(remote)) : Records(remote)[i] = Unreadable.job
  BY DEF Log!Closed, Records
<1> QED
  BY <1>2, <1>3, <1>4 DEF Readable

\* Every step of the branch is a step of the log, or none.
LEMMA StepIsLogged == BranchInv /\ [Next]_vars => [Log!Next]_(Log!vars)
<1> SUFFICES ASSUME BranchInv, [Next]_vars PROVE [Log!Next]_(Log!vars)
  OBVIOUS
<1> USE DEF Records, Acked
<1>1. BranchTypeOK /\ remote \in Seq(Entries) /\ Unreadable \in Entries
      /\ \A j \in Jobs : Entry(j) \in Entries /\ Entry(j).job = j
  BY EntryTyped DEF BranchInv, BranchTypeOK, Entry
<1>2. ASSUME UNCHANGED <<remote, pc>> PROVE UNCHANGED Log!vars
  BY <1>2 DEF Log!vars
<1>3. ASSUME NEW j \in Jobs, Step(j) \/ RunnerLost(j) \/ Rerun(j)
      PROVE  [Log!Next]_(Log!vars)
  <2>1. UNCHANGED remote \/ Delivers(j)
    BY <1>3, JobKeeps
  <2>2. Acked' \in {Acked, Acked \cup {j}} /\ (Acked' = Acked \/ PushAccepted(j))
    BY <1>1, <1>3, AckedBy
  <2>3. CASE Delivers(j)
    <3>1. Records(remote)' = Append(Records(remote), j)
      BY <1>1, <2>3, RecordsGrow DEF Delivers
    <3>2. ~Log!Closed
      BY <1>1, <2>3, ClosedIsUnreadable DEF Delivers
    <3>3. Log!Deliver(j)
      BY <2>2, <3>1, <3>2 DEF Log!Deliver
    <3> QED
      BY <3>3 DEF Log!Next
  <2>4. CASE ~Delivers(j)
    <3>1. ~PushAccepted(j)
      BY <2>4, FastForwardIsOne DEF PushAccepted, Delivers
    <3> QED
      BY <2>1, <2>2, <2>4, <3>1 DEF Log!vars
  <2> QED
    BY <2>3, <2>4
<1>4. ASSUME PushBadLine PROVE Log!Close
  <2>1. Records(remote)' = Append(Records(remote), Unreadable.job)
    BY <1>1, <1>4, RecordsGrow DEF PushBadLine
  <2>2. ~Log!Closed
    BY <1>1, <1>4, ClosedIsUnreadable DEF PushBadLine, Readable
  <2>3. Acked' = Acked
    BY <1>4 DEF PushBadLine
  <2> QED
    BY <2>1, <2>2, <2>3 DEF Log!Close
<1> QED
  BY <1>2, <1>3, <1>4 DEF Next, vars, Log!Next

\* The history branch is a RecordLog (install/history-ci.ts, history/git.ts):
\* records are added at the end, one for each push the server takes and never
\* rewritten, and a job that exits 0 added its own, whatever races, fetches a
\* stale ref, loses an answer or is run again.
THEOREM KeepsTheLog == Spec => LogKept
<1>1. Init => Log!Init
  <2> SUFFICES ASSUME Init PROVE Log!Init
    OBVIOUS
  <2>1. Len(<<>>) = 0 /\ remote = <<>>
    BY EmptySeq DEF Init
  <2>2. [i \in 1..Len(remote) |-> remote[i].job] = <<>>
    BY <2>1
  <2>3. {j \in Jobs : pc[j] = "done"} = {}
    BY DEF Init
  <2> QED
    BY <2>2, <2>3 DEF Log!Init
<1> QED
  BY <1>1, StepIsLogged, BranchInvariance, PTL DEF Spec, LogKept, Log!Spec
=============================================================================
