--------------------------- MODULE StopHook_proofs ---------------------------
(***************************************************************************)
(* Proofs about the Stop hook, for every set of sessions, screens and      *)
(* policies.  The inductive invariant follows a hook step by step: what it *)
(* read so far is still there when nobody edits beside it, and what it is  *)
(* about to write into a pin file is what its session recorded first.      *)
(***************************************************************************)
EXTENDS StopHook, TLAPS

\* A hook that replaces a pin file writes what the session recorded first.
ReplacesWithBase ==
  \A s \in Sessions :
    (hook[s].pc = "write" /\ ~Creates(s)) => hook[s].next = base[s]

\* What a proof says of the code was read, and it was read of this.
Judged(r) ==
  /\ r.policy = r.tree.policy
  /\ r.proof = [code |-> r.tree.code, policy |-> r.policy,
                history |-> r.history]

\* The receipt a hook minted or matched is proof of what it binds.
MintedIsProof(h) == h.minted # NoReceipt => Judged(h.minted)

\* What a receipt binds is what is there.
BindsNow(r) ==
  /\ r # NoReceipt
  /\ r.tree = tree
  /\ r.policy = head.policy
  /\ r.history = history

\* What a hook read is what is there.
ReadIsCurrent(h) ==
  /\ h.pc \in {"scan", "floor", "gate"}
       => h.diverged = (tree.policy # head.policy)
  /\ h.pc \in {"floor", "gate"} => h.seen = tree.code
  /\ h.pc = "gate"
       => /\ h.history = history
          /\ h.floor = IF h.diverged THEN "untrusted" ELSE tree.policy
  /\ (h.pc = "decide" /\ h.result = "verified") => BindsNow(h.minted)
  /\ h.answer = "verified" => BindsNow(h.minted)

\* A hook that has nothing to disclose is past pins that hold what HEAD commits.
PinsCompared(h, recorded) ==
  /\ h.pc = "write" => h.next = head.policy
  /\ (/\ h.pc \in {"receipt", "run", "scan", "floor", "gate", "decide"}
      /\ ~h.noted) => recorded = head.policy
  /\ (h.answer = "verified" /\ ~h.noted) => recorded = head.policy

\* What holds of one hook in a quiet repository.
QuietHook(s) ==
  /\ MintedIsProof(hook[s])
  /\ ReadIsCurrent(hook[s])
  /\ PinsCompared(hook[s], base[s])

QuietInv ==
  quiet => /\ receipt # NoReceipt => Judged(receipt)
           /\ \A s \in Sessions : QuietHook(s)

\* A hook that is at rest or under way has given no answer yet, and one that is
\* about to answer has a result to answer.
AnswersLast ==
  \A s \in Sessions :
    /\ hook[s].answer # "none" => hook[s].pc = "answered"
    /\ hook[s].pc = "decide" => hook[s].result # "none"

IInv ==
  /\ TypeOK
  /\ AnswersLast
  /\ PinsAreTheBaseline
  /\ ReplacesWithBase
  /\ QuietInv

-----------------------------------------------------------------------------
\* A hook at rest, and one that has answered.
LEMMA RestHook ==
  ASSUME NEW active \in BOOLEAN PROVE Rest(active) \in Hook
BY StopHookAssumption DEF Rest, Hook, Steps, Answers, PinFile

LEMMA AnsweredHook ==
  ASSUME NEW h \in Hook, NEW answer \in Answers
  PROVE  /\ AnswerOf(h, answer) \in Hook
         /\ AnswerOf(h, answer).pc = "answered"
         /\ AnswerOf(h, answer).answer = answer
         /\ AnswerOf(h, answer).noted = h.noted
         /\ AnswerOf(h, answer).minted = h.minted
<1>1. h.active \in BOOLEAN /\ h.noted \in BOOLEAN
      /\ h.minted \in Receipt \cup {NoReceipt}
  BY DEF Hook
<1>2. Rest(h.active) \in Hook
  BY <1>1, RestHook
<1> DEFINE new == [Rest(h.active) EXCEPT !.pc = "answered", !.answer = answer,
                     !.noted = h.noted, !.minted = h.minted]
<1>3. new \in Hook
  BY <1>1, <1>2 DEF Hook, Steps
<1> QED
  BY <1>2, <1>3 DEF AnswerOf, Hook

\* Every file and every hook keeps its type, whatever steps next.
LEMMA TypeStep == TypeOK /\ AnswersLast /\ [Next]_vars => TypeOK'
<1> SUFFICES ASSUME TypeOK, AnswersLast, [Next]_vars PROVE TypeOK'
  OBVIOUS
<1> USE DEF repo, local
<1>1. CASE UNCHANGED vars
  BY <1>1 DEF vars, TypeOK
<1>2. CASE EditCode
  BY <1>2 DEF EditCode, TypeOK, Snapshot
<1>3. CASE EditPolicy
  BY <1>3 DEF EditPolicy, TypeOK, Snapshot
<1>4. CASE Commit
  BY <1>4 DEF Commit, TypeOK
<1>5. CASE HistoryMoves
  BY <1>5, StopHookAssumption DEF HistoryMoves, HistoryBound, TypeOK
<1>6. CASE SetBypass
  BY <1>6 DEF SetBypass, TypeOK
<1>7. CASE LosePins
  BY <1>7 DEF LosePins, TypeOK, PinFile
<1>8. ASSUME NEW s \in Sessions, HookSteps(s)
      PROVE  TypeOK'
  <2>1. hook[s] \in Hook /\ pins[s] \in PinFile
    BY DEF TypeOK
  <2>2. CASE Stop(s)
    BY <2>1, <2>2 DEF Stop, Goes, TypeOK, Hook, Steps
  <2>4. CASE CheckGuard(s)
    BY <2>1, <2>4 DEF CheckGuard, TypeOK, Hook, Steps
  <2>5. CASE PinsNotUsed(s)
    BY <2>1, <2>5 DEF PinsNotUsed, TypeOK, Hook, Steps
  <2>3. CASE TakeBypass(s)
    BY <2>1, <2>3, AnsweredHook DEF TakeBypass, Gives, TypeOK, Answers
  <2>6. CASE PinsAgree(s)
    BY <2>1, <2>6 DEF PinsAgree, TypeOK, Hook, Steps, Snapshot, PinFile
  <2>7. CASE PinsDrift(s)
    BY <2>1, <2>7, AnsweredHook DEF PinsDrift, Gives, TypeOK, Answers
  <2>8. CASE WritePins(s)
    <3>1. hook[s].next \in PinFile
      BY <2>1 DEF Hook
    <3>2. pins' \in [Sessions -> PinFile] /\ base' \in [Sessions -> PinFile]
      BY <2>8, <3>1 DEF WritePins, TypeOK
    <3> PICK written \in BOOLEAN :
          hook' = [hook EXCEPT ![s].pc = "receipt", ![s].next = "missing",
                               ![s].noted = Creates(s) /\ ~written]
      BY <2>8 DEF WritePins
    <3> DEFINE noted == Creates(s) /\ ~written
    <3>4. noted \in BOOLEAN
      OBVIOUS
    <3> HIDE DEF noted
    <3>3. hook' \in [Sessions -> Hook]
      BY <2>1, <3>4 DEF noted, TypeOK, Hook, Steps, PinFile
    <3> QED BY <2>8, <3>2, <3>3 DEF WritePins, TypeOK
  <2>9. CASE FastPath(s)
    <3>1. receipt \in Receipt
      BY <2>9 DEF FastPath, ReceiptMatches, TypeOK
    <3>2. [hook[s] EXCEPT !.minted = receipt] \in Hook
      BY <2>1, <3>1 DEF Hook
    <3> QED
      BY <2>9, <3>2, AnsweredHook DEF FastPath, TypeOK, Answers
  <2>10. CASE NoFastPath(s)
    BY <2>1, <2>10 DEF NoFastPath, Goes, TypeOK, Hook, Steps
  <2>11. CASE RunStarts(s)
    <3> DEFINE changed == Affected(tree, head)
               diverged == tree.policy # head.policy
    <3>1. changed \in SUBSET Screens /\ diverged \in BOOLEAN
      BY DEF Affected, TypeOK, Snapshot
    <3>2. hook' = [hook EXCEPT ![s].pc = "scan", ![s].changed = changed,
                               ![s].diverged = diverged]
      BY <2>11 DEF RunStarts
    <3> HIDE DEF changed, diverged
    <3>3. hook' \in [Sessions -> Hook]
      BY <2>1, <3>1, <3>2 DEF TypeOK, Hook, Steps
    <3> QED BY <2>11, <3>3 DEF RunStarts, TypeOK
  <2>12. CASE Scan(s)
    BY <2>1, <2>12 DEF Scan, TypeOK, Hook, Steps, Snapshot
  <2>13. CASE ReadPolicy(s)
    BY <2>1, <2>13 DEF ReadPolicy, TypeOK, Hook, Steps, Snapshot
  <2>14. CASE Judge(s)
    <3> DEFINE result == Verdict(hook[s].diverged, hook[s].changed, hook[s].seen,
                                 Accepted(hook[s].floor, hook[s].history))
               minted == IF result = "verified" THEN Mint(hook[s]) ELSE NoReceipt
    <3>1. result \in {"none", "verified", "idle", "blocking"}
      BY DEF Verdict
    <3>2. Mint(hook[s]) \in Receipt
      BY <2>1 DEF Mint, TypeOK, Hook, Receipt, Proof, Snapshot
    <3>3. minted \in Receipt \cup {NoReceipt}
      BY <3>2
    <3>4. hook' = [hook EXCEPT ![s].pc = "decide", ![s].result = result,
                               ![s].minted = minted]
      BY <2>14 DEF Judge
    <3> HIDE DEF result, minted
    <3>5. hook' \in [Sessions -> Hook]
      BY <2>1, <3>1, <3>3, <3>4 DEF TypeOK, Hook, Steps
    <3> QED BY <2>14, <3>5 DEF Judge, TypeOK
  <2>15. CASE Decide(s)
    <3>1. hook[s].minted \in Receipt \cup {NoReceipt}
      BY <2>1 DEF Hook
    <3>2. Decision(hook[s].result, hook[s].active) \in Answers
      BY <2>1, <2>15 DEF Decide, Decision, Answers, Hook, AnswersLast
    <3>3. hook' \in [Sessions -> Hook]
      BY <2>1, <2>15, <3>2, AnsweredHook DEF Decide, Gives, TypeOK
    <3> QED BY <2>15, <3>1, <3>3 DEF Decide, TypeOK
  <2>16. CASE Fail(s)
    <3>1. receipt' \in Receipt \cup {NoReceipt}
      BY <2>16 DEF Fail, TypeOK
    <3>2. hook' \in [Sessions -> Hook]
      BY <2>1, <2>16, AnsweredHook DEF Fail, Gives, TypeOK, Answers
    <3> QED BY <2>16, <3>1, <3>2 DEF Fail, TypeOK
  <2>17. CASE Resume(s)
    BY <2>1, <2>17, RestHook DEF Resume, TypeOK
  <2> QED
    BY <1>8, <2>2, <2>3, <2>4, <2>5, <2>6, <2>7, <2>8, <2>9, <2>10, <2>11,
       <2>12, <2>13, <2>14, <2>15, <2>16, <2>17 DEF HookSteps
<1> QED BY <1>1, <1>2, <1>3, <1>4, <1>5, <1>6, <1>7, <1>8 DEF Next, Developer

-----------------------------------------------------------------------------
\* What the developer does leaves every hook where it is.
LEMMA DeveloperLeavesHooks == Developer => UNCHANGED hook
BY DEF Developer, EditCode, EditPolicy, Commit, HistoryMoves, SetBypass,
       LosePins, local

\* A step of one hook leaves the others where they are.
LEMMA OneHookSteps ==
  ASSUME TypeOK, NEW s \in Sessions, HookSteps(s), NEW t \in Sessions, t # s
  PROVE  hook'[t] = hook[t] /\ pins'[t] = pins[t] /\ base'[t] = base[t]
<1> USE DEF local, Goes, Gives, TypeOK
<1>1. CASE Stop(s) \/ TakeBypass(s) \/ CheckGuard(s)
  BY <1>1 DEF Stop, TakeBypass, CheckGuard
<1>2. CASE PinsNotUsed(s) \/ PinsAgree(s) \/ PinsDrift(s) \/ WritePins(s)
  BY <1>2 DEF PinsNotUsed, PinsAgree, PinsDrift, WritePins
<1>3. CASE FastPath(s) \/ NoFastPath(s)
  BY <1>3 DEF FastPath, NoFastPath
<1>4. CASE RunStarts(s) \/ Scan(s) \/ ReadPolicy(s)
  BY <1>4 DEF RunStarts, Scan, ReadPolicy
<1>5. CASE Judge(s) \/ Decide(s) \/ Fail(s) \/ Resume(s)
  BY <1>5 DEF Judge, Decide, Fail, Resume
<1> QED BY <1>1, <1>2, <1>3, <1>4, <1>5 DEF HookSteps

\* The five steps that answer.
Answering(s) ==
  TakeBypass(s) \/ PinsDrift(s) \/ FastPath(s) \/ Decide(s) \/ Fail(s)

\* An answer keeps the note and the receipt of the hook that gave it.  A
\* verified one is a stored receipt that matched, or a run's.
LEMMA AnswerGiven ==
  ASSUME TypeOK, AnswersLast, NEW s \in Sessions, Answering(s)
  PROVE  /\ hook'[s].pc = "answered"
         /\ hook'[s].noted = hook[s].noted
         /\ hook'[s].minted = IF FastPath(s) THEN receipt ELSE hook[s].minted
         /\ hook'[s].answer = "verified" =>
              FastPath(s) \/ (Decide(s) /\ hook[s].result = "verified")
<1>1. hook[s] \in Hook /\ hook \in [Sessions -> Hook]
  BY DEF TypeOK
<1>2. ASSUME NEW h \in Hook, NEW answer \in Answers,
             hook' = [hook EXCEPT ![s] = AnswerOf(h, answer)]
      PROVE  /\ hook'[s].pc = "answered" /\ hook'[s].answer = answer
             /\ hook'[s].noted = h.noted /\ hook'[s].minted = h.minted
  BY <1>1, <1>2, AnsweredHook
<1>3. CASE FastPath(s)
  <2>1. receipt \in Receipt
    BY <1>3 DEF FastPath, ReceiptMatches, TypeOK
  <2> DEFINE h == [hook[s] EXCEPT !.minted = receipt]
  <2>2. h \in Hook /\ h.minted = receipt /\ h.noted = hook[s].noted
    BY <1>1, <2>1 DEF Hook
  <2>3. hook' = [hook EXCEPT ![s] = AnswerOf(h, "verified")]
    BY <1>3 DEF FastPath
  <2> HIDE DEF h
  <2> QED
    BY <1>2, <1>3, <2>2, <2>3 DEF Answers
<1>4. CASE TakeBypass(s) \/ PinsDrift(s) \/ Fail(s)
  <2>1. ~FastPath(s)
    <3>1. CASE TakeBypass(s)
      BY <3>1 DEF TakeBypass, FastPath
    <3>2. CASE PinsDrift(s)
      BY <3>2 DEF PinsDrift, FastPath
    <3>3. CASE Fail(s) /\ FastPath(s)
      <4>1. hook' = [hook EXCEPT ![s] = AnswerOf(hook[s], "unverified")]
        BY <3>3 DEF Fail, Gives
      <4>2. hook'[s].answer = "unverified"
        BY <1>1, <1>2, <4>1 DEF Answers
      <4>3. hook'[s].answer = "verified"
        <5>1. [hook[s] EXCEPT !.minted = receipt] \in Hook
          BY <1>1, <3>3 DEF FastPath, ReceiptMatches, TypeOK, Hook
        <5> QED BY <1>2, <3>3, <5>1 DEF FastPath, Answers
      <4> QED BY <4>2, <4>3
    <3> QED BY <1>4, <3>1, <3>2, <3>3
  <2>2. PICK answer \in Answers \ {"verified"} :
          hook' = [hook EXCEPT ![s] = AnswerOf(hook[s], answer)]
    BY <1>4 DEF TakeBypass, PinsDrift, Fail, Gives, Answers
  <2> QED
    BY <1>1, <1>2, <2>1, <2>2
<1>5. CASE Decide(s)
  <2>1. Decision(hook[s].result, hook[s].active) \in Answers
    BY <1>1, <1>5 DEF Decide, Decision, Answers, Hook, AnswersLast
  <2>2. Decision(hook[s].result, hook[s].active) = "verified"
          => hook[s].result = "verified"
    BY <1>1, <1>5 DEF Decide, Decision, Hook, AnswersLast
  <2>3. ~FastPath(s)
    BY <1>5 DEF Decide, FastPath
  <2> QED
    BY <1>1, <1>2, <1>5, <2>1, <2>2, <2>3 DEF Decide, Gives
<1> QED BY <1>3, <1>4, <1>5 DEF Answering

\* What each step of a hook does to it, in the fields the invariant speaks of.
LEMMA AnswersStep ==
  ASSUME TypeOK, NEW s \in Sessions, HookSteps(s), AnswersLast
  PROVE  /\ hook'[s].answer # "none" => hook'[s].pc = "answered"
         /\ hook'[s].pc = "decide" => hook'[s].result # "none"
<1>1. hook[s] \in Hook /\ hook \in [Sessions -> Hook]
  BY DEF TypeOK
<1>2. hook[s].answer # "none" => hook[s].pc = "answered"
  BY DEF AnswersLast
<1>3. CASE Stop(s)
  BY <1>1, <1>2, <1>3 DEF Stop, Goes, Hook
<1>4. CASE Answering(s)
  BY <1>4, AnswerGiven
<1>5. CASE CheckGuard(s) \/ PinsNotUsed(s) \/ PinsAgree(s) \/ WritePins(s)
  BY <1>1, <1>2, <1>5 DEF CheckGuard, PinsNotUsed, PinsAgree, WritePins, Hook
<1>6. CASE NoFastPath(s) \/ RunStarts(s) \/ Scan(s) \/ ReadPolicy(s)
  BY <1>1, <1>2, <1>6 DEF NoFastPath, Goes, RunStarts, Scan, ReadPolicy, Hook
<1>7. CASE Judge(s)
  BY <1>1, <1>2, <1>7 DEF Judge, Verdict, Hook
<1>8. CASE Resume(s)
  BY <1>1, <1>8 DEF Resume, Rest
<1> QED
  BY <1>3, <1>4, <1>5, <1>6, <1>7, <1>8 DEF HookSteps, Answering

\* The steps that neither look at the pins to write them nor write them.
LEMMA PinsLeftAlone ==
  ASSUME TypeOK, AnswersLast, NEW s \in Sessions, HookSteps(s),
         ~PinsAgree(s), ~WritePins(s)
  PROVE  hook'[s].pc # "write" /\ UNCHANGED local
<1>1. hook[s] \in Hook /\ hook \in [Sessions -> Hook]
  BY DEF TypeOK
<1>2. CASE Answering(s)
  <2>1. hook'[s].pc = "answered"
    BY <1>2, AnswerGiven
  <2>2. UNCHANGED local
    BY <1>2 DEF Answering, TakeBypass, PinsDrift, FastPath, Decide, Fail
  <2> QED BY <2>1, <2>2
<1>3. CASE Stop(s)
  BY <1>1, <1>3 DEF Stop, Goes, Hook
<1>4. CASE CheckGuard(s) \/ PinsNotUsed(s)
  BY <1>1, <1>4 DEF CheckGuard, PinsNotUsed, Hook
<1>5. CASE NoFastPath(s) \/ RunStarts(s) \/ Scan(s) \/ ReadPolicy(s)
  BY <1>1, <1>5 DEF NoFastPath, Goes, RunStarts, Scan, ReadPolicy, Hook
<1>6. CASE Judge(s)
  BY <1>1, <1>6 DEF Judge, Hook
<1>7. CASE Resume(s)
  BY <1>1, <1>7 DEF Resume, Rest
<1> QED
  BY <1>2, <1>3, <1>4, <1>5, <1>6, <1>7 DEF HookSteps, Answering

\* A pin file holds the baseline, and what is about to replace one is it.
LEMMA PinsStep ==
  ASSUME TypeOK, AnswersLast, PinsAreTheBaseline, ReplacesWithBase, [Next]_vars
  PROVE  PinsAreTheBaseline' /\ ReplacesWithBase'
<1>1. CASE UNCHANGED vars
  BY <1>1 DEF vars, PinsAreTheBaseline, ReplacesWithBase, Creates
<1>2. CASE Developer
  <2>1. UNCHANGED <<hook, base>>
    BY <1>2 DEF Developer, EditCode, EditPolicy, Commit, HistoryMoves,
                SetBypass, LosePins, local
  <2>2. \A t \in Sessions : pins'[t] \in {pins[t], "missing", "damaged"}
    BY <1>2 DEF Developer, EditCode, EditPolicy, Commit, HistoryMoves,
                SetBypass, LosePins, local, TypeOK
  <2>3. PinsAreTheBaseline'
    BY <2>1, <2>2, StopHookAssumption DEF PinsAreTheBaseline
  <2>4. ReplacesWithBase'
    BY <2>1 DEF ReplacesWithBase, Creates
  <2> QED BY <2>3, <2>4
<1>3. ASSUME NEW s \in Sessions, HookSteps(s)
      PROVE  PinsAreTheBaseline' /\ ReplacesWithBase'
  <2> DEFINE Kept(t) ==
        /\ pins'[t] \in Policies => pins'[t] = base'[t]
        /\ (hook'[t].pc = "write" /\ ~hook'[t].noted)
             => hook'[t].next = base'[t]
  <2>1. ASSUME NEW t \in Sessions, t # s PROVE Kept(t)
    <3>1. hook'[t] = hook[t] /\ pins'[t] = pins[t] /\ base'[t] = base[t]
      BY <1>3, <2>1, OneHookSteps
    <3> QED
      BY <3>1 DEF PinsAreTheBaseline, ReplacesWithBase, Creates
  <2>2. CASE PinsAgree(s)
    <3>1. UNCHANGED local /\ hook'[s].next = head.policy
          /\ hook'[s].noted = (pins[s] = "missing")
      BY <2>2 DEF PinsAgree, TypeOK, Hook
    <3>2. head.policy \in Policies /\ pins[s] \in {"missing", head.policy}
      BY <2>2 DEF PinsAgree, TypeOK, Snapshot
    <3>3. Kept(s)
      BY <3>1, <3>2 DEF PinsAreTheBaseline, local
    <3> QED
      BY <2>1, <3>3 DEF PinsAreTheBaseline, ReplacesWithBase, Creates
  <2>3. CASE WritePins(s)
    <3>1. PICK written \in BOOLEAN :
            /\ pins' = IF written THEN [pins EXCEPT ![s] = hook[s].next]
                                  ELSE pins
            /\ base' = IF written /\ Creates(s)
                       THEN [base EXCEPT ![s] = hook[s].next] ELSE base
            /\ hook[s].pc = "write" /\ hook'[s].pc = "receipt"
      BY <2>3 DEF WritePins, TypeOK, Hook
    <3>2. Kept(s)
      BY <3>1 DEF PinsAreTheBaseline, ReplacesWithBase, TypeOK
    <3> QED
      BY <2>1, <3>2 DEF PinsAreTheBaseline, ReplacesWithBase, Creates
  <2>4. CASE ~PinsAgree(s) /\ ~WritePins(s)
    <3>1. Kept(s)
      BY <1>3, <2>4, PinsLeftAlone DEF PinsAreTheBaseline, local
    <3> QED
      BY <2>1, <3>1 DEF PinsAreTheBaseline, ReplacesWithBase, Creates
  <2> QED BY <2>2, <2>3, <2>4
<1> QED BY <1>1, <1>2, <1>3 DEF Next

-----------------------------------------------------------------------------
\* A run that is judged verified mints a receipt that is proof, of what is there.
LEMMA MintIsProof ==
  ASSUME TypeOK, NEW s \in Sessions, Judge(s), ReadIsCurrent(hook[s]),
         hook'[s].result = "verified"
  PROVE  /\ hook'[s].minted # NoReceipt => Judged(hook'[s].minted)
         /\ hook'[s].minted = Mint(hook[s])
<1> DEFINE h == hook[s]
           result == Verdict(h.diverged, h.changed, h.seen,
                             Accepted(h.floor, h.history))
<1>1. h.pc = "gate" /\ hook'[s].result = result
      /\ hook'[s].minted = IF result = "verified" THEN Mint(h) ELSE NoReceipt
  BY DEF Judge, TypeOK, Hook
<1>2. result = "verified"
  BY <1>1
<1>3. h.diverged \in BOOLEAN /\ ~h.diverged
  BY <1>2 DEF Verdict, TypeOK, Hook
<1>4. /\ tree.policy = head.policy /\ h.seen = tree.code
      /\ h.floor = tree.policy
  BY <1>1, <1>3 DEF ReadIsCurrent
<1>5. Judged(Mint(h))
  BY <1>4 DEF Judged, Mint
<1> QED BY <1>1, <1>2, <1>5

\* In a quiet repository a step of a hook leaves it reading what is there, and
\* what it saves is proof.
LEMMA QuietHookStep ==
  ASSUME IInv, quiet, NEW s \in Sessions, HookSteps(s)
  PROVE  /\ QuietHook(s)'
         /\ receipt' # NoReceipt => Judged(receipt')
<1>1. hook[s] \in Hook /\ hook \in [Sessions -> Hook]
  BY DEF IInv, TypeOK
<1>2. /\ TypeOK /\ AnswersLast
      /\ hook[s].answer # "none" => hook[s].pc = "answered"
      /\ hook[s].pc = "decide" => hook[s].result # "none"
  BY DEF IInv, AnswersLast
<1>3. /\ MintedIsProof(hook[s]) /\ ReadIsCurrent(hook[s])
      /\ PinsCompared(hook[s], base[s])
      /\ receipt # NoReceipt => Judged(receipt)
  BY DEF IInv, QuietInv, QuietHook
<1>4. UNCHANGED repo
  BY DEF HookSteps, Stop, TakeBypass, CheckGuard, PinsNotUsed, PinsAgree,
         PinsDrift, WritePins, FastPath, NoFastPath, RunStarts, Scan,
         ReadPolicy, Judge, Decide, Fail, Resume
<1>5. CASE Stop(s) \/ NoFastPath(s)
  <2>1. hook'[s] = [hook[s] EXCEPT !.pc = hook'[s].pc]
        /\ hook'[s].pc \in {"unlink", "guard", "run"}
        /\ (hook'[s].pc = "run" => hook[s].pc = "receipt")
        /\ UNCHANGED <<base, receipt>>
        /\ hook[s].pc # "answered"
    BY <1>1, <1>5 DEF Stop, NoFastPath, Goes, Hook, local
  <2>2. /\ hook'[s].minted = hook[s].minted /\ hook'[s].noted = hook[s].noted
        /\ hook'[s].answer = "none"
    BY <1>1, <1>2, <2>1 DEF Hook
  <2> QED
    BY <1>2, <1>3, <1>4, <2>1, <2>2
       DEF QuietHook, MintedIsProof, ReadIsCurrent, PinsCompared, repo
<1>6. CASE CheckGuard(s) \/ PinsNotUsed(s)
  <2>1. /\ hook'[s].pc \in {"pins", "receipt"}
        /\ hook'[s].pc = "receipt" => hook'[s].noted
        /\ hook'[s].minted = hook[s].minted /\ hook'[s].answer = hook[s].answer
        /\ UNCHANGED <<base, receipt>> /\ hook[s].pc # "answered"
    BY <1>1, <1>6 DEF CheckGuard, PinsNotUsed, Hook, local
  <2> QED
    BY <1>2, <1>3, <2>1
       DEF QuietHook, MintedIsProof, ReadIsCurrent, PinsCompared
<1>7. CASE PinsAgree(s)
  <2>1. /\ hook'[s].pc = "write" /\ hook'[s].next = head.policy
        /\ hook'[s].minted = hook[s].minted /\ hook'[s].answer = hook[s].answer
        /\ UNCHANGED <<base, receipt>> /\ hook[s].pc # "answered"
    BY <1>1, <1>7 DEF PinsAgree, Hook, local
  <2> QED
    BY <1>2, <1>3, <1>4, <2>1
       DEF QuietHook, MintedIsProof, ReadIsCurrent, PinsCompared, repo
<1>8. CASE WritePins(s)
  <2>1. hook[s].next = head.policy /\ hook[s].noted \in BOOLEAN
        /\ (~hook[s].noted => base[s] = head.policy)
    BY <1>1, <1>3, <1>8
       DEF WritePins, PinsCompared, IInv, ReplacesWithBase, Creates, Hook
  <2>2. PICK written \in BOOLEAN :
          /\ base' = IF written /\ Creates(s)
                     THEN [base EXCEPT ![s] = hook[s].next] ELSE base
          /\ hook' = [hook EXCEPT ![s].pc = "receipt", ![s].next = "missing",
                                  ![s].noted = Creates(s) /\ ~written]
          /\ hook[s].pc = "write" /\ UNCHANGED receipt
    BY <1>8 DEF WritePins
  <2>3. /\ hook'[s].pc = "receipt" /\ hook'[s].minted = hook[s].minted
        /\ hook'[s].answer = hook[s].answer
        /\ hook'[s].noted = (Creates(s) /\ ~written)
    BY <1>1, <2>2 DEF Hook
  <2>4. ~hook'[s].noted => base'[s] = head.policy
    BY <1>2, <2>1, <2>2, <2>3 DEF Creates, TypeOK
  <2> QED
    BY <1>2, <1>3, <1>4, <2>2, <2>3, <2>4
       DEF QuietHook, MintedIsProof, ReadIsCurrent, PinsCompared, repo
<1>9. CASE RunStarts(s) \/ Scan(s) \/ ReadPolicy(s)
  <2>1. /\ hook'[s].pc \in {"scan", "floor", "gate"}
        /\ hook[s].pc \in {"run", "scan", "floor"}
        /\ hook'[s].minted = hook[s].minted /\ hook'[s].answer = hook[s].answer
        /\ hook'[s].noted = hook[s].noted /\ UNCHANGED <<base, receipt>>
    BY <1>1, <1>9 DEF RunStarts, Scan, ReadPolicy, Hook, local
  <2>2. ReadIsCurrent(hook[s])'
    <3>1. CASE RunStarts(s)
      <4>1. hook'[s].pc = "scan"
            /\ hook'[s].diverged = (tree.policy # head.policy)
        BY <1>1, <3>1 DEF RunStarts, Hook
      <4> QED BY <1>2, <1>4, <2>1, <4>1 DEF ReadIsCurrent, repo
    <3>2. CASE Scan(s)
      <4>1. /\ hook[s].pc = "scan" /\ hook'[s].pc = "floor"
            /\ hook'[s].seen = tree.code
            /\ hook'[s].diverged = hook[s].diverged
        BY <1>1, <3>2 DEF Scan, Hook
      <4> QED BY <1>2, <1>3, <1>4, <2>1, <4>1 DEF ReadIsCurrent, repo
    <3>3. CASE ReadPolicy(s)
      <4>1. /\ hook[s].pc = "floor" /\ hook'[s].pc = "gate"
            /\ hook'[s].seen = hook[s].seen
            /\ hook'[s].diverged = hook[s].diverged
            /\ hook'[s].history = history
            /\ hook'[s].floor = IF hook[s].diverged THEN "untrusted"
                                                    ELSE tree.policy
        BY <1>1, <3>3 DEF ReadPolicy, Hook
      <4> QED BY <1>2, <1>3, <1>4, <2>1, <4>1 DEF ReadIsCurrent, repo
    <3> QED BY <1>9, <3>1, <3>2, <3>3
  <2> QED
    BY <1>2, <1>3, <1>4, <2>1, <2>2
       DEF QuietHook, MintedIsProof, PinsCompared, repo
<1>10. CASE Judge(s)
  <2>1. /\ hook[s].pc = "gate" /\ hook'[s].pc = "decide"
        /\ hook'[s].answer = hook[s].answer /\ hook'[s].noted = hook[s].noted
        /\ hook'[s].result # "verified" => hook'[s].minted = NoReceipt
        /\ UNCHANGED <<base, receipt>>
    BY <1>1, <1>10 DEF Judge, Hook, local
  <2>2. hook'[s].result = "verified"
          => /\ hook'[s].minted = Mint(hook[s])
             /\ MintedIsProof(hook'[s])
    BY <1>2, <1>3, <1>10, MintIsProof DEF MintedIsProof
  <2>3. BindsNow(Mint(hook[s]))
    <3>1. Mint(hook[s]) \in Receipt
      BY <1>1, <1>2 DEF Mint, TypeOK, Hook, Receipt, Proof, Snapshot
    <3> QED
      BY <1>3, <2>1, <3>1, ReceiptAssumption DEF BindsNow, Mint, ReadIsCurrent
  <2> QED
    BY <1>2, <1>3, <1>4, <2>1, <2>2, <2>3
       DEF QuietHook, MintedIsProof, ReadIsCurrent, PinsCompared, BindsNow, repo
<1>11. CASE Answering(s)
  <2>1. /\ hook'[s].pc = "answered" /\ hook'[s].noted = hook[s].noted
        /\ hook'[s].minted = IF FastPath(s) THEN receipt ELSE hook[s].minted
        /\ hook'[s].answer = "verified" =>
             FastPath(s) \/ (Decide(s) /\ hook[s].result = "verified")
    BY <1>2, <1>11, AnswerGiven
  <2>2. UNCHANGED base
    BY <1>11
       DEF local, Answering, TakeBypass, PinsDrift, FastPath, Decide, Fail
  <2>3. receipt' \in {receipt, hook[s].minted, NoReceipt}
    BY <1>11 DEF Answering, TakeBypass, PinsDrift, FastPath, Decide, Fail
  <2>4. MintedIsProof(hook'[s])
    BY <1>3, <2>1 DEF MintedIsProof
  <2>5. hook'[s].answer = "verified" => BindsNow(hook'[s].minted)
    <3>1. CASE FastPath(s)
      BY <2>1, <3>1 DEF FastPath, ReceiptMatches, BindsNow
    <3>2. CASE ~FastPath(s)
      BY <1>3, <2>1, <3>2 DEF Decide, ReadIsCurrent
    <3> QED BY <3>1, <3>2
  <2>6. (hook'[s].answer = "verified" /\ ~hook'[s].noted)
          => base[s] = head.policy
    BY <1>3, <2>1 DEF FastPath, Decide, PinsCompared
  <2> QED
    BY <1>3, <1>4, <2>1, <2>2, <2>3, <2>4, <2>5, <2>6
       DEF QuietHook, MintedIsProof, ReadIsCurrent, PinsCompared, BindsNow, repo
<1>12. CASE Resume(s)
  <2>1. /\ hook'[s].pc = "idle" /\ hook'[s].answer = "none"
        /\ hook'[s].minted = NoReceipt /\ UNCHANGED receipt
    BY <1>1, <1>12 DEF Resume, Rest
  <2> QED
    BY <1>3, <2>1 DEF QuietHook, MintedIsProof, ReadIsCurrent, PinsCompared
<1> QED
  BY <1>5, <1>6, <1>7, <1>8, <1>9, <1>10, <1>11, <1>12
     DEF HookSteps, Answering

\* What a quiet repository guarantees, every step keeps: the developer's because
\* no hook is under way then.
LEMMA QuietStep == IInv /\ [Next]_vars => QuietInv'
<1> SUFFICES ASSUME IInv, [Next]_vars PROVE QuietInv'
  OBVIOUS
<1>1. CASE UNCHANGED vars
  BY <1>1 DEF vars, IInv, QuietInv, QuietHook, MintedIsProof, ReadIsCurrent,
              PinsCompared, BindsNow
<1>2. CASE Developer
  <2> SUFFICES ASSUME quiet'
               PROVE  /\ receipt' # NoReceipt => Judged(receipt')
                      /\ \A s \in Sessions : QuietHook(s)'
    BY DEF QuietInv
  <2>1. UNCHANGED <<hook, receipt, quiet>> /\ MayEdit
    BY <1>2 DEF Developer, EditCode, EditPolicy, Commit, HistoryMoves,
                SetBypass, LosePins, repo
  <2>2. receipt' # NoReceipt => Judged(receipt')
    BY <2>1 DEF IInv, QuietInv
  <2>3. ASSUME NEW s \in Sessions PROVE QuietHook(s)'
    <3>1. hook'[s].pc = "idle" /\ hook'[s].answer = "none"
      BY <2>1, <2>3 DEF MayEdit, IInv, AnswersLast
    <3>2. MintedIsProof(hook'[s])
      BY <2>1, <2>3 DEF IInv, QuietInv, QuietHook
    <3> QED BY <3>1, <3>2 DEF QuietHook, MintedIsProof, ReadIsCurrent, PinsCompared
  <2> QED BY <2>2, <2>3
<1>3. ASSUME NEW s \in Sessions, HookSteps(s) PROVE QuietInv'
  <2>1. UNCHANGED repo
    BY <1>3
       DEF HookSteps, Stop, TakeBypass, CheckGuard, PinsNotUsed, PinsAgree,
           PinsDrift, WritePins, FastPath, NoFastPath, RunStarts, Scan,
           ReadPolicy, Judge, Decide, Fail, Resume
  <2> SUFFICES ASSUME quiet'
               PROVE  /\ receipt' # NoReceipt => Judged(receipt')
                      /\ \A t \in Sessions : QuietHook(t)'
    BY DEF QuietInv
  <2>2. quiet
    BY <2>1 DEF repo
  <2>3. QuietHook(s)' /\ (receipt' # NoReceipt => Judged(receipt'))
    BY <1>3, <2>2, QuietHookStep
  <2>4. ASSUME NEW t \in Sessions, t # s PROVE QuietHook(t)'
    <3>1. hook'[t] = hook[t] /\ base'[t] = base[t]
      BY <1>3, <2>4, OneHookSteps DEF IInv
    <3>2. QuietHook(t)
      BY <2>2, <2>4 DEF IInv, QuietInv
    <3> QED
      BY <2>1, <3>1, <3>2 DEF QuietHook, MintedIsProof, ReadIsCurrent,
                              PinsCompared, BindsNow, repo
  <2> QED BY <2>3, <2>4
<1> QED BY <1>1, <1>2, <1>3 DEF Next

\* No step answers early, and none reaches the decision without a result.
LEMMA AnswersLastStep == TypeOK /\ AnswersLast /\ [Next]_vars => AnswersLast'
<1> SUFFICES ASSUME TypeOK, AnswersLast, [Next]_vars PROVE AnswersLast'
  OBVIOUS
<1>1. CASE UNCHANGED hook
  BY <1>1 DEF AnswersLast
<1>2. ASSUME NEW s \in Sessions, HookSteps(s) PROVE AnswersLast'
  <2>1. ASSUME NEW t \in Sessions
        PROVE  /\ hook'[t].answer # "none" => hook'[t].pc = "answered"
               /\ hook'[t].pc = "decide" => hook'[t].result # "none"
    <3>1. CASE t = s
      BY <1>2, <3>1, AnswersStep
    <3>2. CASE t # s
      BY <1>2, <3>2, OneHookSteps DEF AnswersLast
    <3> QED BY <3>1, <3>2
  <2> QED BY <2>1 DEF AnswersLast
<1> QED BY <1>1, <1>2, DeveloperLeavesHooks DEF Next, vars

-----------------------------------------------------------------------------
\* A repository no hook has run in satisfies the invariant.
LEMMA InitInv == Init => IInv
<1> SUFFICES ASSUME Init PROVE IInv
  OBVIOUS
<1>1. \A s \in Sessions :
        /\ hook[s].pc = "idle" /\ hook[s].answer = "none"
        /\ hook[s].minted = NoReceipt
  BY DEF Init, Rest
<1>2. TypeOK
  <2>1. Rest(FALSE) \in Hook
    BY RestHook
  <2>2. 0 \in 0 .. MaxHistory
    BY StopHookAssumption
  <2>3. tree \in Snapshot /\ head \in Snapshot
    BY DEF Init, Snapshot
  <2>4. hook \in [Sessions -> Hook]
    BY <2>1 DEF Init
  <2>5. pins \in [Sessions -> PinFile] /\ base \in [Sessions -> PinFile]
    BY DEF Init, PinFile
  <2> QED BY <2>2, <2>3, <2>4, <2>5 DEF Init, TypeOK
<1>3. PinsAreTheBaseline /\ ReplacesWithBase
  BY <1>1 DEF Init, PinsAreTheBaseline, ReplacesWithBase
<1>4. AnswersLast /\ QuietInv
  BY <1>1 DEF Init, AnswersLast, QuietInv, QuietHook, MintedIsProof,
              ReadIsCurrent, PinsCompared
<1> QED BY <1>2, <1>3, <1>4 DEF IInv

\* What the theorems below rest on: types, order of the answers, pins, and what
\* a quiet repository guarantees, all together kept by every step.
THEOREM Invariance == Spec => []IInv
<1>1. IInv /\ [Next]_vars => IInv'
  <2> SUFFICES ASSUME IInv, [Next]_vars PROVE IInv'
    OBVIOUS
  <2>1. TypeOK' /\ AnswersLast'
    BY TypeStep, AnswersLastStep DEF IInv
  <2>2. PinsAreTheBaseline' /\ ReplacesWithBase'
    BY PinsStep DEF IInv
  <2> QED BY <2>1, <2>2, QuietStep DEF IInv
<1> QED BY InitInv, <1>1, PTL DEF Spec

\* The files a stop reads and the steps it is at keep their types, in every
\* interleaving of runStopHook's steps with those of other sessions.
THEOREM StopTyped == Spec => []TypeOK
<1>1. IInv => TypeOK
  BY DEF IInv
<1> QED BY Invariance, <1>1, PTL

\* The pin store never takes a later policy for the baseline of a session:
\* create refuses what is there, and replace only writes pins that were equal.
THEOREM StopPinsAreTheBaseline == Spec => []PinsAreTheBaseline
<1>1. IInv => PinsAreTheBaseline
  BY DEF IInv
<1> QED BY Invariance, <1>1, PTL

\* Where nobody edits beside a hook, a VERIFIED of the run or of the fast path
\* answers for the code, policy and history that are there.
THEOREM StopVerifiedWasJudged == Spec => []VerifiedWasJudged
<1>1. IInv => VerifiedWasJudged
  <2> SUFFICES ASSUME IInv, NEW s \in Sessions, quiet,
                      hook[s].answer = "verified"
               PROVE  /\ tree.policy = head.policy
                      /\ hook[s].minted.proof =
                           [code |-> tree.code, policy |-> head.policy,
                            history |-> history]
    BY DEF VerifiedWasJudged
  <2>1. BindsNow(hook[s].minted) /\ Judged(hook[s].minted)
    BY DEF IInv, QuietInv, QuietHook, ReadIsCurrent, MintedIsProof, BindsNow
  <2> QED BY <2>1 DEF BindsNow, Judged
<1> QED BY Invariance, <1>1, PTL

\* There, a VERIFIED that discloses no skipped comparison was given under the
\* policy the session's pins recorded first.
THEOREM StopVerifiedUnderPins == Spec => []VerifiedUnderPins
<1>1. IInv => VerifiedUnderPins
  BY DEF IInv, QuietInv, QuietHook, PinsCompared, VerifiedUnderPins
<1> QED BY Invariance, <1>1, PTL
=============================================================================
