------------------------------ MODULE StopHook ------------------------------
(***************************************************************************)
(* The Stop hook (surfaces/stop-hook-runner.ts): the process an assistant  *)
(* starts each time it tries to stop.  Several sessions work in one        *)
(* repository, so several hooks can run at once beside the developer.      *)
(*                                                                         *)
(* A stop takes the one-use bypass, checks the guarded files, compares the *)
(* session pins, tries the stored receipt, and only then runs the engine,  *)
(* saves the receipt the run minted and answers.  What those steps read    *)
(* is read at different moments: that is what the actions keep apart.      *)
(*                                                                         *)
(* The code under check is the set of broken screens.  A policy stands for *)
(* the contents of every guarded file; Floor[p] is the set of screens      *)
(* whose barriers it accepts.  The history lowers what a floor accepts.    *)
(***************************************************************************)
EXTENDS Naturals

CONSTANTS
  Sessions,     \* assistant sessions, each with at most one hook running
  Screens,
  Policies,     \* contents the guarded files can have
  Floor,        \* Floor[p]: the screens whose barriers policy p accepts
  MaxHistory,   \* the history branch moves at most this often
  Lowered,      \* Lowered[h]: the screens history h has confirmed fixed
  NoReceipt     \* no receipt file, or one that does not load

ASSUME StopHookAssumption ==
  /\ Floor \in [Policies -> SUBSET Screens]
  /\ MaxHistory \in Nat
  /\ Lowered \in [0 .. MaxHistory -> SUBSET Screens]
  /\ {"missing", "damaged", "untrusted"} \cap Policies = {}

VARIABLES
  quiet,     \* chosen once: nobody edits or commits while a hook runs
  tree,      \* the working tree: [code, policy]
  head,      \* the commit HEAD names: [code, policy]
  history,   \* the commit the history branch names
  bypass,    \* .usabl/bypass-once exists
  pins,      \* pins[s]: the pin file of session s
  base,      \* ghost, base[s]: the pins session s recorded first
  receipt,   \* .usabl/receipt.json
  hook       \* hook[s]: the hook of session s

vars == <<quiet, tree, head, history, bypass, pins, base, receipt, hook>>
repo == <<quiet, tree, head, history>>
local == <<pins, base>>       \* what the pin store keeps

Snapshot == [code : SUBSET Screens, policy : Policies]
PinFile == Policies \cup {"missing", "damaged"}
Proof == [code : SUBSET Screens, policy : Policies \cup {"untrusted"},
          history : 0 .. MaxHistory]
\* proof is a ghost field: what the run that minted the receipt looked at.
Receipt == [tree : Snapshot, policy : Policies, history : 0 .. MaxHistory,
            proof : Proof]

ASSUME ReceiptAssumption == NoReceipt \notin Receipt

Steps == {"idle", "unlink", "guard", "pins", "write", "receipt", "run",
          "scan", "floor", "gate", "decide", "answered"}
Answers == {"none", "bypass", "verified", "nothing", "unverified", "blocked"}

Rest(active) ==
  [pc |-> "idle", active |-> active, answer |-> "none", dirty |-> FALSE,
   noted |-> FALSE, next |-> "missing", changed |-> {}, diverged |-> FALSE,
   seen |-> {}, floor |-> "untrusted", history |-> 0, result |-> "none",
   minted |-> NoReceipt]

Hook ==
  [pc : Steps, active : BOOLEAN, answer : Answers, dirty : BOOLEAN,
   noted : BOOLEAN, next : PinFile, changed : SUBSET Screens,
   diverged : BOOLEAN, seen : SUBSET Screens,
   floor : Policies \cup {"untrusted"}, history : 0 .. MaxHistory,
   result : {"none", "verified", "idle", "blocking"},
   minted : Receipt \cup {NoReceipt}]

\* Every file a hook reads holds what some hook, commit or person put there, and
\* every hook is at a step of runStopHook with an answer of that step.
TypeOK ==
  /\ quiet \in BOOLEAN
  /\ tree \in Snapshot /\ head \in Snapshot
  /\ history \in 0 .. MaxHistory
  /\ bypass \in BOOLEAN
  /\ pins \in [Sessions -> PinFile]
  /\ base \in [Sessions -> PinFile]
  /\ receipt \in Receipt \cup {NoReceipt}
  /\ hook \in [Sessions -> Hook]

-----------------------------------------------------------------------------
(* Plausible bugs in what follows.                                        *)

ReceiptMatchesAnyHistory(r) ==
  /\ r # NoReceipt
  /\ r.tree = tree
  /\ r.policy = head.policy

-----------------------------------------------------------------------------
(* What the steps compute.                                                 *)

\* A floor read while the guarded files diverge is the empty floor.
Accepted(p, h) == IF p = "untrusted" THEN {} ELSE Floor[p] \ Lowered[h]

\* The screens the run plans: those whose files differ from HEAD.
Affected(t, h) == (t.code \ h.code) \cup (h.code \ t.code)

\* Seen is what the run found broken among the screens it planned.
Verdict(diverged, changed, seen, accepted) ==
  IF diverged THEN "blocking"
  ELSE IF changed = {} THEN "idle"
  ELSE IF seen \cap changed \subseteq accepted THEN "verified" ELSE "blocking"

ReceiptMatches(r) ==
  /\ r # NoReceipt
  /\ r.tree = tree
  /\ r.policy = head.policy
  /\ r.history = history

Mint(h) ==
  [tree |-> tree, policy |-> head.policy, history |-> h.history,
   proof |-> [code |-> h.seen, policy |-> h.floor, history |-> h.history]]

\* A blocking result blocks the first stop, and lets a continuation through.
Decision(result, active) ==
  CASE result = "verified" -> "verified"
    [] result = "idle"     -> "nothing"
    [] result = "blocking" -> IF active THEN "unverified" ELSE "blocked"

-----------------------------------------------------------------------------
(* The hook.                                                               *)

Goes(s, pc) == hook' = [hook EXCEPT ![s].pc = pc]

AnswerOf(h, answer) ==
  [Rest(h.active) EXCEPT !.pc = "answered", !.answer = answer,
                         !.noted = h.noted, !.minted = h.minted]
Gives(s, answer) == hook' = [hook EXCEPT ![s] = AnswerOf(@, answer)]

\* The assistant tries to stop: the hook starts and looks for a bypass.
Stop(s) ==
  /\ hook[s].pc = "idle"
  /\ Goes(s, IF bypass THEN "unlink" ELSE "guard")
  /\ UNCHANGED <<repo, bypass, local, receipt>>

\* The file is removed, and it is no error that it is already gone.
TakeBypass(s) ==
  /\ hook[s].pc = "unlink"
  /\ bypass' = FALSE
  /\ Gives(s, "bypass")
  /\ UNCHANGED <<repo, local, receipt>>

CheckGuard(s) ==
  /\ hook[s].pc = "guard"
  /\ hook' = [hook EXCEPT ![s].pc = "pins",
                          ![s].dirty = tree.policy # head.policy]
  /\ UNCHANGED <<repo, bypass, local, receipt>>

\* No usable session id, a refusal of the store, or a file that does not
\* parse: the stop goes on without the comparison, and says so.
PinsNotUsed(s) ==
  /\ hook[s].pc = "pins"
  /\ hook' = [hook EXCEPT ![s].pc = "receipt", ![s].noted = TRUE]
  /\ UNCHANGED <<repo, bypass, local, receipt>>

\* No pins yet, or pins that match what HEAD commits now: both write.
PinsAgree(s) ==
  /\ hook[s].pc = "pins"
  /\ pins[s] \in {"missing", head.policy}
  /\ hook' = [hook EXCEPT ![s].pc = "write", ![s].next = head.policy,
                          ![s].noted = pins[s] = "missing"]
  /\ UNCHANGED <<repo, bypass, local, receipt>>

\* A plausible bug: the pins are brought up to date before the answer.
PinsDriftRepins(s) ==
  /\ hook[s].pc = "pins"
  /\ pins[s] \in Policies \ {head.policy}
  /\ pins' = [pins EXCEPT ![s] = head.policy]
  /\ Gives(s, IF hook[s].active THEN "unverified" ELSE "blocked")
  /\ UNCHANGED <<repo, bypass, base, receipt>>

PinsDrift(s) ==
  /\ hook[s].pc = "pins"
  /\ pins[s] \in Policies \ {head.policy}
  /\ Gives(s, IF hook[s].active THEN "unverified" ELSE "blocked")
  /\ UNCHANGED <<repo, bypass, local, receipt>>

\* create links the new file to the name and refuses when anything is there;
\* replace renames over whatever is there when it gets to it.  Either can be
\* refused, which leaves the file alone.
Creates(s) == hook[s].noted

\* A plausible bug: the pins are computed again when they are written.
WritePinsAnew(s) ==
  /\ hook[s].pc = "write"
  /\ \E written \in BOOLEAN :
       /\ written /\ Creates(s) => pins[s] = "missing"
       /\ pins' = IF written THEN [pins EXCEPT ![s] = head.policy] ELSE pins
       /\ base' = IF written /\ Creates(s)
                  THEN [base EXCEPT ![s] = head.policy] ELSE base
       /\ hook' = [hook EXCEPT ![s].pc = "receipt", ![s].next = "missing",
                               ![s].noted = Creates(s) /\ ~written]
  /\ UNCHANGED <<repo, bypass, receipt>>

WritePins(s) ==
  /\ hook[s].pc = "write"
  /\ \E written \in BOOLEAN :
       /\ written /\ Creates(s) => pins[s] = "missing"
       /\ pins' = IF written THEN [pins EXCEPT ![s] = hook[s].next] ELSE pins
       /\ base' = IF written /\ Creates(s)
                  THEN [base EXCEPT ![s] = hook[s].next] ELSE base
       /\ hook' = [hook EXCEPT ![s].pc = "receipt", ![s].next = "missing",
                               ![s].noted = Creates(s) /\ ~written]
  /\ UNCHANGED <<repo, bypass, receipt>>

\* The stored receipt answers only for clean guarded files.
FastPath(s) ==
  /\ hook[s].pc = "receipt"
  /\ ~hook[s].dirty
  /\ ReceiptMatches(receipt)
  /\ hook' = [hook EXCEPT ![s] = AnswerOf([@ EXCEPT !.minted = receipt],
                                          "verified")]
  /\ UNCHANGED <<repo, bypass, local, receipt>>

NoFastPath(s) ==
  /\ hook[s].pc = "receipt"
  /\ hook[s].dirty \/ ~ReceiptMatches(receipt)
  /\ Goes(s, "run")
  /\ UNCHANGED <<repo, bypass, local, receipt>>

-----------------------------------------------------------------------------
(* The engine, run.ts, inside the hook.                                    *)

RunStarts(s) ==
  /\ hook[s].pc = "run"
  /\ hook' = [hook EXCEPT ![s].pc = "scan",
                          ![s].changed = Affected(tree, head),
                          ![s].diverged = tree.policy # head.policy]
  /\ UNCHANGED <<repo, bypass, local, receipt>>

\* The pages the scan opens are served from the working tree.
Scan(s) ==
  /\ hook[s].pc = "scan"
  /\ hook' = [hook EXCEPT ![s].pc = "floor", ![s].seen = tree.code]
  /\ UNCHANGED <<repo, bypass, local, receipt>>

ReadPolicy(s) ==
  /\ hook[s].pc = "floor"
  /\ hook' = [hook EXCEPT
       ![s].pc = "gate",
       ![s].floor = IF hook[s].diverged THEN "untrusted" ELSE tree.policy,
       ![s].history = history]
  /\ UNCHANGED <<repo, bypass, local, receipt>>

Judge(s) ==
  LET h == hook[s]
      result == Verdict(h.diverged, h.changed, h.seen,
                        Accepted(h.floor, h.history))
  IN  /\ h.pc = "gate"
      /\ hook' = [hook EXCEPT
           ![s].pc = "decide", ![s].result = result,
           ![s].minted = IF result = "verified" THEN Mint(h) ELSE NoReceipt]
      /\ UNCHANGED <<repo, bypass, local, receipt>>

Decide(s) ==
  /\ hook[s].pc = "decide"
  /\ receipt' = IF hook[s].result = "verified" THEN hook[s].minted ELSE receipt
  /\ Gives(s, Decision(hook[s].result, hook[s].active))
  /\ UNCHANGED <<repo, bypass, local>>

\* An error of the hook, or of the run inside it, is disclosed and allowed.
\* An error of the save can leave half a receipt, which reads as none.
Fail(s) ==
  /\ hook[s].pc \notin {"idle", "answered"}
  /\ Gives(s, "unverified")
  /\ receipt' \in IF hook[s].pc = "decide" /\ hook[s].result = "verified"
                  THEN {receipt, NoReceipt} ELSE {receipt}
  /\ UNCHANGED <<repo, bypass, local>>

\* The assistant reads the answer.  Only a blocked one makes it continue.
Resume(s) ==
  /\ hook[s].pc = "answered"
  /\ hook' = [hook EXCEPT ![s] = Rest(hook[s].answer = "blocked")]
  /\ UNCHANGED <<repo, bypass, local, receipt>>

-----------------------------------------------------------------------------
(* Everybody else.                                                         *)

MayEdit == quiet => \A s \in Sessions : hook[s].pc = "idle"

EditCode ==
  /\ MayEdit
  /\ \E x \in Screens :
       tree' = [tree EXCEPT !.code = IF x \in @ THEN @ \ {x} ELSE @ \cup {x}]
  /\ UNCHANGED <<quiet, head, history, bypass, local, receipt, hook>>

EditPolicy ==
  /\ MayEdit
  /\ \E p \in Policies : tree' = [tree EXCEPT !.policy = p]
  /\ UNCHANGED <<quiet, head, history, bypass, local, receipt, hook>>

Commit ==
  /\ MayEdit
  /\ head' = tree
  /\ UNCHANGED <<quiet, tree, history, bypass, local, receipt, hook>>

\* Bound: in a busy repository the history stays where it is.
HistoryBound == IF quiet THEN MaxHistory ELSE 0

HistoryMoves ==
  /\ MayEdit
  /\ history < HistoryBound
  /\ history' = history + 1
  /\ UNCHANGED <<quiet, tree, head, bypass, local, receipt, hook>>

\* usabl bypass.
SetBypass ==
  /\ MayEdit
  /\ bypass' = TRUE
  /\ UNCHANGED <<repo, local, receipt, hook>>

\* A pin file is deleted, or spoiled by something that is not usabl.
LosePins ==
  /\ MayEdit
  /\ \E s \in Sessions, file \in {"missing", "damaged"} :
       pins' = [pins EXCEPT ![s] = file]
  /\ UNCHANGED <<repo, bypass, base, receipt, hook>>

Developer ==
  EditCode \/ EditPolicy \/ Commit \/ HistoryMoves \/ SetBypass \/ LosePins

HookSteps(s) ==
  \/ Stop(s) \/ TakeBypass(s) \/ CheckGuard(s)
  \/ PinsNotUsed(s) \/ PinsAgree(s) \/ PinsDrift(s) \/ WritePins(s)
  \/ FastPath(s) \/ NoFastPath(s)
  \/ RunStarts(s) \/ Scan(s) \/ ReadPolicy(s) \/ Judge(s) \/ Decide(s)
  \/ Fail(s) \/ Resume(s)

Init ==
  /\ quiet \in BOOLEAN
  /\ \E p \in Policies, c \in SUBSET Screens :
       /\ tree = [code |-> c, policy |-> p]
       /\ head = tree
  /\ history = 0
  /\ bypass = FALSE
  /\ pins = [s \in Sessions |-> "missing"]
  /\ base = pins
  /\ receipt = NoReceipt
  /\ hook = [s \in Sessions |-> Rest(FALSE)]

Next == Developer \/ \E s \in Sessions : HookSteps(s)

Spec == Init /\ [][Next]_vars

-----------------------------------------------------------------------------
(* Properties.                                                             *)

\* While a pin file holds pins, they are the ones this session recorded
\* first: no later stop takes a newer commit for the baseline, whoever commits
\* or deletes the file while the hook runs.
PinsAreTheBaseline ==
  \A s \in Sessions : pins[s] \in Policies => pins[s] = base[s]

\* Where nobody edits beside a hook, VERIFIED, by a run or by a receipt of any
\* session, stands for a run that looked at the code that is there now, under
\* the policy HEAD commits and the working tree holds, and the history as it
\* is.
VerifiedWasJudged ==
  \A s \in Sessions :
    (quiet /\ hook[s].answer = "verified") =>
      /\ tree.policy = head.policy
      /\ hook[s].minted.proof = [code |-> tree.code, policy |-> head.policy,
                                 history |-> history]

\* There, VERIFIED without the note "session drift not checked" means the
\* committed policy is the one this session's pins recorded, so a policy
\* weakened and committed during the session never verifies in silence.
VerifiedUnderPins ==
  \A s \in Sessions :
    (quiet /\ hook[s].answer = "verified" /\ ~hook[s].noted)
      => base[s] = head.policy
=============================================================================
