----------------------------- MODULE ScreenScan -----------------------------
(***************************************************************************)
(* The scan of one screen, from opening the page to the record the gate    *)
(* gets (src/providers/check-runner.ts, providers/index.ts, row-scope.ts,  *)
(* coverage/unseen.ts), and checkPage, the second caller of the same parts *)
(* (src/surfaces/playwright-helper.ts).  One action for each read of the   *)
(* page; the page moves between any two of them.                           *)
(***************************************************************************)
EXTENDS PageReadiness, AxeFrames, KeyboardWalk, JudgedPage

CONSTANT Providers   \* the configured providers, in the configured order

ProviderIds == {"rulepack", "axe", "walk"}
Mutating == {"rulepack"}     \* mutatesPageState
Pristine == {"walk"}         \* requiresPristinePage

VARIABLE scan

vars == <<world, dom, net, moves, wait, tree, axe, keys, judged, scan>>

NoObs == [away |-> FALSE, password |-> FALSE, seen |-> 0, selector |-> {}, response |-> {}]
NewScan ==
  [pc |-> "open", then |-> "probe", obs |-> NoObs, outcome |-> "none", todo |-> <<>>,
   mutated |-> FALSE, finished |-> {}, drafts |-> {}, unsure |-> FALSE, stops |-> "none",
   parts |-> {}, gaps |-> {}, kind |-> "none",
   \* what really happened, for the properties
   walked |-> "none", ended |-> "none", missed |-> FALSE, dirty |-> FALSE,
   refusedBy |-> FALSE, unheard |-> FALSE]

Cli == world.caller = "cli"
Go(pc) == scan' = [scan EXCEPT !.pc = pc]
EndWith(kind, gaps) == [scan EXCEPT !.kind = kind, !.gaps = @ \cup gaps, !.pc = "blocked"]

\* orderByPageEffect: providers that change the page run last.
Ordered == SelectSeq(Providers, LAMBDA p : p \notin Mutating) \o SelectSeq(Providers, LAMBDA p : p \in Mutating)

\* The second conjunct follows from the first by induction over the sequence.
ASSUME ProvidersAssumption == Providers \in Seq(ProviderIds) /\ Ordered \in Seq(ProviderIds)

ScanWorlds ==
  {w \in Worlds : /\ w.caller = "checkPage" => w.session = "none" /\ ~w.isolated
                  /\ w.isolated = (w.restless = "workers")
                  /\ w.restless # "page" => w.session = "none" /\ w.signal = "none"}

QuietNet == [open |-> {}, log |-> <<>>, idle |-> 0, installing |-> FALSE, marked |-> FALSE]
Screen == [shows |-> "screen", size |-> 1]
FirstDoms(w) == IF w.restless = "page" THEN [shows: Shows, size: {1}] ELSE {Screen}

(* ------------------------------ the page ------------------------------- *)

Scanning == scan.pc \notin {"done", "refused"}

BeforeLastRead == scan.pc \notin {"blocked", "closing", "unseen", "done", "refused"}

\* Where the next step reads the page or its records.  What the page does while
\* usabl walks commutes with the walk and is taken before or after it.
ReadsPage == scan.pc \in {"sample", "password", "selector", "after", "final"}

\* Something of the scanner's own fails.
Fails == world.restless = "faults" /\ moves > 0 /\ moves' = moves - 1

\* Each instance frees one part of the page to move beside the scan.
PageStep ==
  /\ ReadsPage /\ world.restless = "page"
  /\ PageMoves /\ UNCHANGED <<world, wait, tree, axe, keys, judged, scan>>

FrameStep ==
  /\ BeforeLastRead /\ world.restless = "frames" /\ moves > 0
  /\ FramesMove /\ moves' = moves - 1
  /\ UNCHANGED <<world, dom, net, wait, axe, keys, judged, scan>>

TrafficStep ==
  /\ scan.pc \notin {"closing", "unseen", "done", "refused"} /\ world.isolated /\ moves > 0
  /\ TrafficMoves /\ moves' = moves - 1
  /\ UNCHANGED <<world, dom, net, wait, tree, axe, keys, scan>>

HearingStep ==
  /\ scan.pc \notin {"closing", "unseen", "done", "refused"} /\ Hearing
  /\ UNCHANGED <<world, dom, net, moves, wait, tree, axe, keys, scan>>

(* --------------------------- open and wait ----------------------------- *)

\* openPage; a failed open is a gap, a refused sandbox ends the run.
Open ==
  /\ scan.pc = "open"
  /\ \/ scan' = [scan EXCEPT !.todo = Ordered,
                            !.pc = IF Cli \/ world.signal # "none" THEN "sample" ELSE "providers"]
     \/ Cli /\ scan' = [EndWith("failed", {"open"}) EXCEPT !.pc = "unseen"]
     \/ Cli /\ Go("refused")
  /\ UNCHANGED <<world, dom, net, moves, wait, tree, axe, keys, judged>>

\* The address is read as an observation begins, with no page read before it.
Observe(then) == [scan EXCEPT !.pc = "password", !.then = then, !.obs = [NoObs EXCEPT !.away = Away(dom.shows)]]
WaitEnds(outcome) == scan' = [Observe("landing") EXCEPT !.outcome = outcome]

Sample ==
  /\ scan.pc = "sample"
  /\ wait' = Sampled
  /\ IF ~wait'.settled THEN Go("deadline")
     ELSE IF DeclaresSelector THEN scan' = Observe("probe") ELSE WaitEnds("not-declared")
  /\ UNCHANGED <<world, dom, net, moves, tree, axe, keys, judged>>

\* observeLanding, second read: the password field, and the records with it.
ReadPassword ==
  /\ scan.pc = "password"
  /\ scan' = [scan EXCEPT !.pc = "selector", !.obs.password = Cli /\ Password(dom.shows), !.obs.away = Cli /\ @,
                          !.obs.seen = Len(net.log)]
  /\ UNCHANGED <<world, dom, net, moves, wait, tree, axe, keys, judged>>

\* observeLanding, last read: the selector, and the response record with it.
Observed == [scan.obs EXCEPT !.selector = SelectorPart(dom.shows), !.response = ResponsePart(net.log)]
LogThen(o) == SubSeq(net.log, 1, o.seen)
GoneAway(o, log) == Cli /\ RedirectedAway(o, log)

ProbeRead ==
  /\ scan.pc = "selector" /\ scan.then = "probe"
  /\ IF TRUE \in Observed.selector \/ GoneAway(Observed, LogThen(Observed)) THEN Go("after") ELSE Go("deadline")
  /\ PassTime \/ UNCHANGED <<wait, net>>
  /\ UNCHANGED <<world, dom, moves, tree, axe, keys, judged>>

AfterProbe ==
  /\ scan.pc = "after"
  /\ IF StillSettled THEN WaitEnds("held") /\ UNCHANGED wait
                     ELSE Go("deadline") /\ wait' = ProbeWasLate
  /\ UNCHANGED <<world, dom, net, moves, tree, axe, keys, judged>>

Deadline ==
  /\ scan.pc = "deadline"
  /\ \/ (CapIsOver \/ (BudgetIsOver /\ wait.settled)) /\ WaitEnds("timed-out") /\ UNCHANGED <<wait, net>>
     \/ /\ ~CapIsOver /\ BudgetIsOver /\ ~wait.settled
        /\ scan' = EndWith("failed", {"not settled"}) /\ UNCHANGED <<wait, net>>
     \/ ~CapIsOver /\ ~BudgetIsOver /\ PassTime /\ Go("sample")
  /\ UNCHANGED <<world, dom, moves, tree, axe, keys, judged>>

\* Mutant of HeldBeforeWalk: a later read of the selector is enough.
HeldNow(o) == o.selector = {TRUE}

\* selectorHeldBeforeWalk
HeldBeforeWalk(o) == scan.outcome = "held" /\ o.selector = {TRUE}

\* The landing decides: not this screen, not known to be there, or walked.
Land ==
  /\ scan.pc = "selector" /\ scan.then = "landing"
  /\ LET o == Observed
         begun == [scan EXCEPT !.obs = [o EXCEPT !.seen = 0], !.pc = IF Cli THEN "walk" ELSE "providers", !.walked = dom.shows]
     IN IF GoneAway(o, LogThen(o)) THEN scan' = EndWith("notReached", {"away"}) /\ UNCHANGED net
        ELSE IF DeclaresSelector /\ ~HeldBeforeWalk(o)
             THEN scan' = [EndWith("notHeld", {}) EXCEPT !.parts = {FALSE}] /\ UNCHANGED net
        ELSE IF ~Cli /\ FALSE \in o.response
             THEN scan' = [EndWith("notHeld", {}) EXCEPT !.parts = {FALSE}] /\ UNCHANGED net
        ELSE scan' = begun /\ net' = [net EXCEPT !.marked = TRUE]
  /\ wait' = NoWait
  /\ UNCHANGED <<world, dom, moves, tree, axe, keys, judged>>

(* --------------------- the walk and the providers ---------------------- *)

\* stepRunner.run and trimCycle; every stop may stay on the body.
Walk ==
  /\ scan.pc = "walk"
  /\ \E stops \in {"body", "real"} : scan' = [scan EXCEPT !.stops = stops, !.pc = "providers"]
  /\ UNCHANGED <<world, dom, net, moves, wait, tree, axe, keys, judged>>

\* A page read that throws, anywhere between the mark and the last reads.
Crash ==
  /\ scan.pc \in {"walk", "final"} /\ Cli /\ Fails
  /\ scan' = [EndWith("failed", {"crash"}) EXCEPT !.drafts = {}, !.stops = "none"]
  /\ UNCHANGED <<world, dom, net, wait, tree, axe, keys, judged>>

NextProvider == Head(scan.todo)
ProviderDone(drafts, gaps) ==
  [scan EXCEPT !.pc = "providers", !.todo = Tail(@), !.drafts = @ \cup drafts, !.gaps = @ \cup gaps,
               !.finished = IF gaps = {} THEN @ \cup {NextProvider} ELSE @]

Skipped(p) == p \in Pristine /\ scan.mutated

\* runProviders, up to a provider's run: refused, skipped on a changed page,
\* or started.  The page counts as changed before a mutating provider runs.
StartProvider ==
  /\ scan.pc = "providers" /\ scan.todo # <<>>
  /\ LET p == NextProvider IN
     \/ Cli /\ Fails /\ scan' = ProviderDone({}, {"denied"}) /\ UNCHANGED <<axe, keys>>
     \/ Skipped(p) /\ scan' = ProviderDone({}, {"skipped"}) /\ UNCHANGED <<moves, axe, keys>>
     \/ /\ ~Skipped(p) /\ UNCHANGED moves
        /\ scan' = [scan EXCEPT !.pc = IF p = "walk" THEN "walk-keys" ELSE p, !.mutated = @ \/ p \in Mutating,
                                !.dirty = @ \/ (p \in Pristine /\ scan.mutated)]
        /\ IF p = "axe" THEN AxeStart ELSE UNCHANGED axe
        /\ IF p = "walk" THEN WalkStart ELSE UNCHANGED keys
  /\ UNCHANGED <<world, dom, net, wait, tree, judged>>

\* A provider that clicks: it ends, discloses a check of its own, or throws.
RunRulepack ==
  /\ scan.pc = "rulepack"
  /\ \/ scan' = ProviderDone({"rulepack"}, {}) /\ UNCHANGED moves
     \/ Fails /\ scan' = ProviderDone({"rulepack"}, {"check"})
     \/ Fails /\ scan' = ProviderDone({}, {"provider"})
  /\ UNCHANGED <<world, dom, net, wait, tree, axe, keys, judged>>

\* axeProvider: a frame it could not check is a gap, a run that throws is one.
RunAxe ==
  /\ scan.pc = "axe"
  /\ \/ AxeStep /\ scan' = [scan EXCEPT !.missed = @ \/ (axe.pc = "trees" /\ ~(Visible \subseteq axe.reached))]
     \/ /\ axe.pc = "done" /\ axe' = NoRun
        /\ scan' = ProviderDone({"axe"}, IF axe.unchecked THEN {"frames"} ELSE {})
     \/ axe.pc = "threw" /\ axe' = NoRun /\ scan' = ProviderDone({}, {"provider"})
  /\ UNCHANGED <<world, dom, net, moves, wait, tree, keys, judged>>

\* The keyboard provider: what it cannot tell is an unverified draft.
RunWalk ==
  /\ scan.pc = "walk-keys"
  /\ \/ (IF world.restless = "keys" THEN KeysStep ELSE TabOntoBody) /\ UNCHANGED scan
     \/ /\ keys.pc = "done" /\ keys' = [NoKeys EXCEPT !.reason = keys.reason]
        /\ scan' = [ProviderDone({"walk"}, {}) EXCEPT !.unsure = @ \/ keys.unsure]
  /\ UNCHANGED <<world, dom, net, moves, wait, tree, axe, judged>>

\* attachRowScopeToDrafts: a deterministic draft whose row cannot be told
\* apart is unverified, and a gap.
AttachRows ==
  /\ scan.pc = "providers" /\ scan.todo = <<>>
  /\ \/ Go("final") /\ UNCHANGED moves
     \/ /\ scan.drafts # {} /\ Fails
        /\ scan' = [scan EXCEPT !.pc = "final", !.unsure = TRUE, !.gaps = @ \cup {"rows"}]
  /\ UNCHANGED <<world, dom, net, wait, tree, axe, keys, judged>>

(* --------------------- the last reads and the end ---------------------- *)

\* heldThroughout, for one declared part.
Both(before, after) == IF before = {} /\ after = {} THEN {} ELSE {before = {TRUE} /\ after = {TRUE}}

Parts == Both(scan.obs.selector, SelectorPart(dom.shows)) \cup Both(scan.obs.response, ResponsePart(net.log))

\* The signal is measured again, and the refusals with it: one that came
\* during the walk voids everything that was collected.
Final ==
  /\ scan.pc = "final"
  /\ LET late == [scan EXCEPT !.ended = dom.shows, !.refusedBy = Refused(net.log) # {}]
     IN IF GoneAway(scan.obs, net.log)
        THEN scan' = [late EXCEPT !.kind = "notReached", !.gaps = {"away"}, !.drafts = {}, !.stops = "none",
                                  !.pc = "blocked"]
        ELSE scan' = [late EXCEPT !.kind = "full", !.parts = Parts, !.pc = "blocked"]
  /\ UNCHANGED <<world, dom, net, moves, wait, tree, axe, keys, judged>>

\* readBlockedOrigins
ReadBlocked ==
  /\ scan.pc = "blocked"
  /\ IF world.isolated
     THEN /\ CanReadBlocked
          /\ \E reads \in BOOLEAN :
               /\ IF reads THEN UNCHANGED moves ELSE Fails
               /\ scan' = [scan EXCEPT !.pc = "closing", !.unheard = judged.reports # {},
                                    !.gaps = IF Blocked \/ ~reads THEN @ \cup {"blocked"} ELSE @]
     ELSE Go("closing") /\ UNCHANGED moves
  /\ UNCHANGED <<world, dom, net, wait, tree, axe, keys, judged>>

Close ==
  /\ scan.pc = "closing"
  /\ \/ Go("unseen") /\ UNCHANGED moves
     \/ Cli /\ Fails /\ scan' = [scan EXCEPT !.pc = "unseen", !.gaps = @ \cup {"cleanup"}]
  /\ UNCHANGED <<world, dom, net, wait, tree, axe, keys, judged>>

\* markUnseenScreens
Unseen == scan.stops = "body" \/ FALSE \in scan.parts
MarkUnseen ==
  /\ scan.pc = "unseen"
  /\ scan' = [scan EXCEPT !.pc = "done", !.drafts = IF Unseen THEN {} ELSE @,
                          !.gaps = IF Unseen THEN @ \cup {"unseen"} ELSE @]
  /\ UNCHANGED <<world, dom, net, moves, wait, tree, axe, keys, judged>>

Step ==
  \/ Open \/ Sample \/ ReadPassword \/ ProbeRead \/ AfterProbe \/ Deadline \/ Land \/ Walk \/ Crash
  \/ StartProvider \/ RunRulepack \/ RunAxe \/ RunWalk \/ AttachRows
  \/ Final \/ ReadBlocked \/ Close \/ MarkUnseen

ScanNext == Step \/ PageStep \/ FrameStep \/ TrafficStep \/ HearingStep

(* ----------------------------- properties ------------------------------ *)

Clean == scan.pc = "done" /\ scan.gaps = {} /\ ~scan.unsure

\* A screen that goes to the gate with no gap and nothing unverified was
\* measured whole: every provider ended, none that needs the loaded page ran
\* after one that changes it, Tab got to the end of the page, axe ran in every
\* visible frame, and nothing the browser had reported left the judge's filter.
CleanIsWhole ==
  Clean => /\ scan.kind = "full" /\ scan.finished = ProviderIds /\ ~scan.dirty
           /\ keys.reason = "complete"
           /\ ~scan.missed
           /\ judged.leaked => scan.unheard

\* A session the server no longer accepts measures nothing: once a refusal was
\* recorded before the last reads, or where the surface says which data proves
\* the screen, no draft and no clean screen comes of it.
ExpiredMeasuresNothing ==
  scan.pc = "done" /\ world.session = "expired" /\ (scan.refusedBy \/ DeclaresResponse)
    => scan.drafts = {} /\ scan.gaps # {}

\* Findings are kept only from a screen that showed what the surface declares
\* when the walk began and when the checks ended, after a wait that ended
\* because it held; and a response it declares was sent for on load.
KeptWasThere ==
  scan.pc = "done" /\ scan.drafts # {} =>
    /\ DeclaresSelector => Matches(scan.walked) /\ Matches(scan.ended) /\ scan.outcome = "held"
    /\ DeclaresResponse => \E i \in DOMAIN net.log :
         net.log[i].early /\ net.log[i].kind = "ok" /\ net.log[i].addr \in Declared

\* Every scan ends, whatever the page does: no wait in it is unbounded.
ScanEnds == (scan.pc = "open") ~> (scan.pc \in {"done", "refused"})
=============================================================================
