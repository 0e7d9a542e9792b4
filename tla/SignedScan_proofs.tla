------------------------- MODULE SignedScan_proofs -------------------------
(***************************************************************************)
(* Proofs about the session a scan signs in with, for every number of      *)
(* sign-ins at once, every file that can be left or named and any number   *)
(* of edits; and about the scan itself, for any page, session and order of *)
(* providers.                                                              *)
(***************************************************************************)
EXTENDS SignedScan, TLAPS

Steps == {"idle", "browser", "look", "write", "rename"}

TypeInv ==
  /\ place \in {"desk", "runner"}
  /\ saved \in Files
  /\ signing \in [SignIns -> [pc: Steps, state: Contents, edited: BOOLEAN]]

\* Who can have left the saved file.
LeftBy ==
  /\ saved.by = "nobody" => saved.kind = "absent"
  /\ place = "desk" => saved.by # "head"

\* A sign-in that has read its browser holds a session, and past its second
\* look the rules are those it saw, or it is marked.
Holding ==
  \A p \in SignIns :
    /\ signing[p].pc \in {"look", "write", "rename"} => signing[p].state # Nothing
    /\ signing[p].pc \in {"write", "rename"} => signing[p].edited \/ ~IgnoreProblem(git)

IInv == TypeInv /\ LeftBy /\ Holding /\ SessionIsVouched

\* A cookie that expires stays in the file.
LEMMA AgedKeeps ==
  ASSUME NEW s \in Contents
  PROVE  Aged(s) \in Contents /\ (s # Nothing => Aged(s) # Nothing)
<1> DEFINE cookies == {IF c = "live" THEN "past" ELSE c : c \in s.cookies}
<1>1. Aged(s) = [cookies |-> cookies, others |-> s.others]
  BY DEF Aged, Contents
<1>2. cookies \subseteq {"live", "past", "undated"}
  BY DEF Contents
<1>3. s.cookies # {} => cookies # {}
  OBVIOUS
<1>4. s # Nothing => s.cookies # {} \/ s.others # {}
  BY DEF Contents, Nothing
<1> QED
  BY <1>1, <1>2, <1>3, <1>4 DEF Contents, Nothing

LEMMA NothingTyped == Nothing \in Contents /\ NoFile \in Files
  BY DEF Nothing, Contents, NoFile, Files, FileKinds

LEMMA InitHolds == Init => IInv
<1> SUFFICES ASSUME Init PROVE IInv
  OBVIOUS
<1>1. /\ place \in {"desk", "runner"} /\ saved = NoFile /\ use = NoUse
      /\ signing = [p \in SignIns |-> Idle]
  BY DEF Init, SignInit
<1>2. TypeInv
  BY <1>1, NothingTyped DEF TypeInv, Idle, Steps
<1> QED
  BY <1>1, <1>2 DEF IInv, LeftBy, Holding, SessionIsVouched, NoFile, NoUse, Idle

\* One process of `usabl session` takes a step.
LEMMA SessionStepKeeps == IInv /\ SessionStep => IInv'
<1> SUFFICES ASSUME IInv, SessionStep PROVE IInv'
  OBVIOUS
<1> USE SignInAssumption
<1>1. PICK p \in SignIns :
        Start(p) \/ Confirm(p) \/ Look(p) \/ WriteTemporary(p) \/ Rename(p) \/ GivesUp(p)
  BY DEF SessionStep
<1>2. UNCHANGED <<place, use>>
  BY DEF SessionStep
<1>3. ASSUME UNCHANGED <<saved, git>>,
             NEW next \in [pc: Steps, state: Contents, edited: BOOLEAN],
             signing' = [signing EXCEPT ![p] = next],
             next.pc \in {"look", "write", "rename"} => next.state # Nothing,
             next.pc \in {"write", "rename"} => next.edited \/ ~IgnoreProblem(git)
      PROVE  IInv'
  <2>1. TypeInv'
    BY <1>2, <1>3 DEF IInv, TypeInv
  <2>2. Holding'
    BY <1>3 DEF IInv, Holding, TypeInv, IgnoreProblem
  <2> QED
    BY <1>2, <1>3, <2>1, <2>2 DEF IInv, LeftBy, SessionIsVouched
<1>4. Idle \in [pc: Steps, state: Contents, edited: BOOLEAN] /\ Idle.pc = "idle"
  BY NothingTyped DEF Idle, Steps
<1>5. CASE Start(p)
  <2>1. signing' = [signing EXCEPT ![p] = [signing[p] EXCEPT !.pc = "browser"]]
    BY <1>5 DEF Start, To, IInv, TypeInv
  <2> QED
    BY <1>3, <1>5, <2>1 DEF Start, IInv, TypeInv, Steps
<1>6. CASE Confirm(p)
  <2>1. PICK s \in Captures :
          IF s.cookies = {} /\ "site" \notin s.others THEN Quits(p)
          ELSE signing' = [signing EXCEPT ![p] = [pc |-> "look", state |-> s, edited |-> FALSE]]
    BY <1>6 DEF Confirm
  <2>2. CASE s.cookies = {} /\ "site" \notin s.others
    BY <1>3, <1>4, <1>6, <2>1, <2>2 DEF Confirm, Quits
  <2>3. CASE ~(s.cookies = {} /\ "site" \notin s.others)
    <3>1. s \in Contents /\ s # Nothing
      BY <2>3 DEF Nothing
    <3> QED
      BY <1>3, <1>6, <2>1, <2>3, <3>1 DEF Confirm, Steps
  <2> QED
    BY <2>2, <2>3
<1>7. CASE Look(p)
  <2>1. CASE IgnoreProblem(git)
    BY <1>3, <1>4, <1>7, <2>1 DEF Look, Quits
  <2>2. CASE ~IgnoreProblem(git)
    <3>1. signing' = [signing EXCEPT ![p] = [signing[p] EXCEPT !.pc = "write", !.edited = FALSE]]
      BY <1>7, <2>2 DEF Look, IInv, TypeInv
    <3> QED
      BY <1>3, <1>7, <2>2, <3>1 DEF Look, At, IInv, TypeInv, Holding, Steps
  <2> QED
    BY <2>1, <2>2
<1>8. CASE WriteTemporary(p)
  <2>1. signing' = [signing EXCEPT ![p] = [signing[p] EXCEPT !.pc = "rename"]]
    BY <1>8 DEF WriteTemporary, To, IInv, TypeInv
  <2> QED
    BY <1>3, <1>8, <2>1 DEF WriteTemporary, At, IInv, TypeInv, Holding, Steps
<1>9. CASE Rename(p)
  <2>1. /\ signing[p].state \in Contents /\ signing[p].state # Nothing
        /\ signing[p].edited \in BOOLEAN /\ (signing[p].edited \/ ~IgnoreProblem(git))
    BY <1>9 DEF Rename, At, IInv, TypeInv, Holding
  <2>2. saved' = [kind |-> "state", state |-> signing[p].state, private |-> TRUE, by |-> "usabl",
                  exposed |-> FALSE]
    BY <1>9, <2>1 DEF Rename
  <2>3. saved' \in Files
    BY <2>1, <2>2 DEF Files, FileKinds
  <2>4. signing' = [signing EXCEPT ![p] = Idle] /\ git' = git
    BY <1>9 DEF Rename, Quits
  <2>5. TypeInv' /\ LeftBy'
    BY <1>2, <1>4, <2>2, <2>3, <2>4 DEF IInv, TypeInv, LeftBy
  <2>6. Holding'
    BY <1>4, <2>4 DEF IInv, Holding, TypeInv, IgnoreProblem
  <2> QED
    BY <1>2, <2>1, <2>2, <2>5, <2>6 DEF IInv, SessionIsVouched
<1>10. CASE GivesUp(p)
  BY <1>3, <1>4, <1>10 DEF GivesUp, Quits
<1> QED
  BY <1>1, <1>5, <1>6, <1>7, <1>8, <1>9, <1>10

\* People, or the code under review, edit beside the processes, and time passes.
LEMMA BesideKeeps == IInv /\ (EditRules \/ PutFile \/ TimePasses) => IInv'
<1> SUFFICES ASSUME IInv, EditRules \/ PutFile \/ TimePasses PROVE IInv'
  OBVIOUS
<1> USE SignInAssumption
<1>1. CASE EditRules
  <2>1. signing' = [p \in SignIns |-> [signing[p] EXCEPT !.edited = signing[p].pc \notin {"idle", "browser"}]]
    BY <1>1 DEF EditRules
  <2>2. ASSUME NEW p \in SignIns
        PROVE  [signing[p] EXCEPT !.edited = signing[p].pc \notin {"idle", "browser"}]
                 \in [pc: Steps, state: Contents, edited: BOOLEAN]
    <3>1. (signing[p].pc \notin {"idle", "browser"}) \in BOOLEAN
      OBVIOUS
    <3> QED
      BY <3>1 DEF IInv, TypeInv
  <2>3. UNCHANGED <<place, saved, use>>
    BY <1>1 DEF EditRules
  <2>4. TypeInv'
    BY <2>1, <2>2, <2>3 DEF IInv, TypeInv
  <2>5. Holding'
    BY <2>1 DEF IInv, TypeInv, Holding
  <2> QED
    BY <2>3, <2>4, <2>5 DEF IInv, LeftBy, SessionIsVouched
<1>2. CASE PutFile
  <2>1. PICK f \in Placed : saved' = [f EXCEPT !.by = IF place = "desk" THEN "hand" ELSE "head"]
    BY <1>2 DEF PutFile
  <2>2. saved' \in Files /\ saved'.by = IF place = "desk" THEN "hand" ELSE "head"
    BY <2>1 DEF Files
  <2>3. UNCHANGED <<place, git, signing, use>>
    BY <1>2 DEF PutFile
  <2> QED
    BY <2>2, <2>3 DEF IInv, TypeInv, LeftBy, Holding, SessionIsVouched, IgnoreProblem
<1>3. CASE TimePasses
  <2>1. /\ saved' = [saved EXCEPT !.state = Aged(@)]
        /\ signing' = [p \in SignIns |-> [signing[p] EXCEPT !.state = Aged(@)]]
        /\ UNCHANGED <<place, git, use>>
    BY <1>3 DEF TimePasses
  <2>2. saved.state \in Contents /\ \A p \in SignIns : signing[p].state \in Contents
    BY DEF IInv, TypeInv, Files
  <2>3. /\ saved' \in Files /\ saved'.state = Aged(saved.state)
        /\ saved'.kind = saved.kind /\ saved'.by = saved.by
        /\ saved'.private = saved.private /\ saved'.exposed = saved.exposed
    BY <2>1, <2>2, AgedKeeps DEF IInv, TypeInv, Files
  <2>4. \A p \in SignIns : /\ signing'[p].pc = signing[p].pc /\ signing'[p].edited = signing[p].edited
                           /\ signing'[p].state = Aged(signing[p].state)
    BY <2>1 DEF IInv, TypeInv
  <2>5. TypeInv'
    BY <2>1, <2>2, <2>3, AgedKeeps DEF IInv, TypeInv
  <2>6. Holding'
    BY <2>1, <2>2, <2>4, AgedKeeps DEF IInv, Holding, IgnoreProblem
  <2>7. LeftBy' /\ SessionIsVouched'
    BY <2>1, <2>2, <2>3, AgedKeeps DEF IInv, LeftBy, SessionIsVouched
  <2> QED
    BY <2>5, <2>6, <2>7 DEF IInv
<1> QED
  BY <1>1, <1>2, <1>3

\* A run chooses its session: a saved one only at a desk, where nobody but a
\* person leaves a file.
LEMMA ResolveKeeps == IInv /\ Resolve => IInv'
<1> SUFFICES ASSUME IInv, Resolve PROVE IInv'
  OBVIOUS
<1>1. UNCHANGED <<place, saved, git, signing>>
  BY DEF Resolve
<1>2. PICK trusted \in BOOLEAN :
        use' = [pc |-> IF Resolved(trusted) = "stop" THEN "stopped" ELSE "resolved",
                from |-> Resolved(trusted), trusted |-> trusted, file |-> saved]
  BY DEF Resolve
<1>3. Resolved(trusted) = "saved" => ~trusted /\ place # "runner" /\ saved.kind # "absent"
  BY DEF Resolved, SavedIsBlocked
<1>4. Resolved(trusted) = "saved" => saved.by \in {"usabl", "hand"}
  BY <1>3 DEF IInv, TypeInv, LeftBy, Files
<1> QED
  BY <1>1, <1>2, <1>3, <1>4 DEF IInv, TypeInv, LeftBy, Holding, SessionIsVouched, IgnoreProblem

\* The scan begins, and the sign-in is over.
LEMMA BeginKeeps == ASSUME IInv, NEW W, Begin(W) PROVE IInv'
<1>1. /\ place' = "desk" /\ saved' = NoFile /\ signing' = [p \in SignIns |-> Idle]
      /\ use' = [NoUse EXCEPT !.pc = "scanning"]
  BY DEF Begin
<1>2. TypeInv'
  BY <1>1, NothingTyped DEF TypeInv, Idle, Steps
<1> QED
  BY <1>1, <1>2 DEF IInv, LeftBy, Holding, SessionIsVouched, NoFile, NoUse, Idle

\* IInv is inductive, whatever the page does.
THEOREM Invariance == Spec => []IInv
<1>1. Init => IInv
  BY InitHolds
<1>2. IInv /\ [Next]_allVars => IInv'
  <2> SUFFICES ASSUME IInv, [Next]_allVars PROVE IInv'
    OBVIOUS
  <2>1. CASE UNCHANGED signVars
    BY <2>1 DEF signVars, IInv, TypeInv, LeftBy, Holding, SessionIsVouched, IgnoreProblem
  <2>2. CASE SignNext
    BY <2>2, SessionStepKeeps, BesideKeeps, ResolveKeeps DEF SignNext
  <2>3. CASE BeginRun \/ BeginFails \/ BeginPage
    BY <2>3, BeginKeeps DEF BeginRun, BeginFails, BeginPage
  <2> QED
    BY <2>1, <2>2, <2>3 DEF Next, Before, Ended, allVars
<1> QED
  BY <1>1, <1>2, PTL DEF Spec

\* The file usabl leaves is one whole session that git cannot take, and no run
\* signs in with what the code under review could have left.
THEOREM SessionVouched == Spec => []SessionIsVouched
  BY Invariance, PTL DEF IInv

\* Doctor and the next run agree about the session.
THEOREM DoctorAndRunAgree == Spec => []DoctorAgrees
<1>1. TypeInv => DoctorAgrees
  <2> SUFFICES ASSUME place = "desk" PROVE DoctorAgrees
    BY DEF DoctorAgrees
  <2>1. CASE named.kind # "unset"
    BY <2>1 DEF DoctorAgrees, Doctor, Resolved, NamedDrifted, CommittableOrShared
  <2>2. CASE named.kind = "unset"
    BY <2>2 DEF DoctorAgrees, Doctor, Resolved, SavedDrifted, SavedIsBlocked, CommittableOrShared
  <2> QED
    BY <2>1, <2>2
<1>2. IInv => TypeInv
  BY DEF IInv
<1> QED
  BY <1>1, <1>2, Invariance, PTL
-----------------------------------------------------------------------------
(***************************************************************************)
(* The scan.  Its inductive invariant has three parts, one for each of the *)
(* three properties: what is kept is of a walk that began on the screen, a *)
(* refused session leaves a gap or an unseen part, and each provider is    *)
(* ended, waiting or named in a gap.                                       *)
(***************************************************************************)
Checking == {"providers", "rulepack", "axe", "walk-keys"}
Ending == {"blocked", "closing", "unseen", "done"}

Entries == [addr: AppAddrs, kind: Kinds, early: BOOLEAN]
Nets == [open: SUBSET [addr: AppAddrs, early: BOOLEAN], log: Seq(Entries), idle: Nat,
         installing: BOOLEAN, marked: BOOLEAN]

\* The records have the fields they began with.
Shapes ==
  /\ net \in Nets /\ scan.todo \in Seq(ProviderIds)
  /\ scan = [pc |-> scan.pc, then |-> scan.then, obs |-> scan.obs, outcome |-> scan.outcome, todo |-> scan.todo,
             mutated |-> scan.mutated, finished |-> scan.finished, drafts |-> scan.drafts,
             unsure |-> scan.unsure, stops |-> scan.stops, parts |-> scan.parts, gaps |-> scan.gaps,
             kind |-> scan.kind, walked |-> scan.walked, ended |-> scan.ended, missed |-> scan.missed,
             dirty |-> scan.dirty, refusedBy |-> scan.refusedBy, unheard |-> scan.unheard]
  /\ scan.obs = [away |-> scan.obs.away, password |-> scan.obs.password, seen |-> scan.obs.seen,
                 selector |-> scan.obs.selector, response |-> scan.obs.response]

\* Nothing is of a screen before the scan of it begins.
NotBegun ==
  scan.pc = "waiting" =>
    /\ use.pc # "scanning" /\ net = QuietNet /\ axe = NoRun /\ keys = NoKeys /\ judged = NoTraffic
    /\ scan.finished = {} /\ ~scan.missed

\* A provider that runs is the next one.
ProviderIsNext ==
  scan.pc \in {"rulepack", "axe", "walk-keys"} =>
    scan.todo # <<>> /\ scan.pc = (IF Head(scan.todo) = "walk" THEN "walk-keys" ELSE Head(scan.todo))

DraftsAreOfAWalk == scan.drafts # {} => scan.pc \in Checking \cup {"final"} \cup Ending

\* Where a selector is declared, what goes on after the landing held it.
WalkedHeld ==
  DeclaresSelector /\ (scan.pc \in Checking \cup {"walk", "final"} \/ scan.drafts # {}) =>
    scan.outcome = "held" /\ scan.obs.selector = {TRUE} /\ Matches(scan.walked)

\* Until the screens are marked, a part that was not seen stands beside the
\* drafts; then they are gone.
KeptShowed ==
  scan.pc \in Ending /\ scan.drafts # {} =>
    /\ scan.pc = "done" => FALSE \notin scan.parts
    /\ FALSE \notin scan.parts =>
         /\ DeclaresSelector => Matches(scan.ended)
         /\ DeclaresResponse => ResponseSeen(net.log, Declared)

Kept == DraftsAreOfAWalk /\ WalkedHeld /\ KeptShowed

\* checkPage signs in with nothing, and an expired session gets no data but at
\* an address it was refused.
OnlyRunsSignIn == world.session = "expired" => Cli
DataAfterRefusal ==
  world.session = "expired" =>
    \A i \in DOMAIN net.log : net.log[i].kind = "ok" => net.log[i].addr \in Refused(net.log)

RefusalShows ==
  /\ scan.refusedBy => scan.pc \in Ending
  /\ scan.pc \in Ending /\ world.session = "expired" /\ (scan.refusedBy \/ DeclaresResponse) =>
       (scan.drafts = {} /\ scan.gaps # {}) \/ (scan.pc # "done" /\ FALSE \in scan.parts)

Expired == OnlyRunsSignIn /\ DataAfterRefusal /\ RefusalShows

\* A visible frame that axe did not run in is a gap, or about to be one.
FramesNamed ==
  /\ axe = [pc |-> axe.pc, stack |-> axe.stack, reached |-> axe.reached, disclosed |-> axe.disclosed,
            unchecked |-> axe.unchecked]
  /\ axe.disclosed # {} => axe.unchecked
  /\ TreesAnswer /\ scan.missed => scan.gaps # {} \/ (scan.pc = "axe" /\ axe.pc = "done" /\ axe.unchecked)

\* A keyboard walk that ended anywhere but at the end of the page is unsure.
WalkedToTheEnd ==
  /\ keys = [pc |-> keys.pc, walked |-> keys.walked, presses |-> keys.presses, reason |-> keys.reason,
             trap |-> keys.trap, unsure |-> keys.unsure]
  /\ keys.pc = "done" => keys.unsure \/ keys.reason = "complete"
  /\ "walk" \in scan.finished /\ scan.pc # "walk-keys" => scan.unsure \/ keys.reason = "complete"

\* The configuration names every provider.
EveryProviderRuns == \A p \in ProviderIds : \E i \in DOMAIN Ordered : Ordered[i] = p

Early == {"sample", "password", "selector", "after", "deadline", "walk"}
InTodo(p) == \E i \in DOMAIN scan.todo : scan.todo[i] = p

\* With no gap, every provider has ended or is still to run.
Accounted ==
  /\ ~scan.dirty /\ scan.finished \subseteq ProviderIds
  /\ scan.pc \in Early => scan.todo = Ordered
  /\ scan.gaps = {} /\ scan.pc = "done" => FALSE \notin scan.parts
  /\ EveryProviderRuns /\ scan.gaps = {} =>
       /\ scan.pc \in Checking => \A p \in ProviderIds : p \in scan.finished \/ InTodo(p)
       /\ scan.pc = "final" => ProviderIds \subseteq scan.finished
       /\ scan.pc \in Ending /\ FALSE \notin scan.parts => scan.kind = "full" /\ ProviderIds \subseteq scan.finished

\* What left the page is caught, or a report of it is on its way, or it went
\* through a worker that nobody watches.
Traffic ==
  /\ judged = [worker |-> judged.worker, reports |-> judged.reports, known |-> judged.known,
               watched |-> judged.watched, pending |-> judged.pending, caught |-> judged.caught,
               leaked |-> judged.leaked]
  /\ judged.watched \/ "enabled" \in judged.reports => judged.worker = "watched"
  /\ "attached" \in judged.reports => judged.worker = "held"
  /\ judged.worker \in {"held", "asked", "free"} => judged.known \/ "created" \in judged.reports
  /\ judged.leaked => /\ world.isolated
                      /\ \/ judged.caught \/ judged.pending \/ judged.worker = "free"
                         \/ {"hop", "answer", "shared", "socket"} \cap judged.reports # {}

\* A leak is a gap once the reports are read, but for what came too late.
LeakShows ==
  scan.pc \in {"closing", "unseen", "done"} /\ scan.gaps = {} /\ judged.leaked => scan.unheard

Whole == FramesNamed /\ WalkedToTheEnd /\ Accounted /\ Traffic /\ LeakShows

ScanInv == Shapes /\ NotBegun /\ ProviderIsNext /\ Kept /\ Expired /\ Whole

LEMMA ScanStarts == Init => ScanInv
<1> SUFFICES ASSUME Init PROVE ScanInv
  OBVIOUS
<1>1. /\ use.pc = "none" /\ scan = Waiting /\ net = QuietNet /\ axe = NoRun /\ keys = NoKeys /\ judged = NoTraffic
      /\ world.session = "none"
  BY DEF Init, SignInit, NoUse
<1>2. scan.pc = "waiting" /\ scan.drafts = {} /\ scan.refusedBy = FALSE /\ scan.finished = {} /\ scan.missed = FALSE
  BY <1>1 DEF Waiting, NewScan
<1>3. Shapes
  <2>1. net \in Nets
    BY <1>1 DEF QuietNet, Nets, Entries
  <2>2. scan.todo \in Seq(ProviderIds)
    BY <1>1 DEF Waiting, NewScan
  <2> QED
    BY <1>1, <2>1, <2>2 DEF Shapes, Waiting, NewScan, NoObs
<1>4. FramesNamed /\ WalkedToTheEnd /\ Traffic
  BY <1>1 DEF FramesNamed, WalkedToTheEnd, Traffic, NoRun, NoKeys, NoTraffic, Waiting, NewScan
<1>5. Accounted /\ LeakShows
  BY <1>1 DEF Accounted, LeakShows, Checking, Ending, Early, Waiting, NewScan
<1> QED
  BY <1>1, <1>2, <1>3, <1>4, <1>5 DEF ScanInv, NotBegun, ProviderIsNext, Kept, DraftsAreOfAWalk, WalkedHeld,
     KeptShowed, Expired, OnlyRunsSignIn, DataAfterRefusal, RefusalShows, Checking, Ending, Whole

\* What a step that leaves the providers' part of the scan must bring.
LEMMA WholeStays ==
  ASSUME ScanInv, UNCHANGED <<world, axe, keys, judged>>, scan'.finished = scan.finished,
         scan'.missed = scan.missed, scan.unsure => scan'.unsure, scan'.dirty = scan.dirty,
         scan.gaps # {} => scan'.gaps # {},
         scan.pc \notin {"axe", "walk-keys"}, scan'.pc # "walk-keys"
  PROVE  FramesNamed' /\ WalkedToTheEnd' /\ Traffic' /\ ~scan'.dirty /\ scan'.finished \subseteq ProviderIds
  BY DEF ScanInv, Whole, FramesNamed, WalkedToTheEnd, Traffic, Accounted

LEMMA OpenKeeps == ASSUME ScanInv, Open PROVE ScanInv'
<1>1. UNCHANGED <<world, net, axe, keys, judged>> /\ scan.pc = "open"
  BY DEF Open
<1>2. PICK next \in {"sample", "providers"} :
        /\ next = "providers" => ~DeclaresSelector
        /\ \/ scan' = [scan EXCEPT !.todo = Ordered, !.pc = next]
           \/ scan' = [scan EXCEPT !.kind = "failed", !.gaps = scan.gaps \cup {"open"}, !.pc = "unseen"]
           \/ scan' = [scan EXCEPT !.pc = "refused"]
  <2>1. PICK next : next = IF Cli \/ world.signal # "none" THEN "sample" ELSE "providers"
    OBVIOUS
  <2> QED
    BY <2>1 DEF Open, ScanInv, Shapes, EndWith, Go, DeclaresSelector
<1>8. /\ scan'.drafts = scan.drafts /\ scan'.refusedBy = scan.refusedBy /\ scan'.obs = scan.obs
      /\ scan'.parts = scan.parts /\ scan'.outcome = scan.outcome
      /\ scan'.finished = scan.finished /\ scan'.missed = scan.missed /\ scan'.unsure = scan.unsure
      /\ scan'.dirty = scan.dirty /\ scan.gaps \subseteq scan'.gaps
      /\ \/ scan'.pc = "sample" /\ scan'.todo = Ordered
         \/ scan'.pc = "providers" /\ ~DeclaresSelector /\ scan'.todo = Ordered
         \/ scan'.pc = "refused"
         \/ scan'.pc = "unseen" /\ scan'.gaps # {}
  BY <1>2 DEF ScanInv, Shapes
<1>3. Shapes'
  BY <1>1, <1>2, ProvidersAssumption DEF ScanInv, Shapes
<1>4. Kept'
  BY <1>1, <1>8 DEF ScanInv, Kept, DraftsAreOfAWalk, WalkedHeld, KeptShowed, Checking, Ending, DeclaresSelector
<1>5. Expired'
  BY <1>1, <1>8 DEF ScanInv, Kept, DraftsAreOfAWalk, Expired, OnlyRunsSignIn, DataAfterRefusal, RefusalShows,
     Checking, Ending, Cli
<1>6. FramesNamed' /\ WalkedToTheEnd' /\ Traffic' /\ ~scan'.dirty /\ scan'.finished \subseteq ProviderIds
  BY <1>1, <1>8, WholeStays
<1>7. Accounted' /\ LeakShows'
  BY <1>6, <1>8 DEF Accounted, LeakShows, EveryProviderRuns, InTodo, Early, Checking, Ending
<1> QED
  BY <1>1, <1>8, <1>3, <1>4, <1>5, <1>6, <1>7 DEF ScanInv, NotBegun, ProviderIsNext, Whole

\* A step leaves what the providers did, and takes no gap back.
SameWork ==
  /\ scan'.todo = scan.todo /\ scan'.finished = scan.finished /\ scan'.missed = scan.missed
  /\ scan'.unsure = scan.unsure /\ scan'.dirty = scan.dirty /\ scan.gaps \subseteq scan'.gaps

\* A step between the first sample of the page and the walk: it goes on, it ends
\* with a gap or an unseen part, or the walk begins on a screen that held.
LEMMA BeforeTheWalk ==
  ASSUME ScanInv, Shapes', UNCHANGED <<world, axe, keys, judged>>, net'.log = net.log, SameWork,
         scan.pc \in {"sample", "password", "selector", "after", "deadline"},
         scan'.drafts = scan.drafts, scan'.refusedBy = scan.refusedBy,
         \/ scan'.pc \in {"sample", "password", "selector", "after", "deadline"}
         \/ scan'.pc = "blocked" /\ (scan'.gaps # {} \/ FALSE \in scan'.parts)
         \/ /\ scan'.pc \in {"walk", "providers"}
            /\ DeclaresSelector =>
                 scan'.outcome = "held" /\ scan'.obs.selector = {TRUE} /\ Matches(scan'.walked)
  PROVE  ScanInv'
<1>1. scan.drafts = {} /\ ~scan.refusedBy
  BY DEF ScanInv, Kept, DraftsAreOfAWalk, Expired, RefusalShows, Checking, Ending
<1>2. Kept'
  BY <1>1 DEF ScanInv, Kept, DraftsAreOfAWalk, WalkedHeld, KeptShowed, Checking, Ending, DeclaresSelector
<1>3. DataAfterRefusal'
  BY DEF ScanInv, Expired, DataAfterRefusal, Refused
<1>4. Expired'
  BY <1>1, <1>3 DEF ScanInv, Expired, OnlyRunsSignIn, RefusalShows, Checking, Ending, Cli
<1>5. FramesNamed' /\ WalkedToTheEnd' /\ Traffic' /\ ~scan'.dirty /\ scan'.finished \subseteq ProviderIds
  BY WholeStays DEF SameWork
<1>6. scan'.todo = Ordered
  BY DEF SameWork, ScanInv, Whole, Accounted, Early
<1>7. Accounted' /\ LeakShows'
  BY <1>5, <1>6 DEF Accounted, LeakShows, EveryProviderRuns, InTodo, Early, Checking, Ending
<1> QED
  BY <1>2, <1>4, <1>5, <1>7 DEF ScanInv, NotBegun, ProviderIsNext, Whole

\* An observation begins with the address.
LEMMA Observing ==
  ASSUME Shapes, net' \in Nets, NEW then, NEW outcome,
         scan' = Observe(then) \/ scan' = [Observe(then) EXCEPT !.outcome = outcome]
  PROVE  Shapes' /\ SameWork /\ scan'.drafts = scan.drafts /\ scan'.refusedBy = scan.refusedBy /\ scan'.pc = "password"
<1>1. PICK away : away = Away(dom.shows)
  OBVIOUS
<1>2. Observe(then) = [scan EXCEPT !.pc = "password", !.then = then, !.obs = [NoObs EXCEPT !.away = away]]
  BY <1>1 DEF Observe
<1>3. PICK no : no = FALSE
  OBVIOUS
<1>4. NoObs = [away |-> no, password |-> no, seen |-> 0, selector |-> {}, response |-> {}]
  BY <1>3 DEF NoObs
<1>5. PICK obs : obs = [away |-> away, password |-> no, seen |-> 0, selector |-> {}, response |-> {}]
  OBVIOUS
<1>7. [NoObs EXCEPT !.away = away] = obs
  BY <1>4, <1>5
<1>8. obs = [away |-> obs.away, password |-> obs.password, seen |-> obs.seen, selector |-> obs.selector,
             response |-> obs.response]
  BY <1>5
<1>6. \/ scan' = [scan EXCEPT !.pc = "password", !.then = then, !.obs = obs]
      \/ scan' = [scan EXCEPT !.pc = "password", !.then = then, !.obs = obs, !.outcome = outcome]
  BY <1>2, <1>7 DEF Shapes
<1>9. PICK end : scan' = [scan EXCEPT !.pc = "password", !.then = then, !.obs = obs, !.outcome = end]
  <2>1. CASE scan' = [scan EXCEPT !.pc = "password", !.then = then, !.obs = obs]
    <3>1. scan' = [scan EXCEPT !.pc = "password", !.then = then, !.obs = obs, !.outcome = scan.outcome]
      BY <2>1 DEF Shapes
    <3> QED
      BY <3>1
  <2> QED
    BY <1>6, <2>1
<1>10. scan' = [pc |-> "password", then |-> then, obs |-> obs, outcome |-> end, todo |-> scan.todo,
                mutated |-> scan.mutated, finished |-> scan.finished, drafts |-> scan.drafts,
                unsure |-> scan.unsure, stops |-> scan.stops, parts |-> scan.parts, gaps |-> scan.gaps,
                kind |-> scan.kind, walked |-> scan.walked, ended |-> scan.ended, missed |-> scan.missed,
                dirty |-> scan.dirty, refusedBy |-> scan.refusedBy, unheard |-> scan.unheard]
  BY <1>9 DEF Shapes
<1>11. scan'.obs = obs /\ scan'.todo = scan.todo
  BY <1>10
<1>12. Shapes'
  BY <1>8, <1>10, <1>11 DEF Shapes
<1>13. SameWork
  BY <1>10 DEF SameWork
<1> QED
  BY <1>10, <1>12, <1>13

LEMMA SampleKeeps == ASSUME ScanInv, Sample PROVE ScanInv'
<1>1. UNCHANGED <<world, net, axe, keys, judged>> /\ scan.pc = "sample"
  BY DEF Sample
<1>2. CASE Go("deadline")
  <2>1. Shapes' /\ SameWork /\ scan'.drafts = scan.drafts /\ scan'.refusedBy = scan.refusedBy /\ scan'.pc = "deadline"
    BY <1>1, <1>2 DEF ScanInv, Shapes, Go, SameWork
  <2> QED
    BY <1>1, <2>1, BeforeTheWalk
<1>3. CASE scan' = Observe("probe") \/ WaitEnds("not-declared")
  <2>1. Shapes' /\ SameWork /\ scan'.drafts = scan.drafts /\ scan'.refusedBy = scan.refusedBy /\ scan'.pc = "password"
    BY <1>1, <1>3, Observing DEF ScanInv, Shapes, WaitEnds, SameWork
  <2> QED
    BY <1>1, <2>1, BeforeTheWalk
<1> QED
  BY <1>2, <1>3 DEF Sample

LEMMA ReadPasswordKeeps == ASSUME ScanInv, ReadPassword PROVE ScanInv'
<1>1. UNCHANGED <<world, net, axe, keys, judged>> /\ scan.pc = "password"
  BY DEF ReadPassword
<1>2. Shapes' /\ SameWork /\ scan'.drafts = scan.drafts /\ scan'.refusedBy = scan.refusedBy /\ scan'.pc = "selector"
  BY <1>1 DEF ReadPassword, ScanInv, Shapes, SameWork
<1> QED
  BY <1>1, <1>2, BeforeTheWalk

\* Waiting changes only the quiet time.
LEMMA PassTimeKeepsTheLog == ASSUME net \in Nets, PassTime PROVE net' \in Nets /\ net'.log = net.log
<1>1. net' = [net EXCEPT !.idle = IF Busy \/ net.idle = QuietWindow THEN net.idle ELSE net.idle + 1]
  BY DEF PassTime
<1>2. (IF Busy \/ net.idle = QuietWindow THEN net.idle ELSE net.idle + 1) \in Nat
  BY DEF Nets
<1> QED
  BY <1>1, <1>2 DEF Nets

LEMMA ProbeReadKeeps == ASSUME ScanInv, ProbeRead PROVE ScanInv'
<1>1. UNCHANGED <<world, axe, keys, judged>> /\ scan.pc = "selector" /\ net' \in Nets /\ net'.log = net.log
  BY PassTimeKeepsTheLog DEF ProbeRead, ScanInv, Shapes
<1>2. Shapes' /\ SameWork /\ scan'.drafts = scan.drafts /\ scan'.refusedBy = scan.refusedBy
      /\ scan'.pc \in {"after", "deadline"}
  BY <1>1 DEF ProbeRead, ScanInv, Shapes, Go, SameWork
<1> QED
  BY <1>1, <1>2, BeforeTheWalk

LEMMA AfterProbeKeeps == ASSUME ScanInv, AfterProbe PROVE ScanInv'
<1>1. UNCHANGED <<world, net, axe, keys, judged>> /\ scan.pc = "after"
  BY DEF AfterProbe
<1>2. CASE WaitEnds("held")
  <2>1. Shapes' /\ SameWork /\ scan'.drafts = scan.drafts /\ scan'.refusedBy = scan.refusedBy /\ scan'.pc = "password"
    BY <1>1, <1>2, Observing DEF ScanInv, Shapes, WaitEnds, SameWork
  <2> QED
    BY <1>1, <2>1, BeforeTheWalk
<1>3. CASE Go("deadline")
  <2>1. Shapes' /\ SameWork /\ scan'.drafts = scan.drafts /\ scan'.refusedBy = scan.refusedBy /\ scan'.pc = "deadline"
    BY <1>1, <1>3 DEF ScanInv, Shapes, Go, SameWork
  <2> QED
    BY <1>1, <2>1, BeforeTheWalk
<1> QED
  BY <1>2, <1>3 DEF AfterProbe

LEMMA DeadlineKeeps == ASSUME ScanInv, Deadline PROVE ScanInv'
<1>1. UNCHANGED <<world, axe, keys, judged>> /\ scan.pc = "deadline" /\ net' \in Nets /\ net'.log = net.log
  BY PassTimeKeepsTheLog DEF Deadline, ScanInv, Shapes
<1>2. CASE WaitEnds("timed-out")
  <2>1. Shapes' /\ SameWork /\ scan'.drafts = scan.drafts /\ scan'.refusedBy = scan.refusedBy /\ scan'.pc = "password"
    BY <1>1, <1>2, Observing DEF ScanInv, Shapes, WaitEnds, SameWork
  <2> QED
    BY <1>1, <2>1, BeforeTheWalk
<1>3. CASE Go("sample")
  <2>1. Shapes' /\ SameWork /\ scan'.drafts = scan.drafts /\ scan'.refusedBy = scan.refusedBy /\ scan'.pc = "sample"
    BY <1>1, <1>3 DEF ScanInv, Shapes, Go, SameWork
  <2> QED
    BY <1>1, <2>1, BeforeTheWalk
<1>4. CASE scan' = EndWith("failed", {"not settled"})
  <2>1. Shapes' /\ SameWork /\ scan'.drafts = scan.drafts /\ scan'.refusedBy = scan.refusedBy
        /\ scan'.pc = "blocked" /\ scan'.gaps # {}
    BY <1>1, <1>4 DEF ScanInv, Shapes, EndWith, SameWork
  <2> QED
    BY <1>1, <2>1, BeforeTheWalk
<1> QED
  BY <1>2, <1>3, <1>4 DEF Deadline

LEMMA LandKeeps == ASSUME ScanInv, Land PROVE ScanInv'
<1> DEFINE o == Observed
           away == GoneAway(o, LogThen(o))
           begun == [scan EXCEPT !.obs = [o EXCEPT !.seen = 0], !.pc = IF Cli THEN "walk" ELSE "providers",
                                 !.walked = dom.shows]
           unheld == [EndWith("notHeld", {}) EXCEPT !.parts = {FALSE}]
<1>1. UNCHANGED <<world, axe, keys, judged>> /\ scan.pc = "selector"
  BY DEF Land
<1>2. \/ scan' = EndWith("notReached", {"away"}) /\ UNCHANGED net
      \/ scan' = unheld /\ UNCHANGED net
      \/ /\ scan' = begun /\ net' = [net EXCEPT !.marked = TRUE]
         /\ DeclaresSelector => HeldBeforeWalk(o)
  BY DEF Land
<1>3. net' \in Nets /\ net'.log = net.log
  BY <1>2 DEF ScanInv, Shapes, Nets
<1>4. CASE scan' = EndWith("notReached", {"away"})
  <2>1. Shapes' /\ SameWork /\ scan'.drafts = scan.drafts /\ scan'.refusedBy = scan.refusedBy
        /\ scan'.pc = "blocked" /\ scan'.gaps # {}
    BY <1>3, <1>4 DEF ScanInv, Shapes, EndWith, SameWork
  <2> QED
    BY <1>1, <1>3, <2>1, BeforeTheWalk
<1>5. CASE scan' = unheld
  <2>1. Shapes' /\ SameWork /\ scan'.drafts = scan.drafts /\ scan'.refusedBy = scan.refusedBy
        /\ scan'.pc = "blocked" /\ scan'.parts = {FALSE}
    BY <1>3, <1>5 DEF ScanInv, Shapes, EndWith, SameWork
  <2> QED
    BY <1>1, <1>3, <2>1, BeforeTheWalk
<1>6. CASE scan' = begun /\ (DeclaresSelector => HeldBeforeWalk(o))
  <2>1. PICK selector, response :
          selector = SelectorPart(dom.shows) /\ response = ResponsePart(net.log)
    OBVIOUS
  <2>2. o = [scan.obs EXCEPT !.selector = selector, !.response = response]
    BY <2>1 DEF Observed
  <2> HIDE DEF o
  <2>6. o = [away |-> scan.obs.away, password |-> scan.obs.password, seen |-> scan.obs.seen,
             selector |-> selector, response |-> response]
    BY <2>2 DEF ScanInv, Shapes
  <2>3. o.selector = selector
        /\ [o EXCEPT !.seen = 0] = [away |-> scan.obs.away, password |-> scan.obs.password, seen |-> 0,
                                    selector |-> selector, response |-> response]
    BY <2>6
  <2>5. Shapes' /\ SameWork /\ scan'.drafts = scan.drafts /\ scan'.refusedBy = scan.refusedBy
        /\ scan'.pc \in {"walk", "providers"} /\ scan'.outcome = scan.outcome
        /\ scan'.obs.selector = o.selector /\ scan'.walked = dom.shows
    BY <1>3, <1>6, <2>3 DEF ScanInv, Shapes, SameWork
  <2>4. DeclaresSelector => /\ scan.outcome = "held" /\ o.selector = {TRUE}
                            /\ Matches(dom.shows) = TRUE
    <3>1. SUFFICES ASSUME DeclaresSelector
                   PROVE  scan.outcome = "held" /\ o.selector = {TRUE} /\ Matches(dom.shows) = TRUE
      OBVIOUS
    <3>2. o.selector = {TRUE} /\ scan.outcome = "held"
      BY <1>6, <3>1 DEF HeldBeforeWalk
    <3>3. {Matches(dom.shows)} = {TRUE}
      BY <2>1, <2>3, <3>1, <3>2 DEF SelectorPart
    <3> QED
      BY <3>2, <3>3
  <2> QED
    BY <1>1, <1>3, <2>4, <2>5, BeforeTheWalk DEF Matches
<1> QED
  BY <1>2, <1>4, <1>5, <1>6

\* A step of the walk and the providers leaves what the landing saw.
LEMMA DuringTheWalk ==
  ASSUME ScanInv, Shapes', ProviderIsNext', FramesNamed', WalkedToTheEnd', Accounted',
         UNCHANGED <<world, net, judged>>, scan.pc \in Checking \cup {"walk", "final"},
         scan'.obs = scan.obs, scan'.outcome = scan.outcome, scan'.walked = scan.walked,
         scan'.refusedBy = scan.refusedBy,
         \/ scan'.pc \in Checking \cup {"final"}
         \/ scan'.pc = "blocked" /\ scan'.gaps # {} /\ scan'.drafts = {}
  PROVE  ScanInv'
<1>1. Kept'
  BY DEF ScanInv, Kept, DraftsAreOfAWalk, WalkedHeld, KeptShowed, Checking, Ending, DeclaresSelector
<1>2. DataAfterRefusal'
  BY DEF ScanInv, Expired, DataAfterRefusal, Refused
<1>3. Expired'
  BY <1>2 DEF ScanInv, Expired, OnlyRunsSignIn, RefusalShows, Checking, Ending, Cli
<1>4. Traffic' /\ LeakShows'
  BY DEF ScanInv, Whole, Traffic, LeakShows, Checking
<1> QED
  BY <1>1, <1>3, <1>4 DEF ScanInv, NotBegun, Checking, Whole

LEMMA WalkKeeps == ASSUME ScanInv, Walk PROVE ScanInv'
<1>1. UNCHANGED <<world, net, axe, keys, judged>> /\ scan.pc = "walk"
  BY DEF Walk
<1>2. PICK stops \in {"body", "real"} : scan' = [scan EXCEPT !.stops = stops, !.pc = "providers"]
  BY DEF Walk
<1>3. Shapes' /\ scan'.obs = scan.obs /\ scan'.outcome = scan.outcome /\ scan'.walked = scan.walked
      /\ scan'.refusedBy = scan.refusedBy /\ scan'.pc = "providers" /\ SameWork
  BY <1>1, <1>2 DEF ScanInv, Shapes, SameWork
<1>4. FramesNamed' /\ WalkedToTheEnd' /\ ~scan'.dirty /\ scan'.finished \subseteq ProviderIds
  BY <1>1, <1>3, WholeStays DEF SameWork
<1>5. scan'.todo = Ordered
  BY <1>1, <1>3 DEF SameWork, ScanInv, Whole, Accounted, Early
<1>6. Accounted'
  BY <1>3, <1>4, <1>5 DEF Accounted, EveryProviderRuns, InTodo, Early, Checking, Ending
<1> QED
  BY <1>1, <1>3, <1>4, <1>6, DuringTheWalk DEF Checking, ProviderIsNext

LEMMA CrashKeeps == ASSUME ScanInv, Crash PROVE ScanInv'
<1>1. UNCHANGED <<world, net, axe, keys, judged>> /\ scan.pc \in {"walk", "final"}
      /\ scan' = [EndWith("failed", {"crash"}) EXCEPT !.drafts = {}, !.stops = "none"]
  BY DEF Crash
<1>2. Shapes' /\ scan'.obs = scan.obs /\ scan'.outcome = scan.outcome /\ scan'.walked = scan.walked
      /\ scan'.refusedBy = scan.refusedBy /\ scan'.pc = "blocked" /\ scan'.gaps # {} /\ scan'.drafts = {}
      /\ SameWork
  BY <1>1 DEF ScanInv, Shapes, EndWith, SameWork
<1>3. FramesNamed' /\ WalkedToTheEnd' /\ ~scan'.dirty /\ scan'.finished \subseteq ProviderIds
  BY <1>1, <1>2, WholeStays DEF SameWork
<1>4. Accounted'
  BY <1>2, <1>3 DEF Accounted, Early
<1> QED
  BY <1>1, <1>2, <1>3, <1>4, DuringTheWalk DEF ProviderIsNext

\* What a provider's end leaves as it was.
LEMMA ProviderDoneShape ==
  ASSUME Shapes, net' \in Nets, scan.todo # <<>>, NEW drafts, NEW gaps, scan' = ProviderDone(drafts, gaps)
  PROVE  /\ Shapes' /\ scan'.obs = scan.obs /\ scan'.outcome = scan.outcome /\ scan'.walked = scan.walked
         /\ scan'.refusedBy = scan.refusedBy /\ scan'.pc = "providers" /\ scan'.todo = Tail(scan.todo)
         /\ scan'.drafts = scan.drafts \cup drafts /\ scan'.gaps = scan.gaps \cup gaps
         /\ scan'.finished = (IF gaps = {} THEN scan.finished \cup {NextProvider} ELSE scan.finished)
         /\ scan'.unsure = scan.unsure /\ scan'.missed = scan.missed /\ scan'.dirty = scan.dirty
         /\ scan'.mutated = scan.mutated /\ scan'.parts = scan.parts /\ scan'.kind = scan.kind
<1> DEFINE finished == IF gaps = {} THEN scan.finished \cup {NextProvider} ELSE scan.finished
           todo == Tail(scan.todo)
           all == scan.drafts \cup drafts
           every == scan.gaps \cup gaps
<1>1. scan' = [scan EXCEPT !.pc = "providers", !.todo = todo, !.drafts = all, !.gaps = every,
                           !.finished = finished]
  BY DEF ProviderDone, Shapes
<1>3. todo \in Seq(ProviderIds)
  BY DEF Shapes
<1> HIDE DEF finished, todo, all, every
<1>2. /\ Shapes' /\ scan'.obs = scan.obs /\ scan'.outcome = scan.outcome /\ scan'.walked = scan.walked
      /\ scan'.refusedBy = scan.refusedBy /\ scan'.pc = "providers" /\ scan'.todo = todo
      /\ scan'.drafts = all /\ scan'.gaps = every /\ scan'.finished = finished
      /\ scan'.unsure = scan.unsure /\ scan'.missed = scan.missed /\ scan'.dirty = scan.dirty
      /\ scan'.mutated = scan.mutated /\ scan'.parts = scan.parts /\ scan'.kind = scan.kind
  BY <1>1, <1>3 DEF Shapes
<1> QED
  BY <1>2 DEF finished, todo, all, every

\* A provider is started, and the page may count as changed.
LEMMA StartShape ==
  ASSUME Shapes, net' \in Nets, NEW pc, NEW mutated, NEW dirty,
         scan' = [scan EXCEPT !.pc = pc, !.mutated = mutated, !.dirty = dirty]
  PROVE  /\ Shapes' /\ scan'.obs = scan.obs /\ scan'.outcome = scan.outcome /\ scan'.walked = scan.walked
         /\ scan'.refusedBy = scan.refusedBy /\ scan'.pc = pc /\ scan'.todo = scan.todo
         /\ scan'.drafts = scan.drafts /\ scan'.gaps = scan.gaps /\ scan'.finished = scan.finished
         /\ scan'.unsure = scan.unsure /\ scan'.missed = scan.missed /\ scan'.dirty = dirty
         /\ scan'.mutated = mutated /\ scan'.parts = scan.parts /\ scan'.kind = scan.kind
  BY DEF Shapes

\* A provider that ends leaves the rest to run, and is finished or has a gap.
LEMMA ProviderAccounted ==
  ASSUME ScanInv, scan.pc \in Checking, scan.todo # <<>>,
         scan'.pc = "providers", scan'.todo = Tail(scan.todo), scan.gaps \subseteq scan'.gaps,
         scan'.dirty = scan.dirty, scan'.finished \in {scan.finished, scan.finished \cup {NextProvider}},
         scan'.gaps = {} => scan'.finished = scan.finished \cup {NextProvider}
  PROVE  Accounted'
<1>1. scan.todo \in Seq(ProviderIds) /\ NextProvider = scan.todo[1] /\ NextProvider \in ProviderIds
  BY DEF ScanInv, Shapes, NextProvider
<1>2. ASSUME EveryProviderRuns, scan'.gaps = {}, NEW p \in ProviderIds
      PROVE  p \in scan'.finished \/ InTodo(p)'
  <2>1. p \in scan.finished \/ InTodo(p)
    BY <1>2 DEF ScanInv, Whole, Accounted
  <2>2. CASE p \in scan.finished
    BY <2>2
  <2>3. CASE \E i \in DOMAIN scan.todo : scan.todo[i] = p
    <3>1. PICK i \in DOMAIN scan.todo : scan.todo[i] = p
      BY <2>3
    <3>2. CASE i = 1
      BY <1>1, <1>2, <3>1, <3>2
    <3>3. CASE i # 1
      <4>1. i - 1 \in DOMAIN Tail(scan.todo) /\ Tail(scan.todo)[i - 1] = p
        BY <1>1, <3>1, <3>3
      <4> QED
        BY <4>1 DEF InTodo
    <3> QED
      BY <3>2, <3>3
  <2> QED
    BY <2>1, <2>2, <2>3 DEF InTodo
<1> QED
  BY <1>1, <1>2 DEF ScanInv, Whole, Accounted, Early, Checking, Ending, EveryProviderRuns

LEMMA StartProviderKeeps == ASSUME ScanInv, StartProvider PROVE ScanInv'
<1> DEFINE p == NextProvider
           pc == IF p = "walk" THEN "walk-keys" ELSE p
           mutated == scan.mutated \/ p \in Mutating
           dirty == scan.dirty \/ (p \in Pristine /\ scan.mutated)
<1>1. UNCHANGED <<world, net, judged>> /\ scan.pc = "providers" /\ net' \in Nets /\ Shapes
      /\ scan.todo # <<>>
  BY DEF StartProvider, ScanInv, Shapes
<1>2. CASE /\ scan' = ProviderDone({}, {"denied"}) \/ scan' = ProviderDone({}, {"skipped"})
           /\ UNCHANGED <<axe, keys>>
  <2>4. PICK no, gaps : no = {} /\ gaps # {} /\ scan' = ProviderDone(no, gaps)
    BY <1>2
  <2>5. /\ Shapes' /\ scan'.obs = scan.obs /\ scan'.outcome = scan.outcome /\ scan'.walked = scan.walked
        /\ scan'.refusedBy = scan.refusedBy /\ scan'.pc = "providers" /\ scan'.todo = Tail(scan.todo)
        /\ scan'.gaps = scan.gaps \cup gaps
        /\ scan'.finished = (IF gaps = {} THEN scan.finished \cup {NextProvider} ELSE scan.finished)
        /\ scan'.unsure = scan.unsure /\ scan'.missed = scan.missed /\ scan'.dirty = scan.dirty
    BY <1>1, <2>4, ProviderDoneShape
  <2>1. /\ Shapes' /\ scan'.obs = scan.obs /\ scan'.outcome = scan.outcome /\ scan'.walked = scan.walked
        /\ scan'.refusedBy = scan.refusedBy /\ scan'.pc = "providers" /\ scan'.todo = Tail(scan.todo)
        /\ scan'.gaps # {} /\ scan'.finished = scan.finished /\ scan'.unsure = scan.unsure
        /\ scan'.missed = scan.missed /\ scan'.dirty = scan.dirty /\ scan.gaps \subseteq scan'.gaps
    BY <2>4, <2>5
  <2>2. Accounted'
    BY <1>1, <2>1, ProviderAccounted DEF Checking
  <2>3. FramesNamed' /\ WalkedToTheEnd'
    BY <1>1, <1>2, <2>1, WholeStays
  <2> QED
    BY <1>1, <2>1, <2>2, <2>3, DuringTheWalk DEF Checking, ProviderIsNext
<1>3. CASE /\ scan' = [scan EXCEPT !.pc = pc, !.mutated = mutated, !.dirty = dirty]
           /\ ~Skipped(p)
           /\ IF p = "axe" THEN AxeStart ELSE UNCHANGED axe
           /\ IF p = "walk" THEN WalkStart ELSE UNCHANGED keys
  <2>1. p \in ProviderIds
    BY <1>1 DEF Shapes, NextProvider
  <2>5. pc \in Checking
    BY <2>1 DEF ProviderIds, Checking
  <2> HIDE DEF pc, mutated, dirty
  <2>2. PICK now, is, was : now = pc /\ is = mutated /\ was = dirty
    OBVIOUS
  <2>3. scan' = [scan EXCEPT !.pc = now, !.mutated = is, !.dirty = was]
    BY <1>3, <2>2
  <2>4. /\ Shapes' /\ scan'.obs = scan.obs /\ scan'.outcome = scan.outcome /\ scan'.walked = scan.walked
        /\ scan'.refusedBy = scan.refusedBy /\ scan'.pc = now /\ scan'.todo = scan.todo
        /\ scan'.gaps = scan.gaps /\ scan'.finished = scan.finished /\ scan'.unsure = scan.unsure
        /\ scan'.missed = scan.missed /\ scan'.dirty = was
    BY <1>1, <2>3, StartShape
  <2>6. ProviderIsNext'
    BY <1>1, <2>2, <2>4 DEF ProviderIsNext, pc, NextProvider
  <2>7. ~scan'.dirty
    BY <1>3, <2>2, <2>4 DEF dirty, Skipped, ScanInv, Whole, Accounted
  <2>8. FramesNamed'
    <3>1. CASE axe' = axe
      BY <1>1, <2>4, <3>1 DEF FramesNamed, ScanInv, Whole
    <3>2. CASE axe' = [NoRun EXCEPT !.pc = "frames", !.stack = <<Level(Top)>>]
      BY <1>1, <2>4, <3>2 DEF FramesNamed, ScanInv, Whole, NoRun
    <3> QED
      BY <1>3, <3>1, <3>2 DEF AxeStart
  <2>9. WalkedToTheEnd'
    <3>1. CASE p = "walk"
      BY <1>3, <2>2, <2>4, <3>1 DEF pc, WalkedToTheEnd, WalkStart, NoKeys
    <3>2. CASE p # "walk"
      BY <1>1, <1>3, <2>4, <3>2 DEF WalkedToTheEnd, ScanInv, Whole
    <3> QED
      BY <3>1, <3>2
  <2>10. Accounted'
    <3>1. scan'.pc \in Checking /\ scan'.pc \notin Early \cup Ending \cup {"final"}
      BY <2>2, <2>4, <2>5 DEF Checking, Early, Ending
    <3>2. scan'.finished \subseteq ProviderIds
      BY <2>4 DEF ScanInv, Whole, Accounted
    <3>3. EveryProviderRuns' = EveryProviderRuns
      BY DEF EveryProviderRuns
    <3>4. EveryProviderRuns /\ scan'.gaps = {} => \A q \in ProviderIds : q \in scan'.finished \/ InTodo(q)'
      BY <1>1, <2>4 DEF ScanInv, Whole, Accounted, InTodo, Checking
    <3> QED
      BY <2>7, <3>1, <3>2, <3>3, <3>4 DEF Accounted, Ending
  <2> QED
    BY <1>1, <2>2, <2>4, <2>5, <2>6, <2>8, <2>9, <2>10, DuringTheWalk DEF Checking
<1> QED
  BY <1>2, <1>3 DEF StartProvider

LEMMA RunRulepackKeeps == ASSUME ScanInv, RunRulepack PROVE ScanInv'
<1>1. UNCHANGED <<world, net, axe, keys, judged>> /\ scan.pc = "rulepack" /\ net' \in Nets /\ Shapes
      /\ scan.todo # <<>> /\ NextProvider # "walk"
  BY DEF RunRulepack, ScanInv, Shapes, ProviderIsNext, NextProvider
<1>2. PICK drafts, gaps : scan' = ProviderDone(drafts, gaps)
  BY DEF RunRulepack
<1>3. /\ Shapes' /\ scan'.obs = scan.obs /\ scan'.outcome = scan.outcome /\ scan'.walked = scan.walked
      /\ scan'.refusedBy = scan.refusedBy /\ scan'.pc = "providers" /\ scan'.todo = Tail(scan.todo)
      /\ scan'.gaps = scan.gaps \cup gaps /\ scan'.dirty = scan.dirty /\ scan'.missed = scan.missed
      /\ scan'.finished = (IF gaps = {} THEN scan.finished \cup {NextProvider} ELSE scan.finished)
      /\ scan'.unsure = scan.unsure
  BY <1>1, <1>2, ProviderDoneShape
<1>4. Accounted'
  BY <1>1, <1>3, ProviderAccounted DEF Checking
<1>5. FramesNamed' /\ WalkedToTheEnd'
  BY <1>1, <1>3 DEF ScanInv, Whole, FramesNamed, WalkedToTheEnd
<1> QED
  BY <1>1, <1>3, <1>4, <1>5, DuringTheWalk DEF Checking, ProviderIsNext

\* With every process answering, a frame the run neither reached nor named is
\* left unchecked.
LEMMA AxeSteps ==
  ASSUME FramesNamed, AxeStep
  PROVE  /\ axe' = [pc |-> axe'.pc, stack |-> axe'.stack, reached |-> axe'.reached,
                    disclosed |-> axe'.disclosed, unchecked |-> axe'.unchecked]
         /\ axe'.disclosed # {} => axe'.unchecked
         /\ axe.pc \in {"frames", "trees"}
         /\ TreesAnswer /\ axe.pc = "trees" /\ ~(Visible \subseteq axe.reached) => axe'.pc = "done" /\ axe'.unchecked
<1>1. axe = [pc |-> axe.pc, stack |-> axe.stack, reached |-> axe.reached, disclosed |-> axe.disclosed,
             unchecked |-> axe.unchecked]
      /\ (axe.disclosed # {} => axe.unchecked)
  BY DEF FramesNamed
<1>2. ASSUME NEW reached, NEW stack, NEW pc,
             \/ axe' = [axe EXCEPT !.reached = reached, !.stack = stack]
             \/ axe' = [axe EXCEPT !.stack = stack]
             \/ axe' = [axe EXCEPT !.stack = stack, !.pc = pc]
             \/ axe' = [axe EXCEPT !.pc = pc, !.stack = stack]
      PROVE  /\ axe' = [pc |-> axe'.pc, stack |-> axe'.stack, reached |-> axe'.reached,
                        disclosed |-> axe'.disclosed, unchecked |-> axe'.unchecked]
             /\ axe'.disclosed # {} => axe'.unchecked
  BY <1>1, <1>2
<1>3. ASSUME NEW disclosed, NEW stack,
             \/ axe' = [axe EXCEPT !.stack = stack, !.unchecked = TRUE, !.disclosed = disclosed]
             \/ axe' = [axe EXCEPT !.unchecked = TRUE, !.stack = stack]
             \/ axe' = [axe EXCEPT !.unchecked = TRUE, !.disclosed = disclosed, !.stack = stack]
      PROVE  /\ axe' = [pc |-> axe'.pc, stack |-> axe'.stack, reached |-> axe'.reached,
                        disclosed |-> axe'.disclosed, unchecked |-> axe'.unchecked]
             /\ axe'.unchecked
  <2>1. PICK yes : yes = TRUE
    OBVIOUS
  <2>2. \/ axe' = [axe EXCEPT !.stack = stack, !.unchecked = yes, !.disclosed = disclosed]
        \/ axe' = [axe EXCEPT !.unchecked = yes, !.stack = stack]
        \/ axe' = [axe EXCEPT !.unchecked = yes, !.disclosed = disclosed, !.stack = stack]
    BY <1>3, <2>1
  <2>3. axe' = [pc |-> axe'.pc, stack |-> axe'.stack, reached |-> axe'.reached,
                disclosed |-> axe'.disclosed, unchecked |-> axe'.unchecked]
        /\ axe'.unchecked = yes
    BY <1>1, <2>2
  <2> QED
    BY <2>1, <2>3
<1>4. CASE ReadFrames
  BY <1>2, <1>3, <1>4 DEF ReadFrames, FrameFails
<1>5. CASE RunPartial
  BY <1>2, <1>3, <1>5 DEF RunPartial, FrameFails
<1>6. CASE NextChild
  BY <1>2, <1>3, <1>6 DEF NextChild
<1>7. CASE LevelDone
  BY <1>2, <1>7 DEF LevelDone
<1>8. CASE UnreachedFrames
  <2>1. PICK mute : axe' = TreesWithout(mute) /\ (TreesAnswer => mute = {})
    BY <1>8 DEF UnreachedFrames
  <2> DEFINE shown == {g \in Attached : \A m \in mute : ~Covers(m, g)}
             missing == {g \in shown \ axe.reached : /\ tree[g].look # "hidden"
                                                     /\ \A d \in axe.disclosed : ~Covers(d, g)}
             known == shown \cup axe.reached \cup axe.disclosed
             disclosed == axe.disclosed \cup missing
  <2>2. PICK unchecked : unchecked = (axe.unchecked \/ missing # {} \/ Cardinality(Attached) > Cardinality(known))
    OBVIOUS
  <2>3. axe' = [axe EXCEPT !.pc = "done", !.disclosed = disclosed, !.unchecked = unchecked]
    BY <2>1, <2>2 DEF TreesWithout
  <2>4. disclosed # {} => unchecked
    BY <1>1, <2>2
  <2>5. TreesAnswer /\ ~(Visible \subseteq axe.reached) => unchecked
    <3> SUFFICES ASSUME TreesAnswer, NEW g \in Visible, g \notin axe.reached PROVE unchecked
      OBVIOUS
    <3>1. g \in shown
      BY <2>1 DEF Visible
    <3>2. tree[g].look # "hidden"
      BY DEF Visible, Covers
    <3>3. g \in missing \/ axe.disclosed # {}
      BY <3>1, <3>2
    <3> QED
      BY <1>1, <2>2, <3>3
  <2> HIDE DEF missing, known, disclosed
  <2>6. axe' = [pc |-> axe'.pc, stack |-> axe'.stack, reached |-> axe'.reached,
                disclosed |-> axe'.disclosed, unchecked |-> axe'.unchecked]
        /\ axe'.pc = "done" /\ axe'.disclosed = disclosed /\ axe'.unchecked = unchecked
    BY <1>1, <2>3
  <2> QED
    BY <1>8, <2>4, <2>5, <2>6 DEF UnreachedFrames
<1>9. axe.pc \in {"frames", "trees"} /\ (axe.pc = "trees" => UnreachedFrames)
  BY DEF AxeStep, ReadFrames, RunPartial, NextChild, LevelDone, UnreachedFrames
<1> QED
  BY <1>4, <1>5, <1>6, <1>7, <1>8, <1>9 DEF AxeStep

LEMMA RunAxeKeeps == ASSUME ScanInv, RunAxe PROVE ScanInv'
<1>1. UNCHANGED <<world, net, keys, judged>> /\ scan.pc = "axe" /\ net' \in Nets /\ Shapes
      /\ scan.todo # <<>> /\ NextProvider # "walk" /\ FramesNamed
  BY DEF RunAxe, ScanInv, Shapes, ProviderIsNext, NextProvider, Whole
<1>2. CASE AxeStep /\ scan' = [scan EXCEPT !.missed = @ \/ (axe.pc = "trees" /\ ~(Visible \subseteq axe.reached))]
  <2>1. PICK missed : missed = (scan.missed \/ (axe.pc = "trees" /\ ~(Visible \subseteq axe.reached)))
    OBVIOUS
  <2>2. scan' = [scan EXCEPT !.missed = missed]
    BY <1>2, <2>1
  <2>3. /\ Shapes' /\ scan'.obs = scan.obs /\ scan'.outcome = scan.outcome /\ scan'.walked = scan.walked
        /\ scan'.refusedBy = scan.refusedBy /\ scan'.pc = scan.pc /\ scan'.todo = scan.todo
        /\ scan'.gaps = scan.gaps /\ scan'.finished = scan.finished /\ scan'.unsure = scan.unsure
        /\ scan'.missed = missed /\ scan'.dirty = scan.dirty
    BY <1>1, <2>2 DEF Shapes
  <2>4. FramesNamed'
    <3>1. TreesAnswer /\ scan.missed => scan.gaps # {}
      BY <1>1, <1>2, AxeSteps DEF FramesNamed
    <3> QED
      BY <1>1, <1>2, <2>1, <2>3, <3>1, AxeSteps DEF FramesNamed
  <2>5. WalkedToTheEnd' /\ Accounted'
    BY <1>1, <2>3 DEF ScanInv, Whole, WalkedToTheEnd, Accounted, InTodo, Early, Checking, Ending, EveryProviderRuns
  <2> QED
    BY <1>1, <2>3, <2>4, <2>5, DuringTheWalk DEF Checking, ScanInv, ProviderIsNext
<1>3. ASSUME NEW drafts, NEW gaps, scan' = ProviderDone(drafts, gaps), axe' = NoRun,
             axe.pc = "done" /\ axe.unchecked => gaps # {}
      PROVE  ScanInv'
  <2>1. /\ Shapes' /\ scan'.obs = scan.obs /\ scan'.outcome = scan.outcome /\ scan'.walked = scan.walked
        /\ scan'.refusedBy = scan.refusedBy /\ scan'.pc = "providers" /\ scan'.todo = Tail(scan.todo)
        /\ scan'.gaps = scan.gaps \cup gaps /\ scan'.dirty = scan.dirty /\ scan'.missed = scan.missed
        /\ scan'.finished = (IF gaps = {} THEN scan.finished \cup {NextProvider} ELSE scan.finished)
        /\ scan'.unsure = scan.unsure
    BY <1>1, <1>3, ProviderDoneShape
  <2>2. Accounted'
    BY <1>1, <2>1, ProviderAccounted DEF Checking
  <2>3. FramesNamed'
    BY <1>1, <1>3, <2>1 DEF FramesNamed, NoRun
  <2>4. WalkedToTheEnd'
    BY <1>1, <2>1 DEF ScanInv, Whole, WalkedToTheEnd
  <2> QED
    BY <1>1, <2>1, <2>2, <2>3, <2>4, DuringTheWalk DEF Checking, ProviderIsNext
<1> QED
  <2>1. CASE axe.pc = "done" /\ axe' = NoRun
             /\ scan' = ProviderDone({"axe"}, IF axe.unchecked THEN {"frames"} ELSE {})
    BY <1>3, <2>1
  <2>2. CASE axe.pc = "threw" /\ axe' = NoRun /\ scan' = ProviderDone({}, {"provider"})
    BY <1>3, <2>2
  <2> QED
    BY <1>2, <2>1, <2>2 DEF RunAxe

LEMMA RunWalkShape ==
  ASSUME Shapes, net' \in Nets, scan.todo # <<>>,
         scan' = [ProviderDone({"walk"}, {}) EXCEPT !.unsure = @ \/ keys.unsure]
  PROVE  /\ Shapes' /\ scan'.obs = scan.obs /\ scan'.outcome = scan.outcome /\ scan'.walked = scan.walked
         /\ scan'.refusedBy = scan.refusedBy /\ scan'.pc = "providers" /\ scan'.todo = Tail(scan.todo)
         /\ scan'.gaps = scan.gaps /\ scan'.finished = scan.finished \cup {NextProvider}
         /\ scan'.unsure = (scan.unsure \/ keys.unsure) /\ scan'.missed = scan.missed /\ scan'.dirty = scan.dirty
         /\ scan'.mutated = scan.mutated /\ scan'.parts = scan.parts /\ scan'.kind = scan.kind
<1> DEFINE finished == scan.finished \cup {NextProvider}
           todo == Tail(scan.todo)
           all == scan.drafts \cup {"walk"}
<1>1. PICK unsure : unsure = (scan.unsure \/ keys.unsure)
  OBVIOUS
<1>2. scan' = [scan EXCEPT !.pc = "providers", !.todo = todo, !.drafts = all, !.gaps = scan.gaps \cup {},
                           !.finished = finished, !.unsure = unsure]
  BY <1>1 DEF ProviderDone, Shapes
<1>3. todo \in Seq(ProviderIds)
  BY DEF Shapes
<1>4. scan.gaps \cup {} = scan.gaps
  OBVIOUS
<1> HIDE DEF finished, todo, all
<1>5. /\ Shapes' /\ scan'.obs = scan.obs /\ scan'.outcome = scan.outcome /\ scan'.walked = scan.walked
      /\ scan'.refusedBy = scan.refusedBy /\ scan'.pc = "providers" /\ scan'.todo = todo
      /\ scan'.gaps = scan.gaps /\ scan'.finished = finished
      /\ scan'.unsure = unsure /\ scan'.missed = scan.missed /\ scan'.dirty = scan.dirty
      /\ scan'.mutated = scan.mutated /\ scan'.parts = scan.parts /\ scan'.kind = scan.kind
  BY <1>2, <1>3, <1>4 DEF Shapes
<1> QED
  BY <1>1, <1>5 DEF finished, todo, all

\* A walk that ends anywhere but at the end of the page is unsure.
LEMMA KeysSteps ==
  ASSUME WalkedToTheEnd, KeysStep
  PROVE  /\ keys' = [pc |-> keys'.pc, walked |-> keys'.walked, presses |-> keys'.presses,
                     reason |-> keys'.reason, trap |-> keys'.trap, unsure |-> keys'.unsure]
         /\ keys'.pc = "done" => keys'.unsure \/ keys'.reason = "complete"
<1>1. keys = [pc |-> keys.pc, walked |-> keys.walked, presses |-> keys.presses, reason |-> keys.reason,
              trap |-> keys.trap, unsure |-> keys.unsure] /\ keys.pc = "tab"
  BY DEF WalkedToTheEnd, KeysStep, TabCapRunsOut, ClockRunsOut, TabOntoUnreadable, TabOntoBody,
     TabOntoWalked, TabOntoNew
<1>2. ASSUME NEW reason, NEW trap, KeysEnd(reason, trap)
      PROVE  /\ keys' = [pc |-> keys'.pc, walked |-> keys'.walked, presses |-> keys'.presses,
                         reason |-> keys'.reason, trap |-> keys'.trap, unsure |-> keys'.unsure]
             /\ keys'.unsure \/ keys'.reason = "complete"
  <2>1. PICK unsure : unsure = (keys.unsure \/ reason # "complete")
    OBVIOUS
  <2>2. keys' = [keys EXCEPT !.pc = "done", !.reason = reason, !.trap = trap, !.unsure = unsure]
    BY <1>2, <2>1 DEF KeysEnd
  <2>3. /\ keys' = [pc |-> keys'.pc, walked |-> keys'.walked, presses |-> keys'.presses,
                    reason |-> keys'.reason, trap |-> keys'.trap, unsure |-> keys'.unsure]
        /\ keys'.unsure = unsure /\ keys'.reason = reason
    BY <1>1, <2>2
  <2> QED
    BY <2>1, <2>3
<1>3. CASE TabOntoNew
  <2>1. PICK c, modals, known :
          keys' = [keys EXCEPT !.walked = Append(@, [at |-> c, modals |-> modals]),
                               !.presses = @ + 1, !.unsure = @ \/ ~known]
    BY <1>3 DEF TabOntoNew
  <2>2. PICK walked, presses, unsure :
          /\ walked = Append(keys.walked, [at |-> c, modals |-> modals])
          /\ presses = keys.presses + 1 /\ unsure = (keys.unsure \/ ~known)
    OBVIOUS
  <2>3. keys' = [keys EXCEPT !.walked = walked, !.presses = presses, !.unsure = unsure]
    BY <1>1, <2>1, <2>2
  <2>4. /\ keys' = [pc |-> keys'.pc, walked |-> keys'.walked, presses |-> keys'.presses,
                    reason |-> keys'.reason, trap |-> keys'.trap, unsure |-> keys'.unsure]
        /\ keys'.pc = keys.pc
    BY <1>1, <2>3
  <2> QED
    BY <1>1, <2>4
<1>4. CASE TabCapRunsOut \/ ClockRunsOut \/ TabOntoUnreadable \/ TabOntoBody \/ TabOntoWalked
  BY <1>2, <1>4 DEF TabCapRunsOut, ClockRunsOut, TabOntoUnreadable, TabOntoBody, TabOntoWalked
<1> QED
  BY <1>3, <1>4 DEF KeysStep

LEMMA RunWalkKeeps == ASSUME ScanInv, RunWalk PROVE ScanInv'
<1>1. UNCHANGED <<world, net, axe, judged>> /\ scan.pc = "walk-keys" /\ net' \in Nets /\ Shapes
      /\ scan.todo # <<>> /\ WalkedToTheEnd
  BY DEF RunWalk, ScanInv, Shapes, ProviderIsNext, Whole
<1>2. CASE KeysStep /\ UNCHANGED scan
  <2>1. FramesNamed' /\ Accounted'
    BY <1>1, <1>2 DEF ScanInv, Whole, FramesNamed, Accounted, InTodo, EveryProviderRuns
  <2>2. WalkedToTheEnd'
    BY <1>1, <1>2, KeysSteps DEF WalkedToTheEnd
  <2> QED
    BY <1>1, <1>2, <2>1, <2>2, DuringTheWalk DEF Checking, ScanInv, Shapes, ProviderIsNext
<1>3. CASE /\ scan' = [ProviderDone({"walk"}, {}) EXCEPT !.unsure = @ \/ keys.unsure]
           /\ keys.pc = "done" /\ keys' = [NoKeys EXCEPT !.reason = keys.reason]
  <2>1. /\ Shapes' /\ scan'.obs = scan.obs /\ scan'.outcome = scan.outcome /\ scan'.walked = scan.walked
        /\ scan'.refusedBy = scan.refusedBy /\ scan'.pc = "providers" /\ scan'.todo = Tail(scan.todo)
        /\ scan'.gaps = scan.gaps /\ scan'.finished = scan.finished \cup {NextProvider}
        /\ scan'.unsure = (scan.unsure \/ keys.unsure) /\ scan'.missed = scan.missed /\ scan'.dirty = scan.dirty
    BY <1>1, <1>3, RunWalkShape
  <2>2. Accounted'
    BY <1>1, <2>1, ProviderAccounted DEF Checking
  <2>3. FramesNamed'
    BY <1>1, <2>1 DEF ScanInv, Whole, FramesNamed
  <2>4. PICK no : no = FALSE
    OBVIOUS
  <2>6. keys' = [pc |-> "idle", walked |-> <<>>, presses |-> 0, reason |-> keys.reason, trap |-> no,
                 unsure |-> no]
    BY <1>3, <2>4 DEF NoKeys
  <2>7. /\ keys' = [pc |-> keys'.pc, walked |-> keys'.walked, presses |-> keys'.presses,
                    reason |-> keys'.reason, trap |-> keys'.trap, unsure |-> keys'.unsure]
        /\ keys'.pc = "idle" /\ keys'.reason = keys.reason
    BY <2>6
  <2>8. keys.unsure \/ keys.reason = "complete"
    BY <1>1, <1>3 DEF WalkedToTheEnd
  <2>5. WalkedToTheEnd'
    BY <2>1, <2>7, <2>8 DEF WalkedToTheEnd
  <2> QED
    BY <1>1, <2>1, <2>2, <2>3, <2>5, DuringTheWalk DEF Checking, ProviderIsNext
<1> QED
  BY <1>2, <1>3 DEF RunWalk, KeysStep

LEMMA AttachRowsKeeps == ASSUME ScanInv, AttachRows PROVE ScanInv'
<1>1. UNCHANGED <<world, net, axe, keys, judged>> /\ scan.pc = "providers" /\ net' \in Nets /\ Shapes
      /\ scan.todo = <<>>
  BY DEF AttachRows, ScanInv, Shapes
<1>2. \/ scan' = [scan EXCEPT !.pc = "final"]
      \/ scan' = [scan EXCEPT !.pc = "final", !.unsure = TRUE, !.gaps = scan.gaps \cup {"rows"}]
  BY <1>1 DEF AttachRows, Go, Shapes
<1>3. PICK yes : yes = TRUE
  OBVIOUS
<1>4. \/ scan' = [scan EXCEPT !.pc = "final"]
      \/ scan' = [scan EXCEPT !.pc = "final", !.unsure = yes, !.gaps = scan.gaps \cup {"rows"}]
  BY <1>2, <1>3
<1>5. /\ Shapes' /\ scan'.obs = scan.obs /\ scan'.outcome = scan.outcome /\ scan'.walked = scan.walked
      /\ scan'.refusedBy = scan.refusedBy /\ scan'.pc = "final" /\ scan.gaps \subseteq scan'.gaps
      /\ scan'.finished = scan.finished /\ scan'.missed = scan.missed /\ scan'.unsure \in {scan.unsure, yes}
      /\ scan'.dirty = scan.dirty
  BY <1>1, <1>4 DEF Shapes
<1>6. FramesNamed' /\ WalkedToTheEnd' /\ ~scan'.dirty /\ scan'.finished \subseteq ProviderIds
  BY <1>1, <1>3, <1>5, WholeStays
<1>7. EveryProviderRuns /\ scan.gaps = {} => ProviderIds \subseteq scan.finished
  BY <1>1 DEF ScanInv, Whole, Accounted, InTodo, Checking
<1>8. Accounted'
  BY <1>5, <1>6, <1>7 DEF Accounted, EveryProviderRuns, Early, Checking, Ending
<1> QED
  BY <1>1, <1>5, <1>6, <1>8, DuringTheWalk DEF Checking, ProviderIsNext

\* A record of which a refusal is a part voids what a signed-in scan collected.
LEMMA RefusalIsAway ==
  ASSUME OnlyRunsSignIn, DataAfterRefusal, world.session = "expired", NEW o
  PROVE  /\ Refused(net.log) # {} => GoneAway(o, net.log)
         /\ Refused(net.log) = {} => ~ResponseSeen(net.log, Declared)
<1>1. Cli /\ world.session # "none"
  BY DEF OnlyRunsSignIn
<1>2. ~ResponseSeen(net.log, Declared \ Refused(net.log))
  BY DEF DataAfterRefusal, ResponseSeen
<1>3. ~RecoveryStandsDown(o.selector, net.log)
  BY <1>2 DEF RecoveryStandsDown
<1>4. Refused(net.log) # {} => RuleA(o, net.log)
  BY <1>1, <1>3 DEF RuleA
<1>5. Refused(net.log) = {} => ~ResponseSeen(net.log, Declared)
  BY DEF DataAfterRefusal, ResponseSeen
<1> QED
  BY <1>1, <1>4, <1>5 DEF GoneAway, RedirectedAway

\* What the parts say at the end of a walk.
LEMMA PartsSay ==
  ASSUME NEW p, p = Parts
  PROVE  /\ FALSE \notin p /\ DeclaresSelector =>
              scan.obs.selector = {TRUE} /\ SelectorPart(dom.shows) = {TRUE}
         /\ FALSE \notin p /\ DeclaresResponse => ResponsePart(net.log) = {TRUE}
<1>1. ASSUME NEW before, NEW after, after # {}, FALSE \notin Both(before, after)
      PROVE  before = {TRUE} /\ after = {TRUE}
  BY <1>1 DEF Both
<1>2. DeclaresSelector => SelectorPart(dom.shows) # {}
  BY DEF SelectorPart
<1>3. DeclaresResponse => ResponsePart(net.log) # {}
  BY DEF ResponsePart
<1> QED
  BY <1>1, <1>2, <1>3 DEF Parts

LEMMA FinalKeeps == ASSUME ScanInv, Final PROVE ScanInv'
<1> DEFINE refused == Refused(net.log) # {}
<1>1. UNCHANGED <<world, net, axe, keys, judged>> /\ scan.pc = "final" /\ net' \in Nets /\ Shapes
  BY DEF Final, ScanInv, Shapes
<1>2. PICK is : is = refused
  OBVIOUS
<1>3. CASE /\ GoneAway(scan.obs, net.log)
           /\ scan' = [[scan EXCEPT !.ended = dom.shows, !.refusedBy = refused]
                         EXCEPT !.kind = "notReached", !.gaps = {"away"}, !.drafts = {}, !.stops = "none",
                                !.pc = "blocked"]
  <2>1. scan' = [scan EXCEPT !.ended = dom.shows, !.refusedBy = is, !.kind = "notReached", !.gaps = {"away"},
                             !.drafts = {}, !.stops = "none", !.pc = "blocked"]
    BY <1>1, <1>2, <1>3 DEF Shapes
  <2>2. Shapes' /\ scan'.drafts = {} /\ scan'.gaps = {"away"} /\ scan'.pc = "blocked"
        /\ scan'.finished = scan.finished /\ scan'.missed = scan.missed /\ scan'.unsure = scan.unsure
        /\ scan'.dirty = scan.dirty
    BY <1>1, <2>1 DEF Shapes
  <2>3. Kept'
    BY <1>1, <2>2 DEF Kept, DraftsAreOfAWalk, WalkedHeld, KeptShowed, Checking, Ending
  <2>4. DataAfterRefusal'
    BY <1>1 DEF ScanInv, Expired, DataAfterRefusal, Refused
  <2>5. Expired'
    BY <1>1, <2>2, <2>4 DEF ScanInv, Expired, OnlyRunsSignIn, RefusalShows, Ending, Cli
  <2>6. FramesNamed' /\ WalkedToTheEnd' /\ Traffic' /\ ~scan'.dirty /\ scan'.finished \subseteq ProviderIds
    BY <1>1, <2>2, WholeStays
  <2>7. Accounted' /\ LeakShows'
    BY <2>2, <2>6 DEF Accounted, LeakShows, Early
  <2> QED
    BY <2>2, <2>3, <2>5, <2>6, <2>7 DEF ScanInv, NotBegun, ProviderIsNext, Whole
<1>4. CASE /\ ~GoneAway(scan.obs, net.log)
           /\ scan' = [[scan EXCEPT !.ended = dom.shows, !.refusedBy = refused]
                         EXCEPT !.kind = "full", !.parts = Parts, !.pc = "blocked"]
  <2>1. PICK parts : parts = Parts
    OBVIOUS
  <2>2. scan' = [scan EXCEPT !.ended = dom.shows, !.refusedBy = is, !.kind = "full", !.parts = parts,
                             !.pc = "blocked"]
    BY <1>1, <1>2, <1>4, <2>1 DEF Shapes
  <2>3. /\ Shapes' /\ scan'.drafts = scan.drafts /\ scan'.pc = "blocked" /\ scan'.ended = dom.shows
        /\ scan'.refusedBy = is /\ scan'.parts = parts /\ scan'.obs = scan.obs
        /\ scan'.outcome = scan.outcome /\ scan'.walked = scan.walked
    BY <1>1, <2>2 DEF Shapes
  <2>9. /\ scan'.pc = "blocked" /\ scan'.kind = "full" /\ scan'.gaps = scan.gaps
        /\ scan'.finished = scan.finished /\ scan'.missed = scan.missed /\ scan'.unsure = scan.unsure
        /\ scan'.dirty = scan.dirty
    BY <1>1, <2>2 DEF Shapes
  <2>4. FALSE \notin parts =>
          /\ DeclaresSelector => Matches(dom.shows)
          /\ DeclaresResponse => ResponseSeen(net.log, Declared)
    <3>1. FALSE \notin parts /\ DeclaresSelector => {Matches(dom.shows)} = {TRUE}
      BY <2>1, PartsSay DEF SelectorPart
    <3>2. FALSE \notin parts /\ DeclaresResponse => {ResponseSeen(net.log, Declared)} = {TRUE}
      BY <2>1, PartsSay DEF ResponsePart
    <3> QED
      BY <3>1, <3>2
  <2>5. Kept'
    <3>1. WalkedHeld'
      BY <1>1, <2>3 DEF ScanInv, Kept, WalkedHeld, Checking, DeclaresSelector
    <3>2. KeptShowed'
      BY <1>1, <2>3, <2>4 DEF KeptShowed, DeclaresSelector, DeclaresResponse, Matches, ResponseSeen
    <3>3. DraftsAreOfAWalk'
      BY <2>3 DEF DraftsAreOfAWalk, Ending
    <3> QED
      BY <3>1, <3>2, <3>3 DEF Kept
  <2>6. DataAfterRefusal' /\ OnlyRunsSignIn'
    BY <1>1 DEF ScanInv, Expired, DataAfterRefusal, OnlyRunsSignIn, Refused, Cli
  <2>7. world.session = "expired" => ~is /\ (DeclaresResponse => FALSE \in parts)
    <3>1. world.session = "expired" => Refused(net.log) = {} /\ ~ResponseSeen(net.log, Declared)
      BY <1>4, RefusalIsAway DEF ScanInv, Expired
    <3> QED
      BY <1>2, <2>4, <3>1
  <2>8. RefusalShows'
    BY <1>1, <2>3, <2>7 DEF RefusalShows, Ending, DeclaresResponse
  <2>10. FramesNamed' /\ WalkedToTheEnd' /\ Traffic' /\ ~scan'.dirty /\ scan'.finished \subseteq ProviderIds
    BY <1>1, <2>9, WholeStays
  <2>11. EveryProviderRuns /\ scan.gaps = {} => ProviderIds \subseteq scan.finished
    BY <1>1 DEF ScanInv, Whole, Accounted
  <2>12. Accounted' /\ LeakShows'
    BY <2>9, <2>10, <2>11 DEF Accounted, LeakShows, EveryProviderRuns, Early, Checking
  <2> QED
    BY <2>3, <2>5, <2>6, <2>8, <2>10, <2>12 DEF ScanInv, Expired, NotBegun, ProviderIsNext, Whole
<1> QED
  BY <1>3, <1>4 DEF Final

\* After the last reads nothing is taken back: gaps come, and a part that was
\* not seen takes the drafts and leaves a gap.
LEMMA AfterTheReads ==
  ASSUME ScanInv, Shapes', UNCHANGED <<world, net, axe, keys, judged>>, SameWork, LeakShows',
         scan.pc \in {"blocked", "closing", "unseen"}, scan'.pc \in Ending, scan'.kind = scan.kind,
         scan'.parts = scan.parts, scan'.obs = scan.obs, scan'.outcome = scan.outcome,
         scan'.walked = scan.walked, scan'.ended = scan.ended, scan'.refusedBy = scan.refusedBy,
         IF scan'.pc # "done" THEN scan'.drafts = scan.drafts
         ELSE IF FALSE \in scan.parts THEN scan'.drafts = {} /\ scan'.gaps # {}
         ELSE scan'.drafts \in {{}, scan.drafts}
  PROVE  ScanInv'
<1>1. Kept'
  BY DEF ScanInv, Kept, DraftsAreOfAWalk, WalkedHeld, KeptShowed, Checking, Ending, DeclaresSelector,
     DeclaresResponse, Matches, ResponseSeen
<1>2. DataAfterRefusal'
  BY DEF ScanInv, Expired, DataAfterRefusal, Refused
<1>9. scan.gaps # {} => scan'.gaps # {}
  BY DEF SameWork
<1>3. Expired'
  BY <1>2, <1>9 DEF ScanInv, Expired, OnlyRunsSignIn, RefusalShows, Ending, Cli, DeclaresResponse
<1>4. FramesNamed' /\ WalkedToTheEnd' /\ Traffic' /\ ~scan'.dirty /\ scan'.finished \subseteq ProviderIds
  BY WholeStays DEF SameWork, Ending
<1>5. scan'.gaps = {} => scan.gaps = {}
  BY DEF SameWork
<1>6. scan'.gaps = {} /\ scan'.pc = "done" => FALSE \notin scan'.parts
  OBVIOUS
<1>7. EveryProviderRuns /\ scan'.gaps = {} /\ FALSE \notin scan'.parts =>
        scan'.kind = "full" /\ ProviderIds \subseteq scan'.finished
  BY <1>5 DEF ScanInv, Whole, Accounted, SameWork, Ending
<1>8. Accounted'
  BY <1>4, <1>6, <1>7 DEF Accounted, EveryProviderRuns, Early, Checking, Ending
<1> QED
  BY <1>1, <1>3, <1>4, <1>8 DEF ScanInv, NotBegun, ProviderIsNext, Ending, Whole

LEMMA ReadBlockedKeeps == ASSUME ScanInv, ReadBlocked PROVE ScanInv'
<1>1. UNCHANGED <<world, net, axe, keys, judged>> /\ scan.pc = "blocked" /\ net' \in Nets /\ Shapes
  BY DEF ReadBlocked, ScanInv, Shapes
<1>2. PICK gaps, unheard :
        /\ scan.gaps \subseteq gaps
        /\ \/ ~world.isolated /\ scan' = [scan EXCEPT !.pc = "closing"]
           \/ /\ world.isolated /\ ~judged.pending /\ (gaps = {} => ~Blocked)
              /\ unheard = (judged.reports # {})
              /\ scan' = [scan EXCEPT !.pc = "closing", !.unheard = unheard, !.gaps = gaps]
  <2>1. CASE ~world.isolated
    BY <2>1 DEF ReadBlocked, Go
  <2>2. CASE world.isolated
    <3>1. PICK reads \in BOOLEAN :
            scan' = [scan EXCEPT !.pc = "closing", !.unheard = judged.reports # {},
                                 !.gaps = IF Blocked \/ ~reads THEN @ \cup {"blocked"} ELSE @]
      BY <2>2 DEF ReadBlocked
    <3>2. PICK gaps, unheard : /\ gaps = (IF Blocked \/ ~reads THEN scan.gaps \cup {"blocked"} ELSE scan.gaps)
                               /\ unheard = (judged.reports # {})
      OBVIOUS
    <3>3. scan' = [scan EXCEPT !.pc = "closing", !.unheard = unheard, !.gaps = gaps]
      BY <1>1, <3>1, <3>2 DEF Shapes
    <3>4. ~judged.pending
      BY <2>2 DEF ReadBlocked, CanReadBlocked
    <3>5. scan.gaps \subseteq gaps /\ (gaps = {} => ~Blocked)
      BY <3>2
    <3> HIDE DEF Blocked
    <3> QED
      BY <2>2, <3>2, <3>3, <3>4, <3>5
  <2> QED
    BY <2>1, <2>2
<1>3. /\ Shapes' /\ scan'.pc = "closing" /\ SameWork /\ scan'.drafts = scan.drafts /\ scan'.kind = scan.kind
      /\ scan'.parts = scan.parts /\ scan'.obs = scan.obs /\ scan'.outcome = scan.outcome
      /\ scan'.walked = scan.walked /\ scan'.ended = scan.ended /\ scan'.refusedBy = scan.refusedBy
  <2>1. CASE scan' = [scan EXCEPT !.pc = "closing"]
    BY <1>1, <2>1 DEF Shapes, SameWork
  <2>2. CASE scan' = [scan EXCEPT !.pc = "closing", !.unheard = unheard, !.gaps = gaps]
    BY <1>1, <1>2, <2>2 DEF Shapes, SameWork
  <2> QED
    BY <1>2, <2>1, <2>2
\* With nothing caught, nothing under check and every known worker watched,
\* what left the page has a report that is still to come.
<1>4. LeakShows'
  <2>1. CASE ~world.isolated
    BY <1>1, <2>1 DEF LeakShows, ScanInv, Whole, Traffic
  <2>2. CASE /\ world.isolated /\ ~judged.pending /\ (gaps = {} => ~Blocked) /\ unheard = (judged.reports # {})
             /\ scan' = [scan EXCEPT !.pc = "closing", !.unheard = unheard, !.gaps = gaps]
    <3>1. scan'.gaps = gaps /\ scan'.unheard = unheard
      BY <1>1, <2>2 DEF Shapes
    <3>2. ASSUME gaps = {}, judged.leaked, judged.reports = {} PROVE FALSE
      <4>1. ~judged.caught /\ (judged.known => judged.watched)
        BY <2>2, <3>2 DEF Blocked
      <4>2. judged.worker = "free"
        BY <2>2, <3>2, <4>1 DEF ScanInv, Whole, Traffic
      <4>3. judged.known /\ ~judged.watched
        BY <3>2, <4>2 DEF ScanInv, Whole, Traffic
      <4> QED
        BY <4>1, <4>3
    <3> QED
      BY <1>1, <2>2, <3>1, <3>2 DEF LeakShows
  <2> QED
    BY <1>2, <2>1, <2>2
<1> QED
  BY <1>1, <1>3, <1>4, AfterTheReads DEF Ending

LEMMA CloseKeeps == ASSUME ScanInv, Close PROVE ScanInv'
<1>1. UNCHANGED <<world, net, axe, keys, judged>> /\ scan.pc = "closing" /\ net' \in Nets /\ Shapes
  BY DEF Close, ScanInv, Shapes
<1>2. \/ scan' = [scan EXCEPT !.pc = "unseen"]
      \/ scan' = [scan EXCEPT !.pc = "unseen", !.gaps = scan.gaps \cup {"cleanup"}]
  BY <1>1 DEF Close, Go, Shapes
<1>3. /\ Shapes' /\ scan'.pc = "unseen" /\ SameWork /\ scan'.drafts = scan.drafts /\ scan'.kind = scan.kind
      /\ scan'.parts = scan.parts /\ scan'.obs = scan.obs /\ scan'.outcome = scan.outcome
      /\ scan'.walked = scan.walked /\ scan'.ended = scan.ended /\ scan'.refusedBy = scan.refusedBy
      /\ scan'.unheard = scan.unheard
  BY <1>1, <1>2 DEF Shapes, SameWork
<1>4. LeakShows'
  BY <1>1, <1>3 DEF LeakShows, ScanInv, Whole, SameWork
<1> QED
  BY <1>1, <1>3, <1>4, AfterTheReads DEF Ending

LEMMA MarkUnseenKeeps == ASSUME ScanInv, MarkUnseen PROVE ScanInv'
<1>1. UNCHANGED <<world, net, axe, keys, judged>> /\ scan.pc = "unseen" /\ net' \in Nets /\ Shapes
  BY DEF MarkUnseen, ScanInv, Shapes
<1>2. PICK drafts, gaps : /\ drafts = (IF Unseen THEN {} ELSE scan.drafts)
                          /\ gaps = (IF Unseen THEN scan.gaps \cup {"unseen"} ELSE scan.gaps)
  OBVIOUS
<1>3. scan' = [scan EXCEPT !.pc = "done", !.drafts = drafts, !.gaps = gaps]
  BY <1>1, <1>2 DEF MarkUnseen, Shapes
<1>4. /\ Shapes' /\ scan'.pc = "done" /\ scan'.gaps = gaps /\ scan'.drafts = drafts
      /\ scan'.parts = scan.parts /\ scan'.obs = scan.obs /\ scan'.outcome = scan.outcome
      /\ scan'.walked = scan.walked /\ scan'.ended = scan.ended /\ scan'.refusedBy = scan.refusedBy
      /\ scan'.kind = scan.kind /\ scan'.unheard = scan.unheard
      /\ scan'.todo = scan.todo /\ scan'.finished = scan.finished /\ scan'.missed = scan.missed
      /\ scan'.unsure = scan.unsure /\ scan'.dirty = scan.dirty
  BY <1>1, <1>3 DEF Shapes
<1>5. FALSE \in scan.parts => Unseen
  BY DEF Unseen
<1>6. SameWork
  BY <1>2, <1>4 DEF SameWork
<1>7. LeakShows'
  BY <1>1, <1>4, <1>6 DEF LeakShows, ScanInv, Whole, SameWork
<1> QED
  BY <1>1, <1>2, <1>4, <1>5, <1>6, <1>7, AfterTheReads DEF Ending

\* The page moves; what it records, it keeps.
LEMMA AnswerRecords ==
  ASSUME net \in Nets, DataAfterRefusal, UNCHANGED world, NEW r \in net.open, NEW kind \in Kinds, Answer(r, kind)
  PROVE  net' \in Nets /\ DataAfterRefusal'
<1> DEFINE entry == [addr |-> r.addr, kind |-> kind, early |-> r.early]
           log == IF kind = "lost" THEN net.log ELSE Append(net.log, entry)
           n == [net EXCEPT !.open = @ \ {r}, !.log = log]
<1>1. entry \in Entries /\ net.log \in Seq(Entries) /\ r.addr \in AppAddrs
  BY DEF Nets, Entries
<1>2. log \in Seq(Entries)
  BY <1>1
<1>3. n \in Nets /\ n.log = log
  <2> HIDE DEF log
  <2> QED
    BY <1>2 DEF Nets
<1>4. net' \in {n, [n EXCEPT !.idle = 0]}
  BY DEF Answer, Settled
<1>5. net' \in Nets /\ net'.log = log
  <2> HIDE DEF n, log
  <2> QED
    BY <1>3, <1>4 DEF Nets
<1>6. DataAfterRefusal'
  <2> SUFFICES ASSUME world.session = "expired", NEW i \in DOMAIN log, log[i].kind = "ok"
               PROVE  \E j \in DOMAIN log : log[j].kind = "refused" /\ log[j].addr = log[i].addr
    <3>1. net'.log = log /\ world'.session = world.session
      BY <1>5
    <3> HIDE DEF log
    <3> QED
      BY <3>1 DEF DataAfterRefusal, Refused
  <2>1. \A j \in DOMAIN net.log : j \in DOMAIN log /\ log[j] = net.log[j]
    BY <1>1
  <2>2. CASE i \in DOMAIN net.log
    <3>1. net.log[i].kind = "ok" /\ net.log[i].addr = log[i].addr
      BY <2>1, <2>2
    <3>2. net.log[i].addr \in Refused(net.log)
      BY <2>2, <3>1 DEF DataAfterRefusal
    <3>3. PICK j \in DOMAIN net.log : net.log[j].kind = "refused" /\ net.log[j].addr = net.log[i].addr
      BY <3>2 DEF Refused
    <3> QED
      BY <2>1, <3>1, <3>3
  <2>3. CASE i \notin DOMAIN net.log
    <3>1. kind # "lost" /\ log[i] = entry
      BY <1>1, <2>3
    <3>2. kind = "ok" /\ log[i].addr = r.addr
      BY <3>1
    <3>3. RefusedOnce(r.addr)
      BY <3>2 DEF Answer, CanAnswer
    <3>4. PICK j \in DOMAIN net.log : net.log[j].addr = r.addr /\ net.log[j].kind = "refused"
      BY <3>3 DEF RefusedOnce
    <3> QED
      BY <2>1, <3>2, <3>4
  <2> QED
    BY <2>2, <2>3
<1> QED
  BY <1>5, <1>6

LEMMA PageMovesRecord ==
  ASSUME net \in Nets, DataAfterRefusal, UNCHANGED world, PageMoves
  PROVE  net' \in Nets /\ DataAfterRefusal'
<1>1. ASSUME net' \in Nets, net'.log = net.log PROVE net' \in Nets /\ DataAfterRefusal'
  BY <1>1 DEF DataAfterRefusal, Refused
<1>2. ASSUME NEW a \in AppAddrs, Send(a) PROVE net' \in Nets /\ net'.log = net.log
  <2>1. PICK early : early = ~net.marked
    OBVIOUS
  <2>2. Request(a) = [addr |-> a, early |-> early] /\ early \in BOOLEAN
    BY <2>1 DEF Request
  <2>3. Request(a) \in [addr: AppAddrs, early: BOOLEAN]
    BY <2>2
  <2> QED
    BY <1>2, <2>3 DEF Send, Nets
<1>3. ASSUME NEW a \in AppAddrs, NEW r \in net.open, Redirect(r, a) PROVE net' \in Nets /\ net'.log = net.log
  <2>1. [r EXCEPT !.addr = a] \in [addr: AppAddrs, early: BOOLEAN]
    BY DEF Nets
  <2> QED
    BY <1>3, <2>1 DEF Redirect, Nets
<1>4. CASE \E r \in net.open, kind \in Kinds : Answer(r, kind)
  BY <1>4, AnswerRecords
<1>5. CASE WorkerInstalls \/ WorkerActive \/ DomChanges
  <2>1. CASE WorkerInstalls
    BY <1>1, <2>1 DEF WorkerInstalls, Nets
  <2>2. CASE WorkerActive
    <3>1. net' \in Nets /\ net'.log = net.log
      BY <2>2 DEF WorkerActive, Settled, Nets
    <3> QED
      BY <1>1, <3>1
  <2>3. CASE DomChanges
    BY <1>1, <2>3 DEF DomChanges
  <2> QED
    BY <1>5, <2>1, <2>2, <2>3
<1> QED
  BY <1>1, <1>2, <1>3, <1>4, <1>5 DEF PageMoves

LEMMA PageStepKeeps == ASSUME ScanInv, PageStep PROVE ScanInv'
<1>1. UNCHANGED <<world, axe, keys, judged, scan>> /\ PageMoves
      /\ scan.pc \in {"sample", "password", "selector", "after", "final"}
  BY DEF PageStep, ReadsPage
<1>2. net' \in Nets /\ DataAfterRefusal'
  BY <1>1, PageMovesRecord DEF ScanInv, Shapes, Expired
<1>3. Shapes' /\ ProviderIsNext' /\ NotBegun'
  BY <1>1, <1>2 DEF ScanInv, Shapes, ProviderIsNext, NotBegun
<1>4. Kept' /\ Expired'
  BY <1>1, <1>2 DEF ScanInv, Kept, DraftsAreOfAWalk, WalkedHeld, KeptShowed, Expired, OnlyRunsSignIn,
     RefusalShows, Ending, Cli, DeclaresSelector, DeclaresResponse
<1>5. Whole'
  <2>1. FramesNamed' /\ WalkedToTheEnd'
    BY <1>1 DEF ScanInv, Whole, FramesNamed, WalkedToTheEnd
  <2>2. Accounted'
    BY <1>1 DEF ScanInv, Whole, Accounted, InTodo, EveryProviderRuns
  <2>3. Traffic' /\ LeakShows'
    BY <1>1 DEF ScanInv, Whole, Traffic, LeakShows
  <2> QED
    BY <2>1, <2>2, <2>3 DEF Whole
<1> QED
  BY <1>3, <1>4, <1>5 DEF ScanInv

\* A step beside the scan that leaves the page's own record.
LEMMA BesideTheScan ==
  ASSUME ScanInv, UNCHANGED <<world, net, axe, keys, scan>>, Traffic', LeakShows',
         scan.pc = "waiting" => UNCHANGED judged /\ use'.pc # "scanning"
  PROVE  ScanInv'
<1>1. Shapes' /\ ProviderIsNext' /\ NotBegun'
  BY DEF ScanInv, Shapes, ProviderIsNext, NotBegun
<1>2. DataAfterRefusal'
  BY DEF ScanInv, Expired, DataAfterRefusal, Refused
<1>3. Kept' /\ Expired'
  BY <1>2 DEF ScanInv, Kept, DraftsAreOfAWalk, WalkedHeld, KeptShowed, Expired, OnlyRunsSignIn,
     RefusalShows, Cli, DeclaresSelector, DeclaresResponse, Matches, ResponseSeen
<1>4. FramesNamed' /\ WalkedToTheEnd' /\ Accounted'
  BY DEF ScanInv, Whole, FramesNamed, WalkedToTheEnd, Accounted, InTodo, EveryProviderRuns
<1> QED
  BY <1>1, <1>3, <1>4 DEF ScanInv, Whole

\* What the page sends and what the browser says of it keep each other's trace.
LEMMA TrafficKeeps == ASSUME Traffic, world.isolated, UNCHANGED world, TrafficMoves PROVE Traffic'
<1>1. judged = [worker |-> judged.worker, reports |-> judged.reports, known |-> judged.known,
                watched |-> judged.watched, pending |-> judged.pending, caught |-> judged.caught,
                leaked |-> judged.leaked]
  BY DEF Traffic
<1>2. PICK yes : yes = TRUE
  OBVIOUS
<1>3. CASE RequestStopped
  <2>1. judged' = [judged EXCEPT !.caught = yes]
    BY <1>2, <1>3 DEF RequestStopped
  <2> QED
    BY <1>1, <1>2, <2>1 DEF Traffic
<1>4. CASE HopLeaves
  <2>1. judged' = [judged EXCEPT !.reports = judged.reports \cup {"hop"}, !.leaked = yes]
    BY <1>1, <1>2, <1>4 DEF HopLeaves, Report
  <2> QED
    BY <1>1, <1>2, <2>1 DEF Traffic
<1>5. CASE WrongServer
  <2>1. judged' = [judged EXCEPT !.reports = judged.reports \cup {"answer"}, !.leaked = yes]
    BY <1>1, <1>2, <1>5 DEF WrongServer, Report
  <2> QED
    BY <1>1, <1>2, <2>1 DEF Traffic
<1>6. CASE \E held \in BOOLEAN : ServiceWorkerStarts(held)
  <2>1. judged.worker = "none"
    BY <1>6 DEF ServiceWorkerStarts
  <2>2. PICK worker \in {"held", "free"}, started \in {{"created"}, {"created", "attached"}} :
          /\ "attached" \in started => worker = "held"
          /\ judged' = [judged EXCEPT !.worker = worker, !.reports = judged.reports \cup started]
    <3>1. PICK held \in BOOLEAN :
            judged' = [judged EXCEPT !.worker = IF held THEN "held" ELSE "free",
                                     !.reports = @ \cup {"created"} \cup (IF held THEN {"attached"} ELSE {})]
      BY <1>6 DEF ServiceWorkerStarts
    <3>2. judged.reports \cup {"created"} \cup {"attached"} = judged.reports \cup {"created", "attached"}
          /\ judged.reports \cup {"created"} \cup {} = judged.reports \cup {"created"}
      OBVIOUS
    <3>3. CASE held = TRUE
      <4>1. judged' = [judged EXCEPT !.worker = "held", !.reports = judged.reports \cup {"created", "attached"}]
        BY <1>1, <3>1, <3>2, <3>3
      <4> QED
        BY <4>1
    <3>4. CASE held = FALSE
      <4>1. judged' = [judged EXCEPT !.worker = "free", !.reports = judged.reports \cup {"created"}]
        BY <1>1, <3>1, <3>2, <3>4
      <4> QED
        BY <4>1
    <3> QED
      BY <3>3, <3>4
  <2>3. /\ judged'.worker = worker /\ judged'.reports = judged.reports \cup started
        /\ judged'.known = judged.known /\ judged'.watched = judged.watched /\ judged'.pending = judged.pending
        /\ judged'.caught = judged.caught /\ judged'.leaked = judged.leaked
        /\ judged' = [worker |-> judged'.worker, reports |-> judged'.reports, known |-> judged'.known,
                      watched |-> judged'.watched, pending |-> judged'.pending, caught |-> judged'.caught,
                      leaked |-> judged'.leaked]
    BY <1>1, <2>2
  <2> QED
    BY <2>1, <2>2, <2>3 DEF Traffic
<1>7. CASE SharedWorkerStarts
  <2>1. judged' = [judged EXCEPT !.reports = judged.reports \cup {"shared"}, !.worker = "shared", !.leaked = yes]
        /\ judged.worker = "none"
    BY <1>1, <1>2, <1>7 DEF SharedWorkerStarts, Report
  <2> QED
    BY <1>1, <1>2, <2>1 DEF Traffic
<1>8. CASE SocketOpens
  <2>1. CASE judged.worker = "watched"
    <3>1. judged' = [judged EXCEPT !.reports = judged.reports \cup {"socket"}, !.leaked = yes]
      BY <1>1, <1>2, <1>8, <2>1 DEF SocketOpens, Report
    <3> QED
      BY <1>1, <1>2, <3>1 DEF Traffic
  <2>2. CASE judged.worker = "free"
    <3>1. judged' = [judged EXCEPT !.leaked = yes]
      BY <1>1, <1>2, <1>8, <2>2 DEF SocketOpens
    <3> QED
      BY <1>1, <1>2, <2>2, <3>1 DEF Traffic
  <2> QED
    BY <1>8, <2>1, <2>2 DEF SocketOpens
<1> QED
  BY <1>3, <1>4, <1>5, <1>6, <1>7, <1>8 DEF TrafficMoves

LEMMA HearingKeeps == ASSUME Traffic, UNCHANGED world, Hearing PROVE Traffic'
<1>1. judged = [worker |-> judged.worker, reports |-> judged.reports, known |-> judged.known,
                watched |-> judged.watched, pending |-> judged.pending, caught |-> judged.caught,
                leaked |-> judged.leaked]
  BY DEF Traffic
<1>2. PICK yes, no : yes = TRUE /\ no = FALSE
  OBVIOUS
<1>3. ASSUME NEW x \in judged.reports, Hears(x) PROVE Traffic'
  <2> DEFINE rest == judged.reports \ {x}
  <2>1. CASE x = "created"
    <3>1. judged' = [judged EXCEPT !.reports = rest, !.known = yes]
      BY <1>1, <1>2, <1>3, <2>1 DEF Hears, Heard
    <3> QED
      BY <1>1, <1>2, <2>1, <3>1 DEF Traffic
  <2>2. CASE x = "attached"
    <3>1. judged' = [judged EXCEPT !.reports = rest, !.worker = "asked"]
      BY <1>1, <1>3, <2>2 DEF Hears, Heard
    <3> QED
      BY <1>1, <2>2, <3>1 DEF Traffic
  <2>3. CASE x = "enabled"
    <3>1. judged' = [judged EXCEPT !.reports = rest, !.watched = yes]
      BY <1>1, <1>2, <1>3, <2>3 DEF Hears, Heard
    <3> QED
      BY <1>1, <1>2, <2>3, <3>1 DEF Traffic
  <2>4. CASE x = "answer"
    <3>1. judged' = [judged EXCEPT !.reports = rest, !.pending = yes]
      BY <1>1, <1>2, <1>3, <2>4 DEF Hears, Heard
    <3> QED
      BY <1>1, <1>2, <2>4, <3>1 DEF Traffic
  <2>5. CASE x \notin {"created", "attached", "enabled", "answer"}
    <3>1. judged' = [judged EXCEPT !.reports = rest, !.caught = yes]
      BY <1>1, <1>2, <1>3, <2>5 DEF Hears, Heard
    <3> QED
      BY <1>1, <1>2, <2>5, <3>1 DEF Traffic
  <2> QED
    BY <2>1, <2>2, <2>3, <2>4, <2>5
<1>4. CASE AddressChecked
  <2>1. judged' = [judged EXCEPT !.pending = no, !.caught = yes]
    BY <1>1, <1>2, <1>4 DEF AddressChecked
  <2> QED
    BY <1>1, <1>2, <2>1 DEF Traffic
<1>5. ASSUME NEW ok \in BOOLEAN, WorkerEnables(ok) PROVE Traffic'
  <2>1. judged.worker = "asked"
    BY <1>5 DEF WorkerEnables
  <2>2. CASE ok = TRUE
    <3>1. judged' = [judged EXCEPT !.reports = judged.reports \cup {"enabled"}, !.worker = "watched"]
      BY <1>1, <1>5, <2>2 DEF WorkerEnables, Report
    <3> QED
      BY <1>1, <2>1, <3>1 DEF Traffic
  <2>3. CASE ok = FALSE
    <3>1. judged' = [judged EXCEPT !.reports = judged.reports \cup {"refused"}, !.worker = "free"]
      BY <1>1, <1>5, <2>3 DEF WorkerEnables, Report
    <3> QED
      BY <1>1, <2>1, <3>1 DEF Traffic
  <2> QED
    BY <2>2, <2>3
<1> QED
  BY <1>3, <1>4, <1>5 DEF Hearing

\* A scan begins: with nothing of a page, or ended because none opened.
LEMMA BeginScans ==
  ASSUME ScanInv, NEW W, W \subseteq ScanWorlds, Begin(W),
         scan' = NewScan \/ scan' = [EndWith("failed", {"open"}) EXCEPT !.pc = "unseen"]
  PROVE  ScanInv'
<1>1. scan.pc = "waiting" /\ net = QuietNet /\ net' = QuietNet /\ world' \in ScanWorlds
  BY DEF Begin, ScanInv, NotBegun
<1>2. scan.drafts = {} /\ ~scan.refusedBy /\ Shapes
  BY <1>1 DEF ScanInv, Kept, DraftsAreOfAWalk, Expired, RefusalShows, Checking, Ending
<1>10. scan.finished = {} /\ ~scan.missed /\ ~scan.dirty
  BY <1>1 DEF ScanInv, NotBegun, Whole, Accounted
<1>3. /\ Shapes' /\ scan'.drafts = {} /\ ~scan'.refusedBy
      /\ scan'.finished = {} /\ ~scan'.missed /\ ~scan'.dirty
      /\ scan'.pc = "open" \/ (scan'.pc = "unseen" /\ scan'.gaps # {})
  <2>1. CASE scan' = NewScan
    <3>1. scan'.pc = "open" /\ scan'.drafts = {} /\ ~scan'.refusedBy
          /\ scan'.finished = {} /\ ~scan'.missed /\ ~scan'.dirty
      BY <2>1 DEF NewScan
    <3>2. net' \in Nets /\ scan'.todo \in Seq(ProviderIds)
      BY <1>1, <1>2, <2>1 DEF NewScan, Shapes
    <3>3. scan'.obs = NoObs
      BY <2>1 DEF NewScan
    <3>4. scan'.obs = [away |-> scan'.obs.away, password |-> scan'.obs.password, seen |-> scan'.obs.seen,
                       selector |-> scan'.obs.selector, response |-> scan'.obs.response]
      BY <3>3 DEF NoObs
    <3>5. Shapes'
      BY <2>1, <3>2, <3>4 DEF Shapes, NewScan
    <3> QED
      BY <3>1, <3>5
  <2>2. CASE scan' = [EndWith("failed", {"open"}) EXCEPT !.pc = "unseen"]
    BY <1>1, <1>2, <1>10, <2>2 DEF Shapes, EndWith
  <2> QED
    BY <2>1, <2>2
<1>4. OnlyRunsSignIn'
  BY <1>1 DEF OnlyRunsSignIn, ScanWorlds, Worlds, Cli
<1>5. DataAfterRefusal'
  BY <1>1 DEF DataAfterRefusal, QuietNet
<1>6. Kept' /\ RefusalShows'
  BY <1>3 DEF Kept, DraftsAreOfAWalk, WalkedHeld, KeptShowed, RefusalShows, Checking, Ending
<1>7. axe' = NoRun /\ keys' = NoKeys /\ judged' = NoTraffic
  BY <1>1 DEF Begin, ScanInv, NotBegun
<1>8. FramesNamed' /\ WalkedToTheEnd' /\ Traffic'
  BY <1>3, <1>7 DEF FramesNamed, WalkedToTheEnd, Traffic, NoRun, NoKeys, NoTraffic
<1>9. Accounted' /\ LeakShows'
  BY <1>3, <1>7 DEF Accounted, LeakShows, NoTraffic, Early, Checking, Ending
<1> QED
  BY <1>3, <1>4, <1>5, <1>6, <1>8, <1>9 DEF ScanInv, Expired, NotBegun, ProviderIsNext, Whole

LEMMA ScanStepKeeps == ASSUME ScanInv, Step PROVE ScanInv'
  BY OpenKeeps, SampleKeeps, ReadPasswordKeeps, ProbeReadKeeps, AfterProbeKeeps, DeadlineKeeps, LandKeeps,
     WalkKeeps, CrashKeeps, StartProviderKeeps, RunRulepackKeeps, RunAxeKeeps, RunWalkKeeps, AttachRowsKeeps,
     FinalKeeps, ReadBlockedKeeps, CloseKeeps, MarkUnseenKeeps DEF Step

\* The scan's inductive invariant holds of every behavior, for any page, any
\* providers and any session.
THEOREM ScanInvariance == Spec => []ScanInv
<1>1. ASSUME ScanInv, [Next]_allVars PROVE ScanInv'
  <2>1. CASE UNCHANGED allVars
    <3>1. use' = use /\ UNCHANGED <<world, net, scan, axe, keys, judged>>
      BY <2>1 DEF allVars, vars, signVars
    <3>2. Traffic' /\ LeakShows'
      BY <1>1, <3>1 DEF ScanInv, Whole, Traffic, LeakShows
    <3> QED
      BY <1>1, <3>1, <3>2, BesideTheScan DEF ScanInv, NotBegun
  <2>2. CASE Before
    <3>1. UNCHANGED <<world, net, scan, axe, keys, judged>> /\ scan.pc = "waiting" /\ use.pc # "scanning"
      BY <1>1, <2>2 DEF Before, vars, ScanInv, NotBegun
    <3>2. use'.pc # "scanning"
      <4>1. use' = use \/ use'.pc \in {"stopped", "resolved"}
        BY <2>2 DEF Before, SignNext, SessionStep, EditRules, PutFile, TimePasses, Resolve
      <4> QED
        BY <3>1, <4>1
    <3>3. Traffic' /\ LeakShows'
      BY <1>1, <3>1 DEF ScanInv, Whole, Traffic, LeakShows
    <3> QED
      BY <1>1, <3>1, <3>2, <3>3, BesideTheScan
  <2>3. CASE BeginRun \/ BeginFails \/ BeginPage
    BY <1>1, <2>3, BeginScans DEF BeginRun, BeginFails, BeginPage
  <2>4. CASE use.pc = "scanning" /\ ScanNext /\ UNCHANGED signVars
    <3>1. scan.pc # "waiting" /\ ScanNext
      BY <1>1, <2>4 DEF ScanInv, NotBegun
    <3>2. CASE Step
      BY <1>1, <3>2, ScanStepKeeps
    <3>3. CASE PageStep
      BY <1>1, <3>3, PageStepKeeps
    <3>4. CASE FrameStep \/ TrafficStep \/ HearingStep
      <4>1. UNCHANGED <<world, net, axe, keys, scan>>
        BY <3>4 DEF FrameStep, TrafficStep, HearingStep
      <4>2. Traffic'
        BY <1>1, <3>4, <4>1, TrafficKeeps, HearingKeeps
        DEF FrameStep, TrafficStep, HearingStep, ScanInv, Whole, Traffic
      <4>3. LeakShows'
        BY <1>1, <3>4 DEF FrameStep, TrafficStep, HearingStep, ScanInv, Whole, LeakShows
      <4> QED
        BY <1>1, <3>1, <4>1, <4>2, <4>3, BesideTheScan
    <3> QED
      BY <3>1, <3>2, <3>3, <3>4 DEF ScanNext
  <2> QED
    BY <1>1, <2>1, <2>2, <2>3, <2>4 DEF Next, Ended
<1> QED
  BY <1>1, ScanStarts, PTL DEF Spec

\* Findings are kept only from a screen that showed what its surface declares
\* when the walk began and when the checks ended (providers/check-runner.ts,
\* coverage/unseen.ts).
THEOREM KeptFindingsWereThere == Spec => []KeptWasThere
<1>1. ScanInv => KeptWasThere
  BY DEF ScanInv, Kept, WalkedHeld, KeptShowed, KeptWasThere, Ending, ResponseSeen
<1> QED
  BY <1>1, ScanInvariance, PTL

\* A session the server refuses, or whose data never came, leaves no draft and
\* no clean screen (redirected.ts, reachability.ts).
THEOREM ExpiredSessionMeasuresNothing == Spec => []ExpiredMeasuresNothing
<1>1. ScanInv => ExpiredMeasuresNothing
  BY DEF ScanInv, Expired, RefusalShows, ExpiredMeasuresNothing, Ending
<1> QED
  BY <1>1, ScanInvariance, PTL

\* Where the configuration names every provider and every process answers when
\* its frame tree is read, a screen that goes to the gate with no gap and
\* nothing unverified was measured whole (providers/index.ts, axe/index.ts,
\* keyboard-walk/index.ts, deps/real.ts).
THEOREM CleanScansAreWhole == ASSUME TreesAnswer, EveryProviderRuns PROVE Spec => []CleanIsWhole
<1>1. ScanInv => CleanIsWhole
  <2> SUFFICES ASSUME ScanInv, Clean
               PROVE  /\ scan.kind = "full" /\ scan.finished = ProviderIds /\ ~scan.dirty
                      /\ keys.reason = "complete" /\ ~scan.missed
                      /\ judged.leaked => scan.unheard
    BY DEF CleanIsWhole
  <2>1. scan.pc = "done" /\ scan.gaps = {} /\ ~scan.unsure
    BY DEF Clean
  <2>2. scan.kind = "full" /\ scan.finished = ProviderIds /\ ~scan.dirty
    BY <2>1 DEF ScanInv, Whole, Accounted, Ending
  <2>3. keys.reason = "complete"
    BY <2>1, <2>2 DEF ScanInv, Whole, WalkedToTheEnd, ProviderIds
  <2>4. ~scan.missed
    BY <2>1 DEF ScanInv, Whole, FramesNamed
  <2>5. judged.leaked => scan.unheard
    BY <2>1 DEF ScanInv, Whole, LeakShows
  <2> QED
    BY <2>2, <2>3, <2>4, <2>5
<1> QED
  BY <1>1, ScanInvariance, PTL
=============================================================================
