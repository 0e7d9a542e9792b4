------------------------------- MODULE Wiring --------------------------------
(***************************************************************************)
(* What has to be set up for the gate to bind, and what `usabl doctor`     *)
(* says of it (src/doctor/index.ts, src/install/ci.ts): the gate workflow, *)
(* the branch rule, owners for the workflows, and guarded paths that cover *)
(* what CODEOWNERS owns.  Then a pull request against such a branch, with  *)
(* GitHub's own rules for merging it (external).                           *)
(*                                                                         *)
(* A site is [settings, owners, workflow, guarded]: GitHub's settings for  *)
(* main, its CODEOWNERS, its gate workflow and its guardedPaths.  A        *)
(* workflow file is [text, ref]: how it compares to the draft apart from   *)
(* the engine ref, and that ref.                                           *)
(***************************************************************************)
EXTENDS PolicyRule, BranchRule

CONSTANTS
    Sites,      \* where a behaviour starts
    Changes,    \* what a push may leave changed: [paths, barrier]
    Reads,      \* the sets of reads that may fail while doctor runs
    Author, Reviewers,
    Rewritten,  \* what a file holds that a push has changed
    MaxPushes   \* bound: pushes to the pull request

\* A path has a name, and is made of names.
IsPath(path) ==
  /\ path \in Seq(ToSet(path)) \ {<<>>}
  /\ \A i \in DOMAIN path : path[i] = File(path[i].stem, path[i].ext)

\* What compileCodeownersPattern makes of a line: a name on its own is not
\* anchored, and one it supports holds no range.
PatternShape(pattern) ==
  /\ IsPath(pattern.core)
  /\ ~pattern.anchored => Len(pattern.core) = 1
  /\ pattern.supported => \A i \in DOMAIN pattern.core : pattern.core[i].stem # "["

ASSUME WiringAssumption ==
  /\ \A s \in Sites :
       /\ s \in [settings : {s.settings}, owners : {s.owners}, workflow : {s.workflow}, guarded : {s.guarded}]
       /\ s.settings.classic.st \in {"read", "absent", "unreadable"}
       /\ s.workflow # Absent => s.workflow = [text |-> s.workflow.text, ref |-> s.workflow.ref]
       /\ \A g \in s.guarded : IsPath(g)
       /\ s.owners # Absent => /\ s.owners \in Seq(ToSet(s.owners))
                               /\ \A i \in DOMAIN s.owners : PatternShape(s.owners[i].pattern)
       /\ s.owners # Rewritten /\ [parses |-> TRUE, guarded |-> s.guarded] \notin {Absent, Rewritten}
  /\ \A c \in Changes : \A p \in c.paths : IsPath(p)
  /\ Rewritten # "old"

VARIABLES
    site,
    report,     \* doctor's last report on the site as it is
    change,     \* what the head of the pull request changes
    pushes, approvals,  \* [user, at]: who approved, after which push
    check,      \* the required check at the head
    merged

wiring == <<site, report, change, pushes, approvals, check, merged>>

-----------------------------------------------------------------------------
(* --------------------------- the gate workflow ------------------------- *)

WorkflowsDir == <<Dir(".github"), Dir("workflows")>>
Extensions == {"yml", "yaml"}
GateFile == Append(WorkflowsDir, File("usabl-gate", "yml"))
Draft == [text |-> "draft", ref |-> "placeholder"]

\* classifyWorkflow: the draft line for line, but for the commit it pins.
ClassifyWorkflow(file) ==
  CASE file = Absent                                      -> "missing"
    [] file # Absent /\ file.text # "draft"               -> "drifted"
    [] file # Absent /\ file.text = "draft"               ->
         (CASE file.ref = "commit" -> "wired" [] file.ref = "placeholder" -> "unpinned" [] OTHER -> "drifted")

\* collectCi.
CiState(file) == IF ClassifyWorkflow(file) = "unpinned" THEN "drifted" ELSE ClassifyWorkflow(file)

-----------------------------------------------------------------------------
(* --------------------------- workflow owners --------------------------- *)

\* A name no literal pattern can hold.
NewWorkflow(ext) == Append(WorkflowsDir, File("[", ext))

\* What GitHub runs: a file in the folder itself, with one of the extensions.
IsWorkflow(path) ==
  /\ IsPrefix(WorkflowsDir, path) /\ Len(path) = Len(WorkflowsDir) + 1
  /\ path[Len(path)].ext \in Extensions

\* matchesEveryNewWorkflow: what is true of that name is true of any.
EveryNew(pattern, ext) == Matches(pattern, NewWorkflow(ext))

CouldBeWorkflow(segment, ext) == segment.ext \in {"*", ext}

\* matchesSomeNewWorkflow: a name at any depth, or one in exactly this folder.
SomeNew(pattern, ext) ==
  \/ EveryNew(pattern, ext)
  \/ /\ ~pattern.directory
     /\ CouldBeWorkflow(pattern.core[Len(pattern.core)], ext)
     /\ IF Len(pattern.core) = 1 THEN ~pattern.anchored
        ELSE /\ Len(pattern.core) = Len(WorkflowsDir) + 1
             /\ \A i \in DOMAIN WorkflowsDir : SegmentMatches(pattern.core[i], WorkflowsDir[i])

\* ownerProblem: no owner, or one GitHub does not take.
OwnerProblem(rule) == rule.owners = {} \/ \E o \in rule.owners : o.kind = "word"

\* collectWorkflowOwners: the files present by the rule that decides each, and
\* a file to come by every rule from the last that decides all of them.
NewFilesOwned(rules, ext) ==
  LET full == {i \in DOMAIN rules : EveryNew(rules[i].pattern, ext)}
  IN /\ full # {}
     /\ \A i \in DOMAIN rules :
          (\A j \in full : j <= i) /\ SomeNew(rules[i].pattern, ext) => ~OwnerProblem(rules[i])
WorkflowOwners(rules, present) ==
  CASE rules = Absent -> "missing"
    [] rules # Absent /\ \E i \in DOMAIN rules : ~rules[i].pattern.supported -> "unknown"
    [] OTHER ->
         IF /\ \A p \in present : LastMatch(rules, p) # 0 /\ ~OwnerProblem(rules[LastMatch(rules, p)])
            /\ \A ext \in Extensions : NewFilesOwned(rules, ext)
         THEN "wired" ELSE "missing"

-----------------------------------------------------------------------------
(* ---------------------------- policy scope ----------------------------- *)

\* codeownersOwnedPaths: a path from the root with no wildcard can be compared
\* with a guarded prefix, nothing else can.
Reconcilable(pattern) ==
  pattern.anchored /\ \A i \in DOMAIN pattern.core : "*" \notin {pattern.core[i].stem, pattern.core[i].ext}
\* isPolicyPathCovered, over the guarded set of the config as it parses.
Covered(path, guarded) == \E g \in GuardedSet([parses |-> TRUE, guarded |-> guarded]) : IsPrefix(g, path)
PolicyScope(rules, guarded) ==
  IF rules = Absent THEN "missing"
  ELSE IF \A i \in DOMAIN rules : Reconcilable(rules[i].pattern) /\ Covered(rules[i].pattern.core, guarded)
       THEN "wired" ELSE "drifted"

-----------------------------------------------------------------------------
(* --------------------------- doctor, and set-up ------------------------ *)

\* guardRead: a file that cannot be read is an unknown surface.
GuardRead(fails, file, state) == IF file \in fails THEN "unknown" ELSE state

\* collectBranchRule: a setting GitHub did not answer for is never a yes.
BranchRuleState(rule) ==
  CASE rule = "verified" -> "wired" [] rule = "not-applied" -> "missing" [] OTHER -> "unknown"

\* collectDoctorReport, over the surfaces that bind a pull request.
DoctorReport(s, fails) ==
  LET present == IF s.workflow = Absent THEN {} ELSE {GateFile}
  IN [ci |-> GuardRead(fails, "workflow", CiState(s.workflow)),
      branchRule |-> BranchRuleState(VerifyBranchRule(s.settings, fails)),
      workflowOwners |-> GuardRead(fails, "owners", WorkflowOwners(s.owners, present)),
      policyScope |-> GuardRead(fails, "owners", PolicyScope(s.owners, s.guarded))]
NoReport == [ci |-> "unknown", branchRule |-> "unknown", workflowOwners |-> "unknown", policyScope |-> "unknown"]

Unmerged == merged = FALSE
\* The gate is set up before the pull request's first run.
SettingUp == Unmerged /\ pushes = 0 /\ check = "none"

WiringInit ==
  /\ site \in Sites
  /\ report = NoReport
  /\ change \in Changes
  /\ pushes = 0 /\ approvals = {} /\ check = "none" /\ merged = FALSE

RunDoctor ==
  /\ Unmerged
  /\ \E fails \in Reads : report' = DoctorReport(site, fails)
  /\ UNCHANGED <<site, change, pushes, approvals, check, merged>>

\* planWorkflow and writeWorkflow: a file that is there is never overwritten.
InstallCi ==
  /\ SettingUp /\ site.workflow = Absent
  /\ site' = [site EXCEPT !.workflow = Draft]
  /\ report' = NoReport
  /\ UNCHANGED <<change, pushes, approvals, check, merged>>

\* The operator pins the engine, to a commit or to something that moves.
PinEngine ==
  /\ SettingUp /\ site.workflow = Draft
  /\ \E ref \in {"commit", "branch"} : site' = [site EXCEPT !.workflow.ref = ref]
  /\ report' = NoReport
  /\ UNCHANGED <<change, pushes, approvals, check, merged>>

-----------------------------------------------------------------------------
(* --------------- what the settings do on GitHub (external) ------------- *)

\* A rule is in force when it really targets main, whatever can be read of it.
Hits(token, ruleset) ==
  \/ token \in {"~ALL", "main"}
  \/ token = "~DEFAULT_BRANCH" /\ site.settings.defaultIsMain
  \/ token = "glob" /\ ruleset.globHitsMain
InForce ==
  {r \in ToSet(site.settings.rulesets) :
     /\ Active(r)
     /\ \E t \in r.include : Hits(t, r)
     /\ ~\E t \in r.exclude : Hits(t, r)}
  \cup (IF site.settings.classic.st = "read" THEN {site.settings.classic} ELSE {})

CheckRequired == \E r \in InForce : r.checks
ReviewsInForce == UNION {r.reviews : r \in InForce}
ApprovalsAsked == \E v \in ReviewsInForce : v.count # NotANumber /\ v.count >= 1
\* GitHub asks for no review at all when the count is 0, code owners or not.
OwnersAsked == ApprovalsAsked /\ \E v \in ReviewsInForce : v.owners
StaleDismissed == \E v \in ReviewsInForce : v.dismiss = "yes"

\* Whom GitHub takes for the owners of a file: a word that is no login is none.
OwnersOf(path) ==
  LET last == IF site.owners = Absent THEN 0 ELSE LastMatch(site.owners, path)
  IN IF last = 0 THEN {} ELSE {o.login : o \in {x \in site.owners[last].owners : x.kind # "word"}}

ApprovedBy(users) == \E a \in approvals : a.user \in users \ {Author}

-----------------------------------------------------------------------------
(* ---------------- the pull request (external: GitHub) ------------------ *)

EditsWorkflow == \E p \in change.paths : IsPrefix(WorkflowsDir, p)

PushChange(c) ==
  /\ Unmerged /\ pushes < MaxPushes
  /\ change' = c /\ pushes' = pushes + 1
  /\ check' = "none"
  /\ approvals' = IF StaleDismissed THEN {} ELSE approvals
  /\ UNCHANGED <<site, report, merged>>

Approve(user) ==
  /\ Unmerged
  /\ approvals' = approvals \cup {[user |-> user, at |-> pushes]}
  /\ UNCHANGED <<site, report, change, pushes, check, merged>>

\* What main and the head hold, as the policy job reads them.
Trusted == [p \in {CodeownersPath, ConfigPath} \cup change.paths |->
              IF p = ConfigPath THEN [parses |-> TRUE, guarded |-> site.guarded]
              ELSE IF p = CodeownersPath THEN site.owners ELSE "old"]
HeadFiles == [p \in DOMAIN Trusted |-> IF p \in change.paths THEN Rewritten ELSE Trusted[p]]
Listing == SetToSeq({[user |-> a.user, state |-> "APPROVED", commit |-> a.at] : a \in approvals})

\* The gate as the draft runs it is PullRequest's; a workflow the pull request
\* or the site changed may say anything.
HonestGate == site.workflow = [text |-> "draft", ref |-> "commit"] /\ ~EditsWorkflow
GatePasses ==
  /\ ~change.barrier
  /\ EnforcePolicy(Trusted, HeadFiles, [author |-> Author, head |-> pushes], Listing) = 0
CheckRuns ==
  /\ Unmerged
  /\ check' \in (IF HonestGate THEN {IF GatePasses THEN "pass" ELSE "fail"} ELSE {"pass", "fail"})
  /\ UNCHANGED <<site, report, change, pushes, approvals, merged>>

Merge ==
  /\ Unmerged
  /\ CheckRequired => check = "pass"
  /\ ApprovalsAsked => ApprovedBy(Reviewers)
  /\ OwnersAsked => \A p \in change.paths : OwnersOf(p) # {} => ApprovedBy(OwnersOf(p))
  /\ merged' = TRUE
  /\ UNCHANGED <<site, report, change, pushes, approvals, check>>

WiringNext ==
  \/ RunDoctor \/ InstallCi \/ PinEngine
  \/ \E c \in Changes : PushChange(c)
  \/ \E user \in Reviewers : Approve(user)
  \/ CheckRuns \/ Merge

WiringSpec == WiringInit /\ [][WiringNext]_wiring

-----------------------------------------------------------------------------
(* ------------------------------ properties ----------------------------- *)

Wired(part) == report[part] = "wired"
ApprovedHere(users) == \E a \in approvals : a.at = pushes /\ a.user \in users \ {Author}

\* Doctor's wired means guarded.  When doctor has called the workflow, the
\* branch rule and the workflow owners wired and nothing was set since, a merged
\* pull request that left the workflows alone has no barrier, and each workflow
\* file that one edits or adds was approved, after the last push, by an owner
\* of it who is not the author.  When doctor has called the workflow and the
\* policy scope wired and the check is required, that holds of every file with
\* an owner, whatever reviews GitHub itself asks for (doctor/index.ts,
\* install/branch-rule.ts, policy-enforce.ts).
WiredMeansGuarded ==
  merged /\ Wired("ci") =>
    /\ Wired("branchRule") /\ Wired("workflowOwners") =>
         /\ ~EditsWorkflow => ~change.barrier
         /\ \A p \in change.paths : IsWorkflow(p) => ApprovedHere(OwnersOf(p))
    /\ Wired("policyScope") /\ CheckRequired /\ ~EditsWorkflow =>
         \A p \in change.paths : OwnersOf(p) # {} => ApprovedHere(OwnersOf(p))
=============================================================================
