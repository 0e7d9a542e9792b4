---------------------------- MODULE MCPullRequest ----------------------------
(***************************************************************************)
(* The gate on small pull requests, and the set-up it depends on: the      *)
(* builds of two pull requests that share a head, one whose base moves,    *)
(* one to which something happens and which is run again, the reviews of   *)
(* one that changes a guarded file, and doctor's word on a branch.  One of *)
(* these moves in a behaviour.                                             *)
(***************************************************************************)
EXTENDS PullRequest, Wiring

User(login) == [kind |-> "user", login |-> login]
Rule(anchored, directory, core, owners) ==
  [pattern |-> [anchored |-> anchored, directory |-> directory, supported |-> TRUE, core |-> core], owners |-> owners]
AnyName == File("*", "*")
Everything(owners) == Rule(FALSE, FALSE, <<AnyName>>, owners)
Floor == <<File(".usabl-evidence", "json")>>
Guide == <<Dir("docs"), File("guide", "md")>>

-----------------------------------------------------------------------------
Commit(config, guide, owners) == [p \in {ConfigPath, Guide, CodeownersPath} |->
  CASE p = ConfigPath -> config [] p = Guide -> guide [] OTHER -> owners]
GuardsDocs == [parses |-> TRUE, guarded |-> {<<Dir("docs")>>}]
Olga == <<Everything({User("olga")})>>
GuardsNothing == [parses |-> TRUE, guarded |-> {}]

Plain == [c \in {"b1", "b2", "h1", "h2"} |-> Commit(GuardsDocs, "same", Olga)]

\* The second head takes the guarded file out of the guard as well.
Guarded(owners) ==
  [c \in DOMAIN Plain |->
     CASE c = "h1" -> Commit(GuardsDocs, "new", owners)
       [] c = "h2" -> Commit(GuardsNothing, "new", owners)
       [] OTHER    -> Commit(GuardsDocs, "old", owners)]

NoMore == [edits |-> 0, pushes |-> 0, moves |-> 0, reviews |-> 0, faults |-> 0, reruns |-> 0]
Idle == [commits |-> Plain, author |-> "alice", open |-> {}, dirty |-> {{}}, limits |-> NoMore]
Twins == [Idle EXCEPT !.open = {1, 2}, !.limits.reviews = 1,
                      !.dirty = {{}, {<<1, "h1", "b1">>}, {<<2, "h1", "b1">>}}]
MovingBase == [Idle EXCEPT !.open = {1}, !.limits = [NoMore EXCEPT !.edits = 1, !.moves = 1, !.reviews = 1],
                           !.dirty = {{<<1, "h1", "b1">>}, {<<1, "h1", "b2">>}}]
\* Main's config does not parse, and a later commit of main repairs it.
Repair == [MovingBase EXCEPT !.commits = [Plain EXCEPT !["b1"] = Commit([GuardsDocs EXCEPT !.parses = FALSE], "same", Olga)],
                             !.dirty = {{}}, !.limits.reviews = 0]
Mishaps == [Idle EXCEPT !.open = {1}, !.limits = [NoMore EXCEPT !.reviews = 1, !.faults = 1, !.reruns = 1]]
Reviewed(more, many, owners) ==
  [Idle EXCEPT !.open = {1}, !.limits = [NoMore EXCEPT !.pushes = more, !.reviews = many], !.commits = Guarded(owners)]

Teams == <<Everything({[kind |-> "team", login |-> "olga"]})>>
Starts == {Idle, Twins, MovingBase, Repair, Mishaps, Reviewed(1, 1, Olga), Reviewed(0, 2, Olga), Reviewed(0, 1, Teams)}
ScreenRequests == {[path |-> <<"users">>, extension |-> FALSE], [path |-> <<"assets", "app.js">>, extension |-> TRUE]}
TipsOfMain == <<"b1", "b2">>
Pushed == [p \in {1, 2} |-> IF p = 1 THEN <<"h1", "h2">> ELSE <<"h1">>]

-----------------------------------------------------------------------------
View(owners, count, dismiss) == [owners |-> owners, count |-> count, dismiss |-> dismiss]
Full == View(TRUE, 1, "yes")
Unprotected == [st |-> "absent", checks |-> FALSE, reviews |-> {}]
Protected(view) == [st |-> "read", checks |-> TRUE, reviews |-> {view}]
RuleSet(include, exclude, checks, views) ==
  [enforcement |-> "active", target |-> "branch", shaped |-> TRUE, conditionsRead |-> TRUE,
   globHitsMain |-> FALSE, include |-> include, exclude |-> exclude, checks |-> checks, reviews |-> views]
Settings(classic, rulesets, defaultIsMain) ==
  [classic |-> classic, rulesets |-> rulesets, defaultIsMain |-> defaultIsMain]

Protections ==
  {Settings(Protected(v), <<>>, TRUE) : v \in {Full, View(FALSE, 1, "yes"), View(TRUE, 0, "yes"), View(TRUE, 1, "no"), View(TRUE, NotANumber, "yes")}}
  \cup {Settings(Unprotected, <<r>>, d) : d \in BOOLEAN,
         r \in {RuleSet({t}, x, TRUE, {Full}) : t \in {"~ALL", "~DEFAULT_BRANCH", "glob", "main"}, x \in {{}, {"main"}, {"~DEFAULT_BRANCH"}}}}
  \cup {Settings([Unprotected EXCEPT !.st = "read", !.checks = TRUE], <<RuleSet({"main"}, {}, FALSE, {v}), r>>, TRUE) :
          v \in {Full, View(TRUE, 0, "yes")},
          r \in {RuleSet({"main"}, {}, FALSE, {View(FALSE, 1, "yes")}), [RuleSet({"main"}, {}, FALSE, {Full}) EXCEPT !.enforcement = "disabled"]}}

Workflows(owners) == Rule(TRUE, TRUE, WorkflowsDir, owners)
ReleaseFile == Append(WorkflowsDir, File("release", "yml"))
Codeowners ==
  {Absent,
   <<Everything({User("olga")})>>,
   <<Everything({User("olga")}), Workflows({})>>,
   <<Workflows({[kind |-> "team", login |-> "olga"]}), Rule(FALSE, FALSE, <<File("*", "yml")>>, {[kind |-> "word", login |-> "olga"]})>>,
   <<Workflows({User("olga")}), Rule(TRUE, FALSE, ReleaseFile, {})>>,
   <<Workflows({User("olga")}), Rule(TRUE, TRUE, <<Dir("docs")>>, {User("olga")})>>}

Site(settings, owners, workflow, guarded) == [settings |-> settings, owners |-> owners, workflow |-> workflow, guarded |-> guarded]
Pinned == [text |-> "draft", ref |-> "commit"]
GuardAll == {<<Dir("docs")>>, WorkflowsDir}
SitesOfMain ==
  {Site(p, o, w, GuardAll) : p \in Protections, o \in {<<Workflows({User("olga")})>>}, w \in {Pinned}}
  \cup {Site(p, o, w, g) : p \in {Settings(Protected(Full), <<>>, TRUE), Settings(Protected(View(FALSE, 0, "no")), <<>>, TRUE)},
          o \in Codeowners, w \in {Absent, Pinned, [Pinned EXCEPT !.text = "edited"]}, g \in {{}, GuardAll}}

Leaves(paths, barrier) == [paths |-> paths, barrier |-> barrier]
PushedChanges ==
  {Leaves({}, TRUE), Leaves({Guide}, FALSE), Leaves({ReleaseFile}, TRUE), Leaves({GateFile, Guide}, TRUE)}
FailedReads == {{}, {"classic"}, {"list"}, {"detail"}, {"repo"}, {"workflow"}, {"owners"}}

-----------------------------------------------------------------------------
Resting ==
  /\ site = CHOOSE s \in Sites : TRUE
  /\ change = CHOOSE c \in Changes : TRUE
  /\ report = NoReport /\ pushes = 0 /\ approvals = {} /\ check = "none" /\ merged = TRUE
Opened == \E p \in PullRequests : events[p] # <<>>

MCInit == Init /\ (IF Opened THEN Resting ELSE WiringInit)
MCNext == (Next /\ UNCHANGED wiring) \/ (WiringNext /\ UNCHANGED vars)
MCSpec == MCInit /\ [][MCNext]_<<vars, wiring>>
==============================================================================
