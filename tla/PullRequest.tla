----------------------------- MODULE PullRequest -----------------------------
(***************************************************************************)
(* Pull requests against one protected branch: pushes, reviews and the     *)
(* gate runs they start (src/install/ci.ts, src/surfaces/policy-enforce.ts *)
(* and src/cli.ts).  Runs go on at the same time, each job when GitHub     *)
(* gets to it, and a job may be lost, an artifact cut short or expired, a  *)
(* judge die, a run be started again.                                      *)
(*                                                                         *)
(* A build is not a function of the head alone: its bytes may come from    *)
(* the pull request and the base too, so a page is the three of them.      *)
(***************************************************************************)
EXTENDS GateRun

CONSTANTS
    PullRequests,   \* their numbers
    Users,          \* who may review
    Tips,           \* bound: what main is at, in order
    PushesTo,       \* bound: the heads of each pull request, in order
    MaxRuns,        \* bound
    Start           \* where a behaviour starts: [commits, dirty, limits, author, open]

ASSUME PullRequestAssumption ==
    /\ Tips \in Seq(ToSet(Tips)) /\ Tips # <<>>
    /\ DOMAIN PushesTo = PullRequests
    /\ \A p \in PullRequests : PushesTo[p] \in Seq(ToSet(PushesTo[p])) /\ PushesTo[p] # <<>>

VARIABLES
    commits,  \* the files of every commit: never changes
    dirty,    \* builds a scan finds a barrier in: never changes
    limits,   \* bound: how many more pushes, reviews, faults... there may be
    prs,      \* each pull request's author, head and recorded base
    main,     \* how far the protected branch is
    reviews,  \* the reviews of each pull request, oldest first
    events,   \* deliveries GitHub has not started a run for
    runs

vars == <<commits, dirty, limits, prs, main, reviews, events, runs>>
world == <<commits, dirty>>

Init ==
  \E start \in Start :
    /\ commits = start.commits
    /\ dirty \in start.dirty
    /\ limits = start.limits
    /\ prs = [p \in PullRequests |-> [author |-> start.author, at |-> 1, base |-> Tips[1]]]
    /\ main = 1
    /\ reviews = [p \in PullRequests |-> <<>>]
    /\ events = [p \in PullRequests |->
                   IF p \in start.open THEN <<[name |-> "pull_request", pr |-> p, head |-> PushesTo[p][1], base |-> Tips[1]]>>
                   ELSE <<>>]
    /\ runs = <<>>

HeadOf(pr) == PushesTo[pr][prs[pr].at]
Spend(what) == limits[what] > 0 /\ limits' = [limits EXCEPT ![what] = @ - 1]
Announce(name, pr, head, base) ==
  events' = [events EXCEPT ![pr] = Append(@, [name |-> name, pr |-> pr, head |-> head, base |-> base])]

-----------------------------------------------------------------------------
(* ------- the pull request and its reviewers, on GitHub (external) ------- *)

\* Reopened or edited: a run for the head as it is.  GitHub may have
\* brought the recorded base up to the branch.
Edited(pr) ==
  /\ Spend("edits")
  /\ \E base \in {prs[pr].base, Tips[main]} :
       /\ prs' = [prs EXCEPT ![pr].base = base]
       /\ Announce("pull_request", pr, HeadOf(pr), base)
  /\ UNCHANGED <<world, main, reviews, runs>>

Push(pr) ==
  /\ Spend("pushes")
  /\ prs[pr].at < Len(PushesTo[pr])
  /\ \E base \in {prs[pr].base, Tips[main]} :
       /\ prs' = [prs EXCEPT ![pr].at = @ + 1, ![pr].base = base]
       /\ Announce("pull_request", pr, PushesTo[pr][prs[pr].at + 1], base)
  /\ UNCHANGED <<world, main, reviews, runs>>

MainMoves ==
  /\ main < Len(Tips) /\ Spend("moves")
  /\ main' = main + 1
  /\ UNCHANGED <<world, prs, reviews, events, runs>>

\* A review names the head its author was looking at.
Review(pr, user, state) ==
  /\ Spend("reviews")
  /\ \E at \in 1..prs[pr].at :
       reviews' = [reviews EXCEPT ![pr] =
                     Append(@, [user |-> user, state |-> state, was |-> state, commit |-> PushesTo[pr][at]])]
  /\ Announce("pull_request_review", pr, HeadOf(pr), prs[pr].base)
  /\ UNCHANGED <<world, prs, main, runs>>

Dismiss(pr, i) ==
  /\ Spend("reviews")
  /\ reviews[pr][i].state # "DISMISSED"
  /\ reviews' = [reviews EXCEPT ![pr][i].state = "DISMISSED"]
  /\ Announce("pull_request_review", pr, HeadOf(pr), prs[pr].base)
  /\ UNCHANGED <<world, prs, main, runs>>

Now == 1 + Max({0} \cup {runs[i].started : i \in DOMAIN runs})

\* GitHub starts a run for a delivery, with the payload of the moment it was made.
StartRun(pr) ==
  /\ Len(runs) < MaxRuns
  /\ events[pr] # <<>>
  /\ runs' = Append(runs, NewRun(Len(runs) + 1, events[pr][1], Now))
  /\ events' = [events EXCEPT ![pr] = Tail(@)]
  /\ UNCHANGED <<world, limits, prs, main, reviews>>

-----------------------------------------------------------------------------
(* ------------------------------- one run ------------------------------- *)

Moves(i, run) == runs' = [runs EXCEPT ![i] = run]
Quiet == UNCHANGED <<world, limits, prs, main, reviews, events>>
May(i, job) == Ready(runs[i], job) /\ Condition(runs[i], job)

Skip(i, job) ==
  /\ Ready(runs[i], job) /\ ~Condition(runs[i], job)
  /\ Moves(i, Ends(runs[i], job, "skipped"))
  /\ Quiet

Engine(i) == May(i, "engine") /\ Moves(i, Ends(runs[i], "engine", "success")) /\ Quiet

\* What the app's own build packs: a page, a folder and a script.
Built(run) ==
  LET bytes == <<run.pr, run.head, run.base>>
  IN [complete |-> TRUE,
      members |-> <<[path |-> <<IndexPage>>, kind |-> "file", data |-> bytes],
                    [path |-> <<"assets">>, kind |-> "directory", data |-> bytes],
                    [path |-> <<"assets", "app.js">>, kind |-> "file", data |-> bytes]>>]
Build(i) == May(i, "build") /\ Moves(i, BuildApp(runs[i], Built(runs[i]))) /\ Quiet
BuildFails(i) == May(i, "build") /\ Moves(i, Ends(runs[i], "build", "failure")) /\ Spend("faults") /\ UNCHANGED <<world, prs, main, reviews, events>>

\* The judge, at its step: the build not looked for, found, unpacked, scanned.
Judging(i) == May(i, "scan") /\ runs[i].jobs["build"] # "waiting"
FindsBuild(i) ==
  /\ Judging(i) /\ runs[i].found = 0
  /\ LET found == FindBuild(runs, runs[i])
     IN Moves(i, IF found = 0 THEN Resolve(runs[i]) ELSE [runs[i] EXCEPT !.found = found])
  /\ Quiet
TakesBuild(i) ==
  /\ Judging(i) /\ runs[i].found # 0 /\ runs[i].served = None
  /\ LET taken == TakeBuild(runs, runs[i])
     IN Moves(i, IF taken.served = Refused THEN Resolve(taken) ELSE taken)
  /\ Quiet
Scans(i) ==
  /\ Judging(i) /\ runs[i].served \notin {None, Refused}
  /\ LET exit == CheckExit(runs[i], commits[runs[i].base], dirty)
     IN Moves(i, Resolve(Judged(runs[i], exit, FALSE)))
  /\ Quiet
\* The judge crashes (exit 4), or dies before it writes a Result.
JudgeFails(i, died) ==
  /\ Judging(i) /\ runs[i].served \notin {None, Refused}
  /\ Moves(i, Resolve(IF died THEN runs[i] ELSE Judged(runs[i], 0, TRUE)))
  /\ Spend("faults") /\ UNCHANGED <<world, prs, main, reviews, events>>

Comment(i) == May(i, "comment") /\ Moves(i, Commented(runs[i])) /\ Quiet

Policy(i) ==
  /\ May(i, "policy") /\ runs[i].page = 0
  /\ Moves(i, PolicyStarts(runs[i], commits[runs[i].base], commits[runs[i].head], prs[runs[i].pr].author))
  /\ Quiet
ReadsPage(i) ==
  /\ May(i, "policy") /\ runs[i].page > 0
  /\ Moves(i, PolicyReads(runs[i], commits[runs[i].base], commits[runs[i].head], prs[runs[i].pr].author, reviews[runs[i].pr]))
  /\ Quiet

Decide(i) == May(i, "required") /\ Moves(i, Required(runs[i])) /\ Quiet

-----------------------------------------------------------------------------
(* ----------------------- what goes wrong, and again -------------------- *)

\* A runner is lost: whatever the job had not handed on is gone.
LoseJob(i, job) ==
  /\ May(i, job) /\ job # "required"
  /\ Spend("faults")
  /\ Moves(i, Ends(runs[i], job, "cancelled"))
  /\ UNCHANGED <<world, prs, main, reviews, events>>

\* An artifact expires (a week for a build, a day for a Result) or arrives cut.
Spoilt(a, how) ==
  IF how = "expired" THEN [a EXCEPT !.expired = TRUE]
  ELSE [a EXCEPT !.entries[1].data.complete = FALSE]
Spoil(i, how) ==
  /\ Spend("faults")
  /\ \E a \in runs[i].artifacts :
       /\ how = "cut" => a.name = "build"
       /\ ~a.expired
       /\ Moves(i, [runs[i] EXCEPT !.artifacts = (@ \ {a}) \cup {Spoilt(a, how)}])
  /\ UNCHANGED <<world, prs, main, reviews, events>>

Again(i, jobs) ==
  /\ Completed(runs[i]) /\ jobs # {}
  /\ Spend("reruns")
  /\ Moves(i, Rerun(runs[i], jobs, Now))
  /\ UNCHANGED <<world, prs, main, reviews, events>>

RunMoves(i) ==
  \/ \E job \in Jobs : Skip(i, job)
  \/ Engine(i) \/ Build(i) \/ BuildFails(i)
  \/ FindsBuild(i) \/ TakesBuild(i) \/ Scans(i) \/ (\E died \in BOOLEAN : JudgeFails(i, died))
  \/ Comment(i) \/ Policy(i) \/ ReadsPage(i) \/ Decide(i)
  \/ \E job \in Jobs : LoseJob(i, job)
  \/ \E how \in {"expired", "cut"} : Spoil(i, how)
  \/ Again(i, Jobs) \/ Again(i, Affected(runs[i]))

Next ==
  \/ \E pr \in PullRequests :
       \/ Edited(pr) \/ Push(pr) \/ StartRun(pr)
       \/ \E user \in Users, state \in {"APPROVED", "CHANGES_REQUESTED", "COMMENTED"} : Review(pr, user, state)
       \/ \E i \in DOMAIN reviews[pr] : Dismiss(pr, i)
  \/ MainMoves
  \/ \E i \in DOMAIN runs : RunMoves(i)

Spec == Init /\ [][Next]_vars

-----------------------------------------------------------------------------
(* ------------------------------ properties ----------------------------- *)

TypeOK ==
  /\ \A pr \in PullRequests : prs[pr].at \in 1..Len(PushesTo[pr]) /\ prs[pr].base \in ToSet(Tips)
  /\ \A i \in DOMAIN runs :
       /\ runs[i].id = i /\ runs[i].jobs \in [Jobs -> {"waiting", "success", "failure", "cancelled", "skipped"}]
       /\ runs[i].found \in 0..Len(runs) /\ runs[i].page \in 0..PageCap

Passed(run) == run.jobs["required"] = "success"
Bytes(run) == <<run.pr, run.head, run.base>>
Diverged(run) == ListDiverged(commits[run.base], commits[run.head])

\* The reviews of a run's head by owners of a file, the author not counted.
OwnerReviews(run, path) ==
  LET owners == OwnersFor(Show(commits[run.base], CodeownersPath), path) \ {prs[run.pr].author}
  IN {k \in DOMAIN reviews[run.pr] : reviews[run.pr][k].user \in owners /\ reviews[run.pr][k].commit = run.head}

\* A pass is about this pull request.  Whatever was lost, cut, expired or run
\* again, a run whose required job passed scanned pages built for its own pull
\* request, head and base, in which there is no barrier; and each guarded file
\* it changes was at some time approved, at that very head, by an owner who
\* is not its author (install/ci.ts, install/build-run.ts, policy-enforce.ts).
PassIsOfThisPullRequest ==
  \A i \in DOMAIN runs : Passed(runs[i]) =>
    /\ PagesJudged(runs[i], commits[runs[i].base]) = {Bytes(runs[i])}
    /\ Bytes(runs[i]) \notin dirty
    /\ \A path \in Diverged(runs[i]) :
         \E k \in OwnerReviews(runs[i], path) : reviews[runs[i].pr][k].was = "APPROVED"

\* A green check follows the reviews.  When GitHub has delivered every event
\* and the check a pull request shows is green, an approval of this head by an
\* owner stands for each guarded file: it was not dismissed, and the owner
\* asked for no changes since.  A run of which only some jobs were run again
\* keeps an answer given before the later reviews, and is left out.
Shown(pr) ==
  LET mine == {i \in DOMAIN runs : runs[i].pr = pr /\ runs[i].head = HeadOf(pr)}
  IN {i \in mine : \A j \in mine : runs[j].started <= runs[i].started}
Stands(listing, k) ==
  /\ listing[k].state = "APPROVED"
  /\ \A j \in k + 1..Len(listing) :
       ~(listing[j].user = listing[k].user /\ listing[j].state = "CHANGES_REQUESTED")
GreenFollowsReviews ==
  \A pr \in PullRequests : \A i \in Shown(pr) :
    events[pr] = <<>> /\ Passed(runs[i]) /\ ~runs[i].partial =>
      \A path \in Diverged(runs[i]) :
        \E k \in OwnerReviews(runs[i], path) : Stands(reviews[pr], k)
=============================================================================
