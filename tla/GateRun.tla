------------------------------- MODULE GateRun -------------------------------
(***************************************************************************)
(* One run of the gate workflow usabl writes (src/install/ci.ts,           *)
(* src/install/build-run.ts): six jobs with their conditions, what each    *)
(* hands to the next, and the decision of the required job.  Every step    *)
(* is an operator from a run to a run.                                     *)
(*                                                                         *)
(* GitHub runs a job when the jobs it needs are done; `if: always()` is    *)
(* asked then even when one of them failed.  The job outputs of a run are  *)
(* `digest`, `verdict` and `resultDigest`.                                 *)
(***************************************************************************)
EXTENDS BuildArchive, PolicyRule

CONSTANTS
    BuildNeedsEngine,  \* the app gate's build needs the engine, the docs gate's does not
    Screens,           \* the requests the judge's browser makes of the served build
    None               \* an output never set

\* No job sets an output to what one never set reads as.
ASSUME OutputAssumption == None \notin {"pass", "fail"}

Jobs == {"engine", "build", "scan", "comment", "policy", "required"}
Needs(job) ==
  CASE job = "engine"               -> {}
    [] job = "build"                -> IF BuildNeedsEngine THEN {"engine"} ELSE {}
    [] job = "scan"                 -> {"engine", "build"}
    [] job \in {"comment", "policy"} -> {"engine", "scan"}
    [] job = "required"             -> Jobs \ {"required"}

\* A run as its event starts it: the payload is fixed for every re-run.
NewRun(id, event, now) ==
  [id |-> id, event |-> event.name, pr |-> event.pr, head |-> event.head, base |-> event.base,
   attempt |-> 1, partial |-> FALSE, started |-> now,
   jobs |-> [j \in Jobs |-> "waiting"], artifacts |-> {},
   digest |-> None, verdict |-> None, resultDigest |-> None,
   found |-> 0, archive |-> None, served |-> None, result |-> None, page |-> 0, seen |-> <<>>]

Waiting(run, job) == run.jobs[job] = "waiting"
Completed(run) == \A j \in Jobs : ~Waiting(run, j)
Ready(run, job) == Waiting(run, job) /\ \A n \in Needs(job) : ~Waiting(run, n)
Ends(run, job, status) == [run EXCEPT !.jobs[job] = status]
OnPush(run) == run.event = "pull_request"

\* The `if` of each job.
Condition(run, job) ==
  LET engine == run.jobs["engine"] = "success"
  IN CASE job = "build"   -> OnPush(run) /\ (BuildNeedsEngine => engine)
       [] job = "scan"    -> engine /\ run.jobs["build"] = (IF OnPush(run) THEN "success" ELSE "skipped")
       [] job = "comment" -> OnPush(run) /\ engine /\ run.resultDigest # None
       [] job = "policy"  -> engine
       [] OTHER           -> TRUE

Upload(run, name, data) ==
  LET id == Cardinality(run.artifacts) + 1
  IN [run EXCEPT !.artifacts = @ \cup
        {[name |-> name, id |-> id, expired |-> FALSE, over |-> FALSE,
          entries |-> <<[name |-> name, regular |-> TRUE, intact |-> TRUE, data |-> data]>>]}]

-----------------------------------------------------------------------------
(* build-app packs what it built, says its digest, and uploads it. *)
BuildApp(run, tar) == Ends([Upload(run, "build", tar) EXCEPT !.digest = tar], "build", "success")

-----------------------------------------------------------------------------
(* The judge finds the build, fetches and unpacks it, serves and scans it. *)

\* Mutant: a run of the same head commit is this head's build.
SameHead(run, want) == OnPush(run) /\ run.head = want.head

\* sameRun: GitHub names a run after the event that started it, so the name
\* holds the pull request, its head and its base.
SameRun(run, want) ==
  /\ OnPush(run)
  /\ <<run.pr, run.head, run.base>> = <<want.pr, want.head, want.base>>

\* The newest completed run of this pull request whose last build-app
\* succeeded; on a push the build is in this run.
FindBuild(runs, run) ==
  LET usable == {i \in DOMAIN runs :
                   Completed(runs[i]) /\ SameRun(runs[i], run) /\ runs[i].jobs["build"] = "success"}
  IN IF OnPush(run) THEN run.id
     ELSE IF usable = {} THEN 0
     ELSE CHOOSE i \in usable : \A j \in usable : j <= i

\* Fetch, verify and unpack.  Only a push knows the digest the build job set.
TakeBuild(runs, run) ==
  LET fetched == FetchArtifact(runs[run.found].artifacts, "build", "build")
      archive == IF OnPush(run) THEN VerifyDownload(fetched, run.digest) ELSE fetched
  IN [run EXCEPT !.archive = archive, !.served = ExtractBuild(archive)]

\* allowedOriginsFrom: the base's config says what the judge's browser may
\* reach; one that is missing or does not parse allows nothing.
OriginAllowed(base) == Show(base, ConfigPath) # Absent /\ Show(base, ConfigPath).parses

\* The pages the browser was given.
PagesJudged(run, base) == IF OriginAllowed(base) THEN {ResolveRequest(run.served, s) : s \in Screens} ELSE {}

\* The accessibility exit code of `usabl check --isolated-browser`, with a barrier
\* in the pages of `dirty`: a screen not reached is a gap, a barrier comes first.
CheckExit(run, base, dirty) ==
  CASE PagesJudged(run, base) \cap dirty # {} -> 1
    [] PagesJudged(run, base) = {}           -> 2
    [] OTHER                                 -> 0

\* prepareJudge: `finish` writes the digest it was handed into the Result.
Judged(run, accessibility, crash) ==
  [run EXCEPT !.result = [crash |-> crash, accessibility |-> accessibility, buildDigest |-> run.archive, isolated |-> TRUE]]

ValidResult(run) == run.result # None /\ run.result.isolated /\ run.result.buildDigest = run.archive

EnforceAccessibility(result) == IF result.crash THEN 4 ELSE result.accessibility

\* The verdict starts at fail and is published whatever failed before it; a
\* Result that is not valid gets no digest.
Resolve(run) ==
  LET valid == ValidResult(run)
      pass == valid /\ EnforceAccessibility(run.result) = 0
      said == [run EXCEPT !.verdict = IF pass THEN "pass" ELSE "fail",
                          !.resultDigest = IF valid THEN run.result ELSE None]
  IN Ends(IF valid THEN Upload(said, "result", run.result) ELSE said, "scan", IF pass THEN "success" ELSE "failure")

-----------------------------------------------------------------------------
(* gate-comment and usabl-policy believe the Result only by its digest. *)
FetchResult(run) == VerifyDownload(FetchArtifact(run.artifacts, "result", "result"), run.resultDigest)

Commented(run) == Ends(run, "comment", IF FetchResult(run) = Refused THEN "failure" ELSE "success")

\* The policy job up to the reviews: page 1 is asked for when they are needed.
PolicyStarts(run, base, head, author) ==
  LET result == FetchResult(run)
      exit == EnforcePolicy(base, head, [author |-> author, head |-> run.head], <<>>)
  IN IF result = Refused THEN Ends(run, "policy", "failure")
     ELSE IF result.crash THEN Ends(run, "policy", "failure")
     ELSE IF NeedsReviews(base, head) THEN [run EXCEPT !.page = 1]
     ELSE Ends(run, "policy", IF exit = 0 THEN "success" ELSE "failure")

\* One page of the reviews as they are when it is asked for.
PolicyReads(run, base, head, author, listing) ==
  LET items == PageOf(listing, run.page)
      seen == run.seen \o items
      exit == EnforcePolicy(base, head, [author |-> author, head |-> run.head], seen)
      read == [run EXCEPT !.seen = seen]
  IN IF LastPage(items) THEN Ends(read, "policy", IF exit = 0 THEN "success" ELSE "failure")
     ELSE IF Truncated(run.page, items) THEN Ends(read, "policy", "failure")
     ELSE [read EXCEPT !.page = @ + 1]

-----------------------------------------------------------------------------
(* The required job: the exact shape of the event, and the verdict. *)

Shape(event) ==
  [j \in Jobs \ {"required"} |->
     IF event = "pull_request_review" /\ j \in {"build", "comment"} THEN {"skipped"} ELSE {"success"}]

Required(run) ==
  LET fits == \A j \in Jobs \ {"required"} : run.jobs[j] \in Shape(run.event)[j]
  IN Ends(run, "required", IF fits /\ run.verdict = "pass" THEN "success" ELSE "failure")

-----------------------------------------------------------------------------
(* GitHub's two re-runs (external): every job, or those that did not       *)
(* succeed with the jobs that need them.  Both keep the event's payload;   *)
(* a job that is not re-run keeps its status and its outputs.              *)
Affected(run) ==
  LET bad == {j \in Jobs : run.jobs[j] \in {"failure", "cancelled"}}
      near == bad \cup {j \in Jobs : Needs(j) \cap bad # {}}
  IN near \cup {j \in Jobs : Needs(j) \cap near # {}}

Rerun(run, jobs, now) ==
  [run EXCEPT !.attempt = @ + 1, !.started = now, !.partial = jobs # Jobs,
              !.jobs = [j \in Jobs |-> IF j \in jobs THEN "waiting" ELSE @[j]],
              !.digest = IF "build" \in jobs THEN None ELSE @,
              !.verdict = IF "scan" \in jobs THEN None ELSE @,
              !.resultDigest = IF "scan" \in jobs THEN None ELSE @,
              !.found = IF "scan" \in jobs THEN 0 ELSE @,
              !.archive = IF "scan" \in jobs THEN None ELSE @,
              !.served = IF "scan" \in jobs THEN None ELSE @,
              !.result = IF "scan" \in jobs THEN None ELSE @,
              !.page = IF "policy" \in jobs THEN 0 ELSE @,
              !.seen = IF "policy" \in jobs THEN <<>> ELSE @]
=============================================================================
