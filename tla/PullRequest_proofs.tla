-------------------------- MODULE PullRequest_proofs --------------------------
(***************************************************************************)
(* Proofs about the gate workflow on pull requests, and about the branch   *)
(* it protects and what doctor says of that branch (Wiring).               *)
(***************************************************************************)
EXTENDS PullRequest, Wiring, FiniteSetTheorems, SequenceTheorems, TLAPS

\* A screen asked for by a name with an extension is one the build has.
ScreensAreServed == \A s \in Screens : s.extension => s.path = <<"assets", "app.js">>

-----------------------------------------------------------------------------
(* Types.                                                                  *)

Heads == UNION {ToSet(PushesTo[p]) : p \in PullRequests}
Bases == ToSet(Tips)
Authors == {s.author : s \in Start}
EventNames == {"pull_request", "pull_request_review"}
States == {"APPROVED", "CHANGES_REQUESTED", "COMMENTED", "DISMISSED"}
Statuses == {"waiting", "success", "failure", "cancelled", "skipped"}
AllBytes == PullRequests \X Heads \X Bases

\* The archive of a build, whole or cut short, and the tree it unpacks to.
Tar(bytes, complete) ==
  [complete |-> complete,
   members |-> <<[path |-> <<IndexPage>>, kind |-> "file", data |-> bytes],
                 [path |-> <<"assets">>, kind |-> "directory", data |-> bytes],
                 [path |-> <<"assets", "app.js">>, kind |-> "file", data |-> bytes]>>]
Tars == {Tar(b, c) : b \in AllBytes, c \in BOOLEAN}
Pages == {<<IndexPage>>, <<"assets", "app.js">>}
Tree(bytes) == [p \in Pages |-> bytes]
Trees == {Tree(b) : b \in AllBytes}

Results == [crash : BOOLEAN, accessibility : 0..2, buildDigest : Tars \cup {None, Refused}, isolated : {TRUE}]

BuildEntry(tar) == [name |-> "build", regular |-> TRUE, intact |-> TRUE, data |-> tar]
ResultEntry(result) == [name |-> "result", regular |-> TRUE, intact |-> TRUE, data |-> result]
Entries == {<<BuildEntry(t)>> : t \in Tars} \cup {<<ResultEntry(r)>> : r \in Results}
Artifacts == [name : {"build", "result"}, id : Nat, expired : BOOLEAN, over : BOOLEAN, entries : Entries]

PrType == [author : Authors, at : Nat, base : Bases]
EventType == [name : EventNames, pr : PullRequests, head : Heads, base : Bases]
ReviewType == [user : Users, state : States, was : States, commit : Heads]
RunType ==
  [id : Nat, event : EventNames, pr : PullRequests, head : Heads, base : Bases,
   attempt : Nat, partial : BOOLEAN, started : Nat,
   jobs : [Jobs -> Statuses], artifacts : SUBSET Artifacts,
   digest : Tars \cup {None}, verdict : {"pass", "fail", None}, resultDigest : Results \cup {None},
   found : Nat, archive : Tars \cup {None, Refused}, served : Trees \cup {None, Refused},
   result : Results \cup {None}, page : Nat, seen : Seq(ReviewType)]

EventsTyped ==
  /\ events \in [PullRequests -> Seq(EventType)]
  /\ \A p \in PullRequests : \A k \in 1..Len(events[p]) : events[p][k].pr = p

RunsTyped ==
  /\ runs \in Seq(RunType)
  /\ \A i \in 1..Len(runs) : runs[i].id = i /\ IsFiniteSet(runs[i].artifacts)

Typed ==
  /\ prs \in [PullRequests -> PrType]
  /\ \A p \in PullRequests : prs[p].at \in 1..Len(PushesTo[p])
  /\ main \in 1..Len(Tips)
  /\ reviews \in [PullRequests -> Seq(ReviewType)]
  /\ EventsTyped
  /\ RunsTyped

-----------------------------------------------------------------------------
(* What a run has been handed.                                             *)

\* Every build it uploaded is its own, whole or cut, and nothing else is.
OwnBuilds(r) ==
  \A a \in r.artifacts : a.name = "build" => \E c \in BOOLEAN : a.entries = <<BuildEntry(Tar(Bytes(r), c))>>

\* Before the scan ends there is no Result and no verdict.
ScanIsOpen(r) == Waiting(r, "scan") => r.result = None /\ r.verdict # "pass"

\* What the judge serves was built for this pull request, head and base.
ServesItsOwn(r) == r.served \in {None, Refused, Tree(Bytes(r))}

\* A verdict of pass is about those pages.
PassIsOfItsPages(r) ==
  r.verdict = "pass" => /\ PagesJudged(r, commits[r.base]) = {Bytes(r)}
                        /\ Bytes(r) \notin dirty

\* A policy that passed had nothing to ask, or found the approvals in what it saw.
PolicyOfWhatItSaw(r) ==
  r.jobs["policy"] = "success" =>
    \/ Diverged(r) = {}
    \/ /\ r.page > 0
       /\ EnforcePolicy(commits[r.base], commits[r.head],
                        [author |-> prs[r.pr].author, head |-> r.head], r.seen) = 0

\* It saw reviews people wrote.
SawReviews(r) ==
  \A k \in 1..Len(r.seen) :
    /\ r.seen[k].state = "APPROVED" => r.seen[k].was = "APPROVED"
    /\ \E i \in 1..Len(reviews[r.pr]) :
         /\ reviews[r.pr][i].user = r.seen[k].user
         /\ reviews[r.pr][i].commit = r.seen[k].commit
         /\ reviews[r.pr][i].was = r.seen[k].was

\* The required job passed on a verdict and a policy that passed.
PassedOnAll(r) ==
  Passed(r) => /\ \A j \in Jobs : ~Waiting(r, j)
               /\ r.verdict = "pass" /\ r.jobs["policy"] = "success"

\* The build it found is of its own pull request, head and base.
FoundItsOwn(i) ==
  runs[i].found # 0 => /\ runs[i].found \in 1..Len(runs)
                       /\ Bytes(runs[runs[i].found]) = Bytes(runs[i])

RunOK(r) ==
  /\ OwnBuilds(r) /\ ScanIsOpen(r) /\ ServesItsOwn(r)
  /\ PassIsOfItsPages(r) /\ PolicyOfWhatItSaw(r) /\ SawReviews(r) /\ PassedOnAll(r)

\* A review GitHub changed was an approval only if it was written as one.
ReviewsKeep ==
  \A p \in PullRequests : \A k \in 1..Len(reviews[p]) :
    reviews[p][k].state = "APPROVED" => reviews[p][k].was = "APPROVED"

PassInv ==
  /\ Typed
  /\ ReviewsKeep
  /\ \A i \in 1..Len(runs) : RunOK(runs[i]) /\ FoundItsOwn(i)

-----------------------------------------------------------------------------
(* How what a run saw follows the reviews.                                 *)

\* Some delivery to come, or some later run, will answer for this head.
Superseded(r) ==
  \/ \E k \in 1..Len(events[r.pr]) : events[r.pr][k].head = HeadOf(r.pr)
  \/ \E j \in 1..Len(runs) : /\ runs[j].pr = r.pr /\ runs[j].head = HeadOf(r.pr)
                             /\ r.started < runs[j].started

\* What it saw is what the reviews begin with; when it was done, all of them.
SawTheReviews(r) ==
  LET listing == reviews[r.pr]
  IN /\ Len(r.seen) <= Len(listing)
     /\ \A k \in 1..Len(r.seen) : r.seen[k] = listing[k]
     /\ r.page > 0 /\ r.jobs["policy"] = "success" => Len(r.seen) = Len(listing)

\* A policy job that reads has read whole pages.
ReadsPages(r) ==
  Waiting(r, "policy") => Len(r.seen) = (IF r.page = 0 THEN 0 ELSE (r.page - 1) * PageSize)

Follows(r) ==
  /\ ReadsPages(r)
  /\ r.head = HeadOf(r.pr) /\ ~r.partial => Superseded(r) \/ SawTheReviews(r)

FollowInv == \A i \in 1..Len(runs) : Follows(runs[i])

-----------------------------------------------------------------------------
(* The operators of a run.                                                 *)

\* A finite set has an element of the greatest rank.
LEMMA FiniteMax ==
  ASSUME NEW S, IsFiniteSet(S), S # {}, NEW f \in [S -> Nat]
  PROVE  \E m \in S : \A x \in S : f[x] <= f[m]
<1> DEFINE Top(T) == \E m \in T : \A x \in T : f[x] <= f[m]
           Bad == {T \in SUBSET S : T # {} /\ ~Top(T)}
<1>1. SUFFICES ASSUME Bad # {} PROVE FALSE
  <2>1. S \in SUBSET S
    OBVIOUS
  <2> QED BY <2>1
<1>2. Bad \subseteq FiniteSubsetsOf(S)
  BY FS_FiniteSubsetsOfFinite
<1>3. PICK T \in Bad : \A U \in Bad : ~(<<U, T>> \in StrictSubsetOrdering(S))
  BY <1>1, <1>2, FS_StrictSubsetOrderingWellFounded, WFMin
<1>4. PICK x \in T : TRUE
  OBVIOUS
<1>5. T \ {x} \notin Bad
  BY <1>3, <1>4 DEF StrictSubsetOrdering
<1>6. CASE T \ {x} = {}
  BY <1>4, <1>6
<1>7. CASE T \ {x} # {}
  <2>1. PICK m \in T \ {x} : \A y \in T \ {x} : f[y] <= f[m]
    BY <1>5, <1>7
  <2>2. f[x] \in Nat /\ f[m] \in Nat /\ \A y \in T : f[y] \in Nat
    BY <1>4, <2>1
  <2>3. CASE f[x] <= f[m]
    BY <1>4, <2>1, <2>3
  <2>4. CASE f[m] < f[x]
    <3>1. \A y \in T : f[y] <= f[x]
      BY <2>1, <2>2, <2>4
    <3> QED BY <1>4, <3>1
  <2> QED BY <2>2, <2>3, <2>4
<1> QED BY <1>6, <1>7

\* A positive finite set of positions has a last one.
LEMMA LastPosition ==
  ASSUME NEW n \in Nat, NEW S \in SUBSET (1..n), S # {}
  PROVE  \E m \in S : \A x \in S : x <= m
<1>1. IsFiniteSet(S)
  <2>1. 1 \in Int /\ n \in Int
    OBVIOUS
  <2>2. IsFiniteSet(1..n)
    BY <2>1, FS_Interval
  <2> QED BY <2>2, FS_Subset
<1> DEFINE f == [x \in S |-> x]
<1>2. f \in [S -> Nat]
  OBVIOUS
<1>3. \E m \in S : \A x \in S : f[x] <= f[m]
  BY <1>1, <1>2, FiniteMax
<1> QED BY <1>3

\* The archive the app's own build packs is refused, or unpacks to its pages.
LEMMA UnpacksToItsPages ==
  ASSUME NEW b, NEW c \in BOOLEAN
  PROVE  ExtractBuild(Tar(b, c)) \in {Refused, Tree(b)}
<1> DEFINE tar == Tar(b, c)
<1>1. /\ DOMAIN tar.members = 1..3
      /\ tar.members[1] = [path |-> <<IndexPage>>, kind |-> "file", data |-> b]
      /\ tar.members[2] = [path |-> <<"assets">>, kind |-> "directory", data |-> b]
      /\ tar.members[3] = [path |-> <<"assets", "app.js">>, kind |-> "file", data |-> b]
  BY DEF Tar
<1> HIDE DEF tar
<1>2. FilesOf(tar) = {1, 3}
  BY <1>1 DEF FilesOf
<1>3. {tar.members[i].path : i \in FilesOf(tar)} = Pages
  BY <1>1, <1>2 DEF Pages
<1>4. ASSUME NEW p \in Pages
      PROVE  tar.members[CHOOSE i \in FilesOf(tar) : tar.members[i].path = p].data = b
  <2>1. \E i \in FilesOf(tar) : tar.members[i].path = p
    BY <1>3
  <2>2. PICK j : j = CHOOSE i \in FilesOf(tar) : tar.members[i].path = p
    OBVIOUS
  <2>3. j = 1 \/ j = 3
    BY <1>2, <2>1, <2>2
  <2>4. tar.members[j].data = b
    <3>1. CASE j = 1
      BY <1>1, <3>1
    <3>2. CASE j = 3
      BY <1>1, <3>2
    <3> QED BY <2>3, <3>1, <3>2
  <2> QED BY <2>2, <2>4
<1>5. [p \in {tar.members[i].path : i \in FilesOf(tar)} |->
         tar.members[CHOOSE i \in FilesOf(tar) : tar.members[i].path = p].data] = Tree(b)
  BY <1>3, <1>4 DEF Tree
<1> QED BY <1>5 DEF ExtractBuild, tar

\* What the fetcher takes for a run's build is a build of that run.
LEMMA FetchesItsBuild ==
  ASSUME NEW r \in RunType, OwnBuilds(r), IsFiniteSet(r.artifacts)
  PROVE  LET got == FetchArtifact(r.artifacts, "build", "build")
         IN  got = Refused \/ \E c \in BOOLEAN : got = Tar(Bytes(r), c)
<1> DEFINE found == Unexpired(r.artifacts, "build")
<1>1. CASE found = {}
  BY <1>1 DEF FetchArtifact
<1>2. CASE found # {}
  <2>1. found \subseteq r.artifacts /\ IsFiniteSet(found)
    BY FS_Subset DEF Unexpired
  <2> DEFINE f == [a \in found |-> a.id]
  <2>2. f \in [found -> Nat]
    BY <2>1 DEF RunType, Artifacts
  <2>3. \E a \in found : \A b \in found : f[b] <= f[a]
    BY <1>2, <2>1, <2>2, FiniteMax
  <2>4. \E a \in found : \A b \in found : b.id <= a.id
    BY <2>3
  <2>5. PICK a : a = Newest(found)
    OBVIOUS
  <2>6. a \in found
    BY <2>4, <2>5 DEF Newest
  <2>7. a.name = "build" /\ a \in r.artifacts
    BY <2>1, <2>6 DEF Unexpired
  <2>8. PICK c \in BOOLEAN : a.entries = <<BuildEntry(Tar(Bytes(r), c))>>
    BY <2>7 DEF OwnBuilds
  <2>9. a.entries[1].data = Tar(Bytes(r), c)
    BY <2>8 DEF BuildEntry
  <2>10. FetchArtifact(r.artifacts, "build", "build") = ReadEntries(a, "build")
    BY <1>2, <2>5 DEF FetchArtifact
  <2> QED BY <2>9, <2>10 DEF ReadEntries
<1> QED BY <1>1, <1>2

\* Served its own build, every screen is a page of it.
LEMMA JudgesItsPages ==
  ASSUME ScreensAreServed, NEW r, NEW b, r.served = Tree(b), NEW base
  PROVE  PagesJudged(r, base) \subseteq {b}
<1>1. SUFFICES ASSUME NEW s \in Screens PROVE ResolveRequest(r.served, s) = b
  BY DEF PagesJudged
<1>2. /\ DOMAIN r.served = Pages
      /\ \A p \in Pages : r.served[p] = b
  BY DEF Tree
<1>3. Append(<<>>, IndexPage) \in Pages /\ <<"assets", "app.js">> \in Pages
  BY DEF Pages
<1>4. Contained(r.served, <<>>) = b
  BY <1>2, <1>3 DEF Contained
<1>5. Contained(r.served, s.path) \in {b, NotFound}
  BY <1>2 DEF Contained
<1>6. s.extension => Contained(r.served, s.path) = b
  BY <1>2, <1>3 DEF Contained, ScreensAreServed
<1> QED BY <1>4, <1>5, <1>6 DEF ResolveRequest

-----------------------------------------------------------------------------
(* What every step of a run keeps.                                         *)

Good(r) == r \in RunType /\ IsFiniteSet(r.artifacts) /\ RunOK(r)

\* The payload of its event is a run's for good.
Alike(r, q) == q.id = r.id /\ q.event = r.event /\ q.pr = r.pr /\ q.head = r.head /\ q.base = r.base

\* The invariant of a run reads the world only through these.
LEMMA RunOKStands ==
  ASSUME NEW q, RunOK(q), UNCHANGED world,
         prs'[q.pr].author = prs[q.pr].author,
         SawReviews(q)'
  PROVE  RunOK(q)'
<1>1. OwnBuilds(q)' /\ ScanIsOpen(q)' /\ ServesItsOwn(q)' /\ PassedOnAll(q)'
  BY DEF RunOK
<1>2. PassIsOfItsPages(q)'
  BY DEF RunOK, PassIsOfItsPages, world
<1>3. PolicyOfWhatItSaw(q)'
  BY DEF RunOK, PolicyOfWhatItSaw, Diverged, world
<1> QED BY <1>1, <1>2, <1>3 DEF RunOK

\* A job that ends, and decides nothing by it, keeps all.
LEMMA EndsOK ==
  ASSUME NEW r, Good(r), NEW job \in Jobs, Waiting(r, job), NEW status \in Statuses \ {"waiting"},
         status = "success" => job \notin {"scan", "policy", "required"}
  PROVE  Good(Ends(r, job, status)) /\ Alike(r, Ends(r, job, status))
<1> DEFINE q == Ends(r, job, status)
<1>1. q = [r EXCEPT !.jobs = [r.jobs EXCEPT ![job] = status]]
  BY DEF Ends, Good, RunType
<1>2. /\ q \in RunType /\ q.artifacts = r.artifacts /\ Alike(r, q)
      /\ q.jobs = [r.jobs EXCEPT ![job] = status]
      /\ q.verdict = r.verdict /\ q.result = r.result /\ q.served = r.served
      /\ q.page = r.page /\ q.seen = r.seen
  BY <1>1 DEF Good, RunType, Alike, Statuses
<1>3. /\ DOMAIN r.jobs = Jobs /\ r.jobs[job] = "waiting"
      /\ "scan" \in Jobs /\ "policy" \in Jobs /\ "required" \in Jobs
  BY DEF Good, RunType, Waiting, Jobs
<1> HIDE DEF q
<1>4. OwnBuilds(q)
  BY <1>2 DEF Good, RunOK, OwnBuilds, Alike, Bytes
<1>5. ScanIsOpen(q)
  BY <1>2, <1>3 DEF Good, RunOK, ScanIsOpen, Waiting
<1>6. ServesItsOwn(q) /\ PassIsOfItsPages(q)
  BY <1>2 DEF Good, RunOK, ServesItsOwn, PassIsOfItsPages, PagesJudged, Alike, Bytes
<1>7. PolicyOfWhatItSaw(q)
  BY <1>2, <1>3 DEF Good, RunOK, PolicyOfWhatItSaw, Diverged, Alike
<1>8. SawReviews(q)
  BY <1>2 DEF Good, RunOK, SawReviews, Alike
<1>9. PassedOnAll(q)
  BY <1>2, <1>3 DEF Good, RunOK, PassedOnAll, Passed, Waiting
<1> QED BY <1>2, <1>4, <1>5, <1>6, <1>7, <1>8, <1>9 DEF Good, RunOK, q

\* A run a job may still end has not passed.
LEMMA NotPassedYet ==
  ASSUME NEW r, Good(r), NEW job \in Jobs, Waiting(r, job)
  PROVE  ~Passed(r)
BY DEF Good, RunOK, PassedOnAll

\* An upload adds one artifact.
LEMMA UploadAdds ==
  ASSUME NEW r, Good(r), NEW name, NEW data,
         \/ name = "build" /\ data \in Tars
         \/ name = "result" /\ data \in Results
  PROVE  \E a \in Artifacts :
           /\ a.name = name
           /\ name = "build" => a.entries = <<BuildEntry(data)>>
           /\ Upload(r, name, data) = [r EXCEPT !.artifacts = r.artifacts \cup {a}]
<1> DEFINE a == [name |-> name, id |-> Cardinality(r.artifacts) + 1, expired |-> FALSE, over |-> FALSE,
                 entries |-> <<[name |-> name, regular |-> TRUE, intact |-> TRUE, data |-> data]>>]
<1>1. Cardinality(r.artifacts) + 1 \in Nat
  <2>1. Cardinality(r.artifacts) \in Nat
    BY FS_CardinalityType DEF Good
  <2> QED BY <2>1
<1>2. <<[name |-> name, regular |-> TRUE, intact |-> TRUE, data |-> data]>> \in Entries
  <2>1. CASE name = "build" /\ data \in Tars
    BY <2>1 DEF Entries, BuildEntry
  <2>2. CASE name = "result" /\ data \in Results
    BY <2>2 DEF Entries, ResultEntry
  <2> QED BY <2>1, <2>2
<1>3. a \in Artifacts
  BY <1>1, <1>2 DEF Artifacts
<1>4. name = "build" => a.entries = <<BuildEntry(data)>>
  BY DEF BuildEntry
<1>5. Upload(r, name, data) = [r EXCEPT !.artifacts = r.artifacts \cup {a}]
  BY DEF Upload
<1> QED BY <1>3, <1>4, <1>5

\* The archive a build job packs is one of this run's.
LEMMA OwnTar ==
  ASSUME NEW r \in RunType, NEW c \in BOOLEAN
  PROVE  Bytes(r) \in AllBytes /\ Tar(Bytes(r), c) \in Tars
BY DEF RunType, Bytes, AllBytes, Tars

\* A build leaves a good run good.
LEMMA BuildOK ==
  ASSUME NEW r, Good(r), Waiting(r, "build")
  PROVE  LET q == BuildApp(r, Built(r))
         IN  Good(q) /\ Alike(r, q) /\ q.found = r.found
<1>1. Built(r) = Tar(Bytes(r), TRUE)
  BY DEF Built, Tar, Bytes
<1>2. Built(r) \in Tars
  BY <1>1, OwnTar DEF Good
<1>3. PICK a \in Artifacts : /\ a.name = "build"
                             /\ a.entries = <<BuildEntry(Built(r))>>
                             /\ Upload(r, "build", Built(r)) = [r EXCEPT !.artifacts = r.artifacts \cup {a}]
  BY <1>2, UploadAdds
<1> DEFINE p == [r EXCEPT !.artifacts = r.artifacts \cup {a}, !.digest = Built(r)]
<1>4. /\ p \in RunType /\ p.artifacts = r.artifacts \cup {a} /\ Alike(r, p)
      /\ p.jobs = r.jobs /\ p.verdict = r.verdict /\ p.result = r.result /\ p.served = r.served
      /\ p.page = r.page /\ p.seen = r.seen /\ p.found = r.found
  BY <1>2, <1>3 DEF Good, RunType, Alike
<1>5. BuildApp(r, Built(r)) = Ends(p, "build", "success")
  BY <1>3 DEF BuildApp, Good, RunType
<1> HIDE DEF p
<1>6. Good(p)
  <2>1. IsFiniteSet(p.artifacts)
    BY <1>4, FS_AddElement DEF Good
  <2>2. OwnBuilds(p)
    BY <1>1, <1>3, <1>4 DEF Good, RunOK, OwnBuilds, Alike, Bytes
  <2>3. ScanIsOpen(p) /\ ServesItsOwn(p) /\ PassIsOfItsPages(p)
    BY <1>4 DEF Good, RunOK, ScanIsOpen, Waiting, ServesItsOwn, PassIsOfItsPages, PagesJudged, Alike, Bytes
  <2>4. PolicyOfWhatItSaw(p)
    BY <1>4 DEF Good, RunOK, PolicyOfWhatItSaw, Diverged, Alike
  <2>5. SawReviews(p)
    BY <1>4 DEF Good, RunOK, SawReviews, Alike
  <2>6. PassedOnAll(p)
    BY <1>4 DEF Good, RunOK, PassedOnAll, Passed, Waiting
  <2> QED BY <1>4, <2>1, <2>2, <2>3, <2>4, <2>5, <2>6 DEF Good, RunOK
<1>7. Waiting(p, "build") /\ "build" \in Jobs
  BY <1>4 DEF Waiting, Jobs
<1>8. Good(Ends(p, "build", "success")) /\ Alike(p, Ends(p, "build", "success"))
  BY <1>6, <1>7, EndsOK DEF Statuses
<1>9. Ends(p, "build", "success").found = r.found
  BY <1>4 DEF Ends, RunType
<1> QED BY <1>4, <1>5, <1>8, <1>9 DEF Alike

\* A judge that resolves keeps all, when a pass of its is a pass of its pages.
LEMMA ResolveOK ==
  ASSUME NEW r, r \in RunType, IsFiniteSet(r.artifacts), Waiting(r, "scan"), r.verdict # "pass",
         OwnBuilds(r), ServesItsOwn(r), PolicyOfWhatItSaw(r), SawReviews(r), ~Passed(r),
         ValidResult(r) /\ EnforceAccessibility(r.result) = 0 =>
           PagesJudged(r, commits[r.base]) = {Bytes(r)} /\ Bytes(r) \notin dirty
  PROVE  LET q == Resolve(r)
         IN  Good(q) /\ Alike(r, q) /\ q.found = r.found
<1> DEFINE valid == ValidResult(r)
           pass == valid /\ EnforceAccessibility(r.result) = 0
           said == [r EXCEPT !.verdict = IF pass THEN "pass" ELSE "fail",
                             !.resultDigest = IF valid THEN r.result ELSE None]
           status == IF pass THEN "success" ELSE "failure"
           q == Resolve(r)
<1>1. valid => r.result \in Results
  BY DEF ValidResult, RunType
<1>2. PICK arts \in SUBSET Artifacts :
         /\ IsFiniteSet(arts)
         /\ \A a \in arts : a.name = "build" => a \in r.artifacts
         /\ q = [r EXCEPT !.verdict = IF pass THEN "pass" ELSE "fail",
                          !.resultDigest = IF valid THEN r.result ELSE None,
                          !.artifacts = arts,
                          !.jobs = [r.jobs EXCEPT !["scan"] = status]]
  <2>0. /\ said \in RunType /\ said.artifacts = r.artifacts /\ said.jobs = r.jobs
        /\ said.verdict = (IF pass THEN "pass" ELSE "fail")
        /\ said.resultDigest = (IF valid THEN r.result ELSE None)
    BY <1>1 DEF RunType
  <2>1. CASE ~valid
    <3>1. q = Ends(said, "scan", status)
      BY <2>1 DEF Resolve
    <3>2. q = [r EXCEPT !.verdict = IF pass THEN "pass" ELSE "fail",
                        !.resultDigest = IF valid THEN r.result ELSE None,
                        !.artifacts = r.artifacts,
                        !.jobs = [r.jobs EXCEPT !["scan"] = status]]
      BY <3>1 DEF Ends, RunType
    <3>3. r.artifacts \in SUBSET Artifacts
      BY DEF RunType
    <3> HIDE DEF q, pass, valid, status
    <3> QED BY <3>2, <3>3
  <2>2. CASE valid
    <3> DEFINE a == [name |-> "result", id |-> Cardinality(r.artifacts) + 1, expired |-> FALSE, over |-> FALSE,
                     entries |-> <<ResultEntry(r.result)>>]
    <3>1. a \in Artifacts
      <4>1. Cardinality(r.artifacts) \in Nat
        BY FS_CardinalityType
      <4>2. <<ResultEntry(r.result)>> \in Entries
        BY <1>1, <2>2 DEF Entries
      <4> QED BY <4>1, <4>2 DEF Artifacts
    <3>2. Upload(said, "result", r.result) = [said EXCEPT !.artifacts = r.artifacts \cup {a}]
      BY <2>0 DEF Upload, ResultEntry
    <3>3. q = Ends([said EXCEPT !.artifacts = r.artifacts \cup {a}], "scan", status)
      BY <2>2, <3>2 DEF Resolve
    <3>4. q = [r EXCEPT !.verdict = IF pass THEN "pass" ELSE "fail",
                        !.resultDigest = IF valid THEN r.result ELSE None,
                        !.artifacts = r.artifacts \cup {a},
                        !.jobs = [r.jobs EXCEPT !["scan"] = status]]
      BY <3>3 DEF Ends, RunType
    <3>5. /\ r.artifacts \cup {a} \in SUBSET Artifacts
          /\ IsFiniteSet(r.artifacts \cup {a})
          /\ a.name = "result"
      BY <3>1, FS_AddElement DEF RunType
    <3>6. \A b \in r.artifacts \cup {a} : b.name = "build" => b \in r.artifacts
      BY <3>5
    <3> HIDE DEF q, pass, valid, status, a
    <3> QED BY <3>4, <3>5, <3>6
  <2> QED BY <2>1, <2>2
<1>3. /\ q \in RunType /\ q.artifacts = arts /\ Alike(r, q)
      /\ q.jobs = [r.jobs EXCEPT !["scan"] = status]
      /\ q.verdict = (IF pass THEN "pass" ELSE "fail") /\ q.served = r.served
      /\ q.page = r.page /\ q.seen = r.seen /\ q.found = r.found
  <2>1. PICK v, g, w : v = (IF pass THEN "pass" ELSE "fail") /\ g = (IF valid THEN r.result ELSE None) /\ w = status
    OBVIOUS
  <2>2. v \in {"pass", "fail", None} /\ g \in Results \cup {None} /\ w \in Statuses
    BY <1>1, <2>1 DEF Statuses
  <2>3. q = [r EXCEPT !.verdict = v, !.resultDigest = g, !.artifacts = arts, !.jobs = [r.jobs EXCEPT !["scan"] = w]]
    BY <1>2, <2>1
  <2> HIDE DEF q, status, pass, valid
  <2>4. /\ q \in RunType /\ q.artifacts = arts /\ Alike(r, q)
        /\ q.jobs = [r.jobs EXCEPT !["scan"] = w]
        /\ q.verdict = v /\ q.served = r.served
        /\ q.page = r.page /\ q.seen = r.seen /\ q.found = r.found
    BY <2>2, <2>3 DEF RunType, Alike
  <2> QED BY <2>1, <2>4
<1>4. /\ DOMAIN r.jobs = Jobs /\ "scan" \in Jobs /\ "policy" \in Jobs /\ "required" \in Jobs
      /\ status # "waiting" /\ pass \in BOOLEAN
  BY DEF RunType, Jobs
<1>5. pass => PagesJudged(r, commits[r.base]) = {Bytes(r)} /\ Bytes(r) \notin dirty
  OBVIOUS
<1> HIDE DEF q, status, pass, valid
<1>6. OwnBuilds(q)
  BY <1>2, <1>3 DEF OwnBuilds, Alike, Bytes
<1>7. ScanIsOpen(q)
  BY <1>3, <1>4 DEF ScanIsOpen, Waiting
<1>8. ServesItsOwn(q)
  BY <1>3 DEF ServesItsOwn, Alike, Bytes
<1>9. PassIsOfItsPages(q)
  BY <1>3, <1>4, <1>5 DEF PassIsOfItsPages, PagesJudged, Alike, Bytes
<1>10. PolicyOfWhatItSaw(q)
  BY <1>3, <1>4 DEF PolicyOfWhatItSaw, Diverged, Alike
<1>11. SawReviews(q)
  <2>1. q.seen = r.seen /\ q.pr = r.pr
    BY <1>3 DEF Alike
  <2> QED BY <2>1 DEF SawReviews
<1>12. PassedOnAll(q)
  BY <1>3, <1>4 DEF PassedOnAll, Passed
<1> QED BY <1>2, <1>3, <1>6, <1>7, <1>8, <1>9, <1>10, <1>11, <1>12 DEF Good, RunOK, q

\* A step of the judge before it resolves.
JudgeStep(r, q) ==
  /\ q \in RunType /\ Alike(r, q)
  /\ q.artifacts = r.artifacts /\ q.jobs = r.jobs /\ q.verdict = r.verdict
  /\ q.page = r.page /\ q.seen = r.seen

\* A step of the judge that ends no other job.
LEMMA JudgeStepOK ==
  ASSUME NEW r, Good(r), Waiting(r, "scan"), NEW q, JudgeStep(r, q), ServesItsOwn(q)
  PROVE  /\ IsFiniteSet(q.artifacts) /\ Waiting(q, "scan") /\ q.verdict # "pass"
         /\ OwnBuilds(q) /\ PolicyOfWhatItSaw(q) /\ SawReviews(q) /\ ~Passed(q)
         /\ q.result = None => Good(q)
<1> USE DEF JudgeStep
<1>1. "scan" \in Jobs
  BY DEF Jobs
<1>2. /\ IsFiniteSet(q.artifacts) /\ Waiting(q, "scan") /\ q.verdict # "pass"
  BY DEF Good, RunOK, Waiting, ScanIsOpen
<1>3. OwnBuilds(q)
  BY DEF Good, RunOK, OwnBuilds, Alike, Bytes
<1>4. PolicyOfWhatItSaw(q)
  BY DEF Good, RunOK, PolicyOfWhatItSaw, Diverged, Alike
<1>5. SawReviews(q)
  BY DEF Good, RunOK, SawReviews, Alike
<1>6. ~Passed(q)
  BY <1>1, NotPassedYet DEF Passed
<1>7. q.result = None => Good(q)
  BY <1>2, <1>3, <1>4, <1>5, <1>6 DEF Good, RunOK, ScanIsOpen, PassIsOfItsPages, PassedOnAll
<1> QED BY <1>2, <1>3, <1>4, <1>5, <1>6, <1>7

\* The judge that found a build, of its own or another run.
LEMMA FindsOK ==
  ASSUME NEW r, Good(r), Waiting(r, "scan"), NEW f \in Nat
  PROVE  LET q == [r EXCEPT !.found = f] IN Good(q) /\ Alike(r, q) /\ q.found = f
<1> DEFINE q == [r EXCEPT !.found = f]
<1>1. JudgeStep(r, q) /\ q.result = r.result /\ q.served = r.served /\ q.found = f
  BY DEF JudgeStep, Alike, Good, RunType
<1> HIDE DEF q
<1>2. ServesItsOwn(q)
  BY <1>1 DEF Good, RunOK, ServesItsOwn, JudgeStep, Alike, Bytes
<1>3. q.result = None
  BY <1>1 DEF Good, RunOK, ScanIsOpen
<1> QED BY <1>1, <1>2, <1>3, JudgeStepOK DEF JudgeStep, q

\* A judge with no Result in hand resolves to a failure.
LEMMA ResolvesOpen ==
  ASSUME NEW r, Good(r), Waiting(r, "scan")
  PROVE  LET q == Resolve(r) IN Good(q) /\ Alike(r, q) /\ q.found = r.found
<1>1. "scan" \in Jobs
  BY DEF Jobs
<1>2. r.result = None /\ r.verdict # "pass" /\ ~ValidResult(r)
  BY DEF Good, RunOK, ScanIsOpen, ValidResult
<1>3. ~Passed(r)
  BY <1>1, NotPassedYet
<1> QED BY <1>2, <1>3, ResolveOK DEF Good, RunOK

\* What it takes, from a run with the same bytes, is this run's build or nothing.
LEMMA TakesOK ==
  ASSUME NEW r, Good(r), Waiting(r, "scan"), NEW rs,
         Good(rs[r.found]), Bytes(rs[r.found]) = Bytes(r)
  PROVE  LET q == TakeBuild(rs, r)
         IN  Good(q) /\ Alike(r, q) /\ q.found = r.found
<1> DEFINE fetched == FetchArtifact(rs[r.found].artifacts, "build", "build")
           archive == IF OnPush(r) THEN VerifyDownload(fetched, r.digest) ELSE fetched
           q == TakeBuild(rs, r)
<1>1. fetched = Refused \/ \E c \in BOOLEAN : fetched = Tar(Bytes(r), c)
  BY FetchesItsBuild DEF Good, RunOK
<1>2. archive = Refused \/ \E c \in BOOLEAN : archive = Tar(Bytes(r), c)
  BY <1>1 DEF VerifyDownload
<1>3. archive \in Tars \cup {Refused}
  BY <1>2, OwnTar DEF Good
<1>4. ExtractBuild(archive) = Refused \/ ExtractBuild(archive) = Tree(Bytes(r))
  <2>1. CASE archive = Refused
    BY <2>1 DEF ExtractBuild
  <2>2. CASE archive # Refused
    BY <1>2, <2>2, UnpacksToItsPages
  <2> QED BY <2>1, <2>2
<1>5. Tree(Bytes(r)) \in Trees
  BY OwnTar DEF Trees, Good
<1>6. PICK s : s = ExtractBuild(archive)
  OBVIOUS
<1>7. PICK a : a = archive
  OBVIOUS
<1>8. q = [r EXCEPT !.archive = a, !.served = s]
  BY <1>6, <1>7 DEF TakeBuild
<1>9. a \in Tars \cup {Refused} /\ s \in Trees \cup {Refused} /\ s \in {Refused, Tree(Bytes(r))}
  BY <1>3, <1>4, <1>5, <1>6, <1>7
<1> HIDE DEF q, archive, fetched
<1>10. JudgeStep(r, q) /\ q.result = r.result /\ q.served = s /\ q.found = r.found
  BY <1>8, <1>9 DEF JudgeStep, Alike, Good, RunType
<1>11. Bytes(q) = Bytes(r)
  BY <1>10 DEF JudgeStep, Alike, Bytes
<1>12. ServesItsOwn(q)
  BY <1>9, <1>10, <1>11 DEF ServesItsOwn
<1>13. q.result = None
  BY <1>10 DEF Good, RunOK, ScanIsOpen
<1> QED BY <1>10, <1>12, <1>13, JudgeStepOK DEF JudgeStep, q

\* A scan of the pages served resolves to what it found in them.
LEMMA ScansOK ==
  ASSUME ScreensAreServed, NEW r, Good(r), Waiting(r, "scan"), r.served \notin {None, Refused},
         NEW accessibility, NEW crash \in BOOLEAN,
         accessibility = CheckExit(r, commits[r.base], dirty) \/ (crash /\ accessibility = 0)
  PROVE  LET q == Resolve(Judged(r, accessibility, crash))
         IN  Good(q) /\ Alike(r, q) /\ q.found = r.found
<1> DEFINE p == Judged(r, accessibility, crash)
<1>1. CheckExit(r, commits[r.base], dirty) \in 0..2
  BY DEF CheckExit
<1>2. accessibility \in 0..2
  BY <1>1
<1>3. [crash |-> crash, accessibility |-> accessibility, buildDigest |-> r.archive, isolated |-> TRUE] \in Results
  BY <1>2 DEF Results, Good, RunType
<1>4. PICK x \in Results : x = [crash |-> crash, accessibility |-> accessibility, buildDigest |-> r.archive, isolated |-> TRUE]
  BY <1>3
<1>5. p = [r EXCEPT !.result = x]
  BY <1>4 DEF Judged
<1> HIDE DEF p
<1>6. JudgeStep(r, p) /\ p.result = x /\ p.served = r.served /\ p.found = r.found
  BY <1>5 DEF JudgeStep, Alike, Good, RunType
<1>7. r.served = Tree(Bytes(r))
  BY DEF Good, RunType, RunOK, ServesItsOwn
<1>8. ServesItsOwn(p)
  BY <1>6, <1>7 DEF ServesItsOwn, JudgeStep, Alike, Bytes
<1>9. ASSUME EnforceAccessibility(p.result) = 0
      PROVE  PagesJudged(p, commits[p.base]) = {Bytes(p)} /\ Bytes(p) \notin dirty
  <2>1. x.crash = crash /\ x.accessibility = accessibility
    BY <1>4
  <2>2. crash = FALSE /\ accessibility = 0
    BY <1>6, <1>9, <2>1 DEF EnforceAccessibility
  <2>3. /\ PagesJudged(r, commits[r.base]) \cap dirty = {}
        /\ PagesJudged(r, commits[r.base]) # {}
    BY <2>2 DEF CheckExit
  <2>4. PagesJudged(r, commits[r.base]) \subseteq {Bytes(r)}
    BY <1>7, JudgesItsPages
  <2>5. PagesJudged(p, commits[p.base]) = PagesJudged(r, commits[r.base]) /\ Bytes(p) = Bytes(r)
    BY <1>6 DEF PagesJudged, JudgeStep, Alike, Bytes
  <2> QED BY <2>3, <2>4, <2>5
<1>10. /\ p \in RunType /\ IsFiniteSet(p.artifacts) /\ Waiting(p, "scan") /\ p.verdict # "pass"
       /\ OwnBuilds(p) /\ PolicyOfWhatItSaw(p) /\ SawReviews(p) /\ ~Passed(p)
  BY <1>6, <1>8, JudgeStepOK DEF JudgeStep
<1>11. Good(Resolve(p)) /\ Alike(p, Resolve(p)) /\ Resolve(p).found = p.found
  BY <1>8, <1>9, <1>10, ResolveOK
<1> QED BY <1>6, <1>11 DEF Alike, JudgeStep, p

\* What the policy says when it ends is about what it saw.
LEMMA PolicyEndsOK ==
  ASSUME NEW r, Good(r), Waiting(r, "policy"), NEW status \in {"success", "failure"},
         status = "success" =>
           \/ Diverged(r) = {}
           \/ /\ r.page > 0
              /\ EnforcePolicy(commits[r.base], commits[r.head],
                               [author |-> prs[r.pr].author, head |-> r.head], r.seen) = 0
  PROVE  LET q == Ends(r, "policy", status) IN Good(q) /\ Alike(r, q) /\ q.found = r.found
<1> DEFINE q == Ends(r, "policy", status)
<1>1. q = [r EXCEPT !.jobs = [r.jobs EXCEPT !["policy"] = status]]
  BY DEF Ends, Good, RunType
<1>2. /\ q \in RunType /\ q.artifacts = r.artifacts /\ Alike(r, q)
      /\ q.jobs = [r.jobs EXCEPT !["policy"] = status]
      /\ q.verdict = r.verdict /\ q.result = r.result /\ q.served = r.served
      /\ q.page = r.page /\ q.seen = r.seen /\ q.found = r.found
  BY <1>1 DEF Good, RunType, Alike, Statuses
<1>3. /\ DOMAIN r.jobs = Jobs /\ r.jobs["policy"] = "waiting"
      /\ "scan" \in Jobs /\ "policy" \in Jobs /\ "required" \in Jobs
  BY DEF Good, RunType, Waiting, Jobs
<1> HIDE DEF q
<1>4. OwnBuilds(q)
  BY <1>2 DEF Good, RunOK, OwnBuilds, Alike, Bytes
<1>5. ScanIsOpen(q)
  BY <1>2, <1>3 DEF Good, RunOK, ScanIsOpen, Waiting
<1>6. ServesItsOwn(q) /\ PassIsOfItsPages(q)
  BY <1>2 DEF Good, RunOK, ServesItsOwn, PassIsOfItsPages, PagesJudged, Alike, Bytes
<1>7. PolicyOfWhatItSaw(q)
  BY <1>2, <1>3 DEF PolicyOfWhatItSaw, Diverged, Alike
<1>8. SawReviews(q)
  BY <1>2 DEF Good, RunOK, SawReviews, Alike
<1>9. PassedOnAll(q)
  <2>1. ~Passed(r)
    BY <1>3, NotPassedYet
  <2> QED BY <1>2, <1>3, <2>1 DEF PassedOnAll, Passed
<1> QED BY <1>2, <1>4, <1>5, <1>6, <1>7, <1>8, <1>9 DEF Good, RunOK, q

\* The policy job ends without reviews, or asks for its first page.
LEMMA PolicyStartsOK ==
  ASSUME NEW r, Good(r), Waiting(r, "policy"), r.page = 0
  PROVE  LET q == PolicyStarts(r, commits[r.base], commits[r.head], prs[r.pr].author)
         IN  Good(q) /\ Alike(r, q) /\ q.found = r.found
<1> DEFINE result == FetchResult(r)
           exit == EnforcePolicy(commits[r.base], commits[r.head],
                                 [author |-> prs[r.pr].author, head |-> r.head], <<>>)
           needs == NeedsReviews(commits[r.base], commits[r.head])
           q == PolicyStarts(r, commits[r.base], commits[r.head], prs[r.pr].author)
<1>1. ASSUME ~needs, exit = 0 PROVE Diverged(r) = {}
  BY <1>1 DEF EnforcePolicy, Diverged
<1>2. CASE q = Ends(r, "policy", "failure")
  BY <1>2, PolicyEndsOK
<1>3. CASE ~needs /\ q = Ends(r, "policy", IF exit = 0 THEN "success" ELSE "failure")
  <2> HIDE DEF exit, needs, q
  <2>1. PICK status \in {"success", "failure"} : status = IF exit = 0 THEN "success" ELSE "failure"
    OBVIOUS
  <2> QED BY <1>1, <1>3, <2>1, PolicyEndsOK DEF q
<1>4. CASE q = [r EXCEPT !.page = 1]
  <2>1. /\ q \in RunType /\ q.artifacts = r.artifacts /\ Alike(r, q) /\ q.jobs = r.jobs
        /\ q.verdict = r.verdict /\ q.result = r.result /\ q.served = r.served
        /\ q.page = 1 /\ q.seen = r.seen /\ q.found = r.found
    BY <1>4 DEF Good, RunType, Alike
  <2> HIDE DEF q
  <2>2. OwnBuilds(q) /\ ScanIsOpen(q) /\ ServesItsOwn(q) /\ PassIsOfItsPages(q) /\ PassedOnAll(q)
    BY <2>1 DEF Good, RunOK, OwnBuilds, ScanIsOpen, ServesItsOwn, PassIsOfItsPages, PagesJudged, PassedOnAll, Passed, Waiting, Alike, Bytes
  <2>3. SawReviews(q)
    BY <2>1 DEF Good, RunOK, SawReviews, Alike
  <2>4. PolicyOfWhatItSaw(q)
    BY <2>1 DEF PolicyOfWhatItSaw, Waiting
  <2> QED BY <2>1, <2>2, <2>3, <2>4 DEF Good, RunOK, q
<1>5. \/ q = Ends(r, "policy", "failure")
      \/ q = [r EXCEPT !.page = 1]
      \/ ~needs /\ q = Ends(r, "policy", IF exit = 0 THEN "success" ELSE "failure")
  <2>1. CASE result = Refused \/ result.crash
    <3>1. q = Ends(r, "policy", "failure")
      BY <2>1 DEF PolicyStarts
    <3> QED BY <3>1
  <2>2. CASE ~(result = Refused \/ result.crash) /\ needs
    <3>1. q = [r EXCEPT !.page = 1]
      BY <2>2 DEF PolicyStarts
    <3> QED BY <3>1
  <2>3. CASE ~(result = Refused \/ result.crash) /\ ~needs
    <3>1. q = Ends(r, "policy", IF exit = 0 THEN "success" ELSE "failure")
      BY <2>3 DEF PolicyStarts
    <3> QED BY <2>3, <3>1
  <2> QED BY <2>1, <2>2, <2>3
<1> QED BY <1>2, <1>3, <1>4, <1>5

\* A page of the reviews is part of them.
LEMMA PageIsPart ==
  ASSUME NEW S, NEW listing \in Seq(S), NEW page \in Nat \ {0}
  PROVE  /\ PageOf(listing, page) \in Seq(S)
         /\ \A k \in 1..Len(PageOf(listing, page)) :
              /\ (page - 1) * PageSize + k \in 1..Len(listing)
              /\ PageOf(listing, page)[k] = listing[(page - 1) * PageSize + k]
         /\ Len(PageOf(listing, page)) < PageSize =>
              Len(listing) <= (page - 1) * PageSize + Len(PageOf(listing, page))
         /\ ~(Len(PageOf(listing, page)) < PageSize) => Len(PageOf(listing, page)) = PageSize
<1> DEFINE from == (page - 1) * PageSize
           upto == IF page * PageSize < Len(listing) THEN page * PageSize ELSE Len(listing)
           items == PageOf(listing, page)
<1>1. PageSize \in Nat \ {0} /\ Len(listing) \in Nat
  BY PageAssumption
<1>2. PICK a : a = (page - 1) * PageSize
  OBVIOUS
<1>3. a \in Nat /\ page * PageSize = a + PageSize
  BY <1>1, <1>2
<1>4. PICK b : b = upto
  OBVIOUS
<1>5. b \in Nat /\ b <= Len(listing) /\ b <= a + PageSize /\ (b = Len(listing) \/ b = a + PageSize)
  BY <1>1, <1>3, <1>4
<1>6. items = SubSeq(listing, a + 1, b)
  BY <1>2, <1>4 DEF PageOf
<1> HIDE DEF items, from, upto
<1>7. items \in Seq(S) /\ Len(items) = (IF a + 1 <= b THEN b - a ELSE 0)
      /\ \A k \in 1..Len(items) : items[k] = listing[a + k]
  <2>1. items = [k \in 1..(b - a) |-> listing[a + k]]
    BY <1>1, <1>3, <1>5, <1>6
  <2>2. CASE a + 1 <= b
    <3>1. b - a \in Nat /\ \A k \in 1..(b - a) : a + k \in 1..Len(listing)
      BY <1>1, <1>3, <1>5, <2>2
    <3> QED BY <1>3, <1>5, <2>1, <2>2, <3>1
  <2>3. CASE b < a + 1
    <3>1. 1..(b - a) = {}
      BY <1>3, <1>5, <2>3
    <3>2. items = <<>>
      BY <2>1, <3>1
    <3> QED BY <1>3, <1>5, <2>3, <3>2
  <2> QED BY <1>3, <1>5, <2>2, <2>3
<1>8. \A k \in 1..Len(items) : a + k \in 1..Len(listing)
  BY <1>1, <1>3, <1>5, <1>7
<1>9. Len(items) < PageSize => Len(listing) <= a + Len(items)
  <2>1. CASE b = Len(listing)
    <3>1. CASE a + 1 <= b
      BY <1>1, <1>3, <1>5, <1>7, <2>1, <3>1
    <3>2. CASE b < a + 1
      BY <1>1, <1>3, <1>5, <1>7, <2>1, <3>2
    <3> QED BY <1>3, <1>5, <3>1, <3>2
  <2>2. CASE b = a + PageSize
    BY <1>1, <1>3, <1>5, <1>7, <2>2
  <2> QED BY <1>5, <2>1, <2>2
<1>10. ~(Len(items) < PageSize) => Len(items) = PageSize
  BY <1>1, <1>3, <1>5, <1>7
<1> QED BY <1>2, <1>7, <1>8, <1>9, <1>10 DEF items

\* The policy job reads a page of the reviews there are.
LEMMA PolicyReadsOK ==
  ASSUME NEW r, Good(r), Waiting(r, "policy"), r.page > 0,
         reviews[r.pr] \in Seq(ReviewType),
         \A k \in 1..Len(reviews[r.pr]) : reviews[r.pr][k].state = "APPROVED" => reviews[r.pr][k].was = "APPROVED"
  PROVE  LET q == PolicyReads(r, commits[r.base], commits[r.head], prs[r.pr].author, reviews[r.pr])
         IN  Good(q) /\ Alike(r, q) /\ q.found = r.found
<1> DEFINE items == PageOf(reviews[r.pr], r.page)
           more == r.seen \o items
           exit(s) == EnforcePolicy(commits[r.base], commits[r.head],
                                    [author |-> prs[r.pr].author, head |-> r.head], s)
           q == PolicyReads(r, commits[r.base], commits[r.head], prs[r.pr].author, reviews[r.pr])
<1>1. r.page \in Nat \ {0} /\ r.seen \in Seq(ReviewType)
  BY DEF Good, RunType
<1>2. /\ items \in Seq(ReviewType)
      /\ \A k \in 1..Len(items) : /\ (r.page - 1) * PageSize + k \in 1..Len(reviews[r.pr])
                                  /\ items[k] = reviews[r.pr][(r.page - 1) * PageSize + k]
  BY <1>1, PageIsPart
<1>3. PICK seen \in Seq(ReviewType) : seen = more
  <2> HIDE DEF items
  <2>1. more \in Seq(ReviewType)
    BY <1>1, <1>2
  <2> QED BY <2>1
<1>4. \A k \in 1..Len(seen) :
        /\ seen[k].state = "APPROVED" => seen[k].was = "APPROVED"
        /\ \E i \in 1..Len(reviews[r.pr]) :
             /\ reviews[r.pr][i].user = seen[k].user
             /\ reviews[r.pr][i].commit = seen[k].commit
             /\ reviews[r.pr][i].was = seen[k].was
  <2> HIDE DEF items
  <2>1. ASSUME NEW k \in 1..Len(seen)
        PROVE  \/ \E j \in 1..Len(r.seen) : seen[k] = r.seen[j]
               \/ \E i \in 1..Len(reviews[r.pr]) : seen[k] = reviews[r.pr][i]
    <3>1. CASE k \in 1..Len(r.seen)
      BY <1>1, <1>2, <1>3, <3>1
    <3>2. CASE k \notin 1..Len(r.seen)
      <4>1. k - Len(r.seen) \in 1..Len(items) /\ seen[k] = items[k - Len(r.seen)]
        BY <1>1, <1>2, <1>3, <2>1, <3>2
      <4> QED BY <1>2, <4>1
    <3> QED BY <3>1, <3>2
  <2>2. SawReviews(r)
    BY DEF Good, RunOK
  <2>3. ASSUME NEW k \in 1..Len(seen)
        PROVE  /\ seen[k].state = "APPROVED" => seen[k].was = "APPROVED"
               /\ \E i \in 1..Len(reviews[r.pr]) :
                    /\ reviews[r.pr][i].user = seen[k].user
                    /\ reviews[r.pr][i].commit = seen[k].commit
                    /\ reviews[r.pr][i].was = seen[k].was
    <3>1. CASE \E j \in 1..Len(r.seen) : seen[k] = r.seen[j]
      BY <2>2, <3>1 DEF SawReviews
    <3>2. CASE \E i \in 1..Len(reviews[r.pr]) : seen[k] = reviews[r.pr][i]
      BY <3>2
    <3> QED BY <2>1, <2>3, <3>1, <3>2
  <2> QED BY <2>3
<1> HIDE DEF items
<1>5. ASSUME NEW p \in Nat
      PROVE  LET read == [r EXCEPT !.seen = seen, !.page = p]
             IN  Good(read) /\ Alike(r, read) /\ read.found = r.found
  <2> DEFINE read == [r EXCEPT !.seen = seen, !.page = p]
  <2>1. /\ read \in RunType /\ read.artifacts = r.artifacts /\ Alike(r, read) /\ read.jobs = r.jobs
        /\ read.verdict = r.verdict /\ read.result = r.result /\ read.served = r.served
        /\ read.page = p /\ read.seen = seen /\ read.found = r.found
    BY <1>3 DEF Good, RunType, Alike
  <2> HIDE DEF read
  <2>2. OwnBuilds(read) /\ ScanIsOpen(read) /\ ServesItsOwn(read) /\ PassIsOfItsPages(read) /\ PassedOnAll(read)
    BY <2>1 DEF Good, RunOK, OwnBuilds, ScanIsOpen, ServesItsOwn, PassIsOfItsPages, PagesJudged, PassedOnAll, Passed, Waiting, Alike, Bytes
  <2>3. SawReviews(read)
    BY <1>4, <2>1 DEF SawReviews, Alike
  <2>4. PolicyOfWhatItSaw(read)
    BY <2>1 DEF PolicyOfWhatItSaw, Waiting
  <2> QED BY <2>1, <2>2, <2>3, <2>4 DEF Good, RunOK, read
<1>6. PICK read : read = [r EXCEPT !.seen = seen, !.page = r.page]
  OBVIOUS
<1>7. /\ Good(read) /\ Alike(r, read) /\ read.found = r.found
      /\ Waiting(read, "policy") /\ read.page = r.page /\ read.seen = seen
  BY <1>1, <1>5, <1>6 DEF Good, RunType, Waiting
<1>8. read = [r EXCEPT !.seen = seen] /\ [read EXCEPT !.page = @ + 1] = [r EXCEPT !.seen = seen, !.page = r.page + 1]
  BY <1>6 DEF Good, RunType
<1>9. \/ q = Ends(read, "policy", IF exit(seen) = 0 THEN "success" ELSE "failure")
      \/ q = Ends(read, "policy", "failure")
      \/ q = [r EXCEPT !.seen = seen, !.page = r.page + 1]
  <2>1. CASE LastPage(items)
    <3>1. q = Ends(read, "policy", IF exit(seen) = 0 THEN "success" ELSE "failure")
      BY <1>3, <1>8, <2>1 DEF PolicyReads, items
    <3> QED BY <3>1
  <2>2. CASE ~LastPage(items) /\ Truncated(r.page, items)
    <3>1. q = Ends(read, "policy", "failure")
      BY <1>3, <1>8, <2>2 DEF PolicyReads, items
    <3> QED BY <3>1
  <2>3. CASE ~LastPage(items) /\ ~Truncated(r.page, items)
    <3>1. q = [read EXCEPT !.page = @ + 1]
      BY <1>3, <1>8, <2>3 DEF PolicyReads, items
    <3> QED BY <1>8, <3>1
  <2> QED BY <2>1, <2>2, <2>3
<1>10. CASE q = Ends(read, "policy", "failure")
  BY <1>7, <1>10, PolicyEndsOK DEF Alike
<1>11. CASE q = Ends(read, "policy", IF exit(seen) = 0 THEN "success" ELSE "failure")
  <2>1. PICK status \in {"success", "failure"} : status = IF exit(seen) = 0 THEN "success" ELSE "failure"
    OBVIOUS
  <2>2. exit(seen) = EnforcePolicy(commits[read.base], commits[read.head],
                                   [author |-> prs[read.pr].author, head |-> read.head], read.seen)
    BY <1>7 DEF Alike
  <2>3. Good(Ends(read, "policy", status)) /\ Alike(read, Ends(read, "policy", status))
        /\ Ends(read, "policy", status).found = read.found
    <3> HIDE DEF exit
    <3>1. status = "success" => exit(seen) = 0
      BY <2>1
    <3>2. read.page > 0
      BY <1>1, <1>7
    <3> QED BY <1>7, <2>2, <3>1, <3>2, PolicyEndsOK
  <2>4. q = Ends(read, "policy", status)
    BY <1>11, <2>1
  <2> HIDE DEF exit, q
  <2> QED BY <1>7, <2>3, <2>4 DEF Alike, q
<1>12. CASE q = [r EXCEPT !.seen = seen, !.page = r.page + 1]
  <2>1. r.page + 1 \in Nat
    BY <1>1
  <2>2. PICK p \in Nat : p = r.page + 1
    BY <2>1
  <2> HIDE DEF q
  <2>3. Good([r EXCEPT !.seen = seen, !.page = p]) /\ Alike(r, [r EXCEPT !.seen = seen, !.page = p])
        /\ [r EXCEPT !.seen = seen, !.page = p].found = r.found
    BY <1>5, <2>2
  <2>4. q = [r EXCEPT !.seen = seen, !.page = p]
    BY <1>12, <2>2
  <2>5. Good(q) /\ Alike(r, q) /\ q.found = r.found
    BY <2>3, <2>4
  <2> QED BY <2>5 DEF q
<1> HIDE DEF q, exit
<1> QED BY <1>9, <1>10, <1>11, <1>12 DEF q

\* The required job believes a verdict of pass and a policy that passed.
LEMMA DecideOK ==
  ASSUME NEW r, Good(r), Ready(r, "required")
  PROVE  LET q == Required(r) IN Good(q) /\ Alike(r, q) /\ q.found = r.found
<1> DEFINE fits == \A j \in Jobs \ {"required"} : r.jobs[j] \in Shape(r.event)[j]
           status == IF fits /\ r.verdict = "pass" THEN "success" ELSE "failure"
           q == Required(r)
<1>1. \A j \in Jobs \ {"required"} : ~Waiting(r, j)
  BY DEF Ready, Needs, Jobs
<1>2. fits => r.jobs["policy"] = "success"
  BY DEF Shape, Jobs
<1>3. PICK w : w = status
  OBVIOUS
<1>4. /\ w \in {"success", "failure"}
      /\ w = "success" => r.jobs["policy"] = "success" /\ r.verdict = "pass"
  BY <1>2, <1>3
<1>5. q = [r EXCEPT !.jobs = [r.jobs EXCEPT !["required"] = w]]
  BY <1>3 DEF Required, Ends, Good, RunType
<1> HIDE DEF q, status, fits
<1>6. /\ q \in RunType /\ q.artifacts = r.artifacts /\ Alike(r, q)
      /\ q.jobs = [r.jobs EXCEPT !["required"] = w]
      /\ q.verdict = r.verdict /\ q.result = r.result /\ q.served = r.served
      /\ q.page = r.page /\ q.seen = r.seen /\ q.found = r.found
  BY <1>4, <1>5 DEF Good, RunType, Alike, Statuses
<1>7. /\ DOMAIN r.jobs = Jobs
      /\ "scan" \in Jobs /\ "policy" \in Jobs /\ "required" \in Jobs
  BY DEF Good, RunType, Jobs
<1>8. OwnBuilds(q) /\ ServesItsOwn(q) /\ PassIsOfItsPages(q)
  BY <1>6 DEF Good, RunOK, OwnBuilds, ServesItsOwn, PassIsOfItsPages, PagesJudged, Alike, Bytes
<1>9. ScanIsOpen(q)
  BY <1>6, <1>7 DEF Good, RunOK, ScanIsOpen, Waiting
<1>10. PolicyOfWhatItSaw(q)
  BY <1>6, <1>7 DEF Good, RunOK, PolicyOfWhatItSaw, Diverged, Alike
<1>11. SawReviews(q)
  BY <1>6 DEF Good, RunOK, SawReviews, Alike
<1>12. PassedOnAll(q)
  BY <1>1, <1>4, <1>6, <1>7 DEF PassedOnAll, Passed, Waiting
<1> QED BY <1>6, <1>8, <1>9, <1>10, <1>11, <1>12 DEF Good, RunOK, q

\* A record with one field changed, field by field.
LEMMA CutTar ==
  ASSUME NEW f, NEW c, NEW m, NEW d, f = [complete |-> c, members |-> m]
  PROVE  [f EXCEPT !.complete = d] = [complete |-> d, members |-> m]
<1>1. PICK x : x = [f EXCEPT !.complete = d]
  OBVIOUS
<1>2. f \in [complete : {c}, members : {m}]
  OBVIOUS
<1>3. x \in [complete : {d}, members : {m}]
  BY <1>1, <1>2
<1> QED BY <1>1, <1>3

\* The entry of a build cut short.
LEMMA CutEntry ==
  ASSUME NEW f, NEW t, NEW u, f = BuildEntry(t)
  PROVE  [f EXCEPT !.data = u] = BuildEntry(u)
<1>1. PICK x : x = [f EXCEPT !.data = u]
  OBVIOUS
<1>2. f \in [name : {"build"}, regular : {TRUE}, intact : {TRUE}, data : {t}]
  BY DEF BuildEntry
<1>3. x \in [name : {"build"}, regular : {TRUE}, intact : {TRUE}, data : {u}]
  BY <1>1, <1>2
<1> QED BY <1>1, <1>3 DEF BuildEntry

\* A build cut short is one still.
LEMMA SpoilOK ==
  ASSUME NEW r, Good(r), NEW a \in r.artifacts, NEW how \in {"expired", "cut"},
         how = "cut" => a.name = "build"
  PROVE  LET q == [r EXCEPT !.artifacts = (r.artifacts \ {a}) \cup {Spoilt(a, how)}]
         IN  Good(q) /\ Alike(r, q) /\ q.found = r.found
<1> DEFINE q == [r EXCEPT !.artifacts = (r.artifacts \ {a}) \cup {Spoilt(a, how)}]
<1>1. a \in Artifacts
  BY DEF Good, RunType
<1>2. PICK b : b = Spoilt(a, how)
  OBVIOUS
<1>3. /\ b \in Artifacts
      /\ b.name = "build" => \E c \in BOOLEAN : b.entries = <<BuildEntry(Tar(Bytes(r), c))>>
  <2>1. CASE how = "expired"
    <3>1. b = [a EXCEPT !.expired = TRUE]
      BY <1>2, <2>1 DEF Spoilt
    <3>2. b \in Artifacts /\ b.name = a.name /\ b.entries = a.entries
      BY <1>1, <3>1 DEF Artifacts
    <3> QED BY <3>2 DEF Good, RunOK, OwnBuilds
  <2>2. CASE how = "cut"
    <3>1. PICK c \in BOOLEAN : a.entries = <<BuildEntry(Tar(Bytes(r), c))>>
      BY <2>2 DEF Good, RunOK, OwnBuilds
    <3>2. b = [a EXCEPT !.entries[1].data.complete = FALSE]
      BY <1>2, <2>2 DEF Spoilt
    <3>3. b = [a EXCEPT !.entries = [a.entries EXCEPT ![1] = [a.entries[1] EXCEPT !.data = [a.entries[1].data EXCEPT !.complete = FALSE]]]]
      BY <3>2
    <3>4. [Tar(Bytes(r), c) EXCEPT !.complete = FALSE] = Tar(Bytes(r), FALSE)
      <4>1. PICK m : Tar(Bytes(r), c) = [complete |-> c, members |-> m] /\ Tar(Bytes(r), FALSE) = [complete |-> FALSE, members |-> m]
        BY DEF Tar
      <4>2. PICK f : f = Tar(Bytes(r), c)
        OBVIOUS
      <4>3. f = [complete |-> c, members |-> m]
        BY <4>1, <4>2
      <4>4. PICK v : v = FALSE
        OBVIOUS
      <4>5. [f EXCEPT !.complete = v] = [complete |-> v, members |-> m]
        BY <4>3, CutTar
      <4> QED BY <4>1, <4>2, <4>4, <4>5
    <3>5. a.entries[1] = BuildEntry(Tar(Bytes(r), c)) /\ a.entries[1].data = Tar(Bytes(r), c)
      BY <3>1 DEF BuildEntry
    <3>6. [a.entries[1] EXCEPT !.data = Tar(Bytes(r), FALSE)] = BuildEntry(Tar(Bytes(r), FALSE))
      <4>1. PICK e, t, u : e = a.entries[1] /\ t = Tar(Bytes(r), c) /\ u = Tar(Bytes(r), FALSE)
        OBVIOUS
      <4>2. e = BuildEntry(t)
        BY <3>5, <4>1
      <4>3. [e EXCEPT !.data = u] = BuildEntry(u)
        BY <4>2, CutEntry
      <4> QED BY <4>1, <4>3
    <3>7. [a.entries EXCEPT ![1] = BuildEntry(Tar(Bytes(r), FALSE))] = <<BuildEntry(Tar(Bytes(r), FALSE))>>
      <4>1. \A t, u : [<<t>> EXCEPT ![1] = u] = <<u>>
        OBVIOUS
      <4> QED BY <3>1, <4>1
    <3>8. b = [a EXCEPT !.entries = <<BuildEntry(Tar(Bytes(r), FALSE))>>]
      BY <3>3, <3>4, <3>5, <3>6, <3>7
    <3>9. Tar(Bytes(r), FALSE) \in Tars
      BY OwnTar DEF Good
    <3>10. <<BuildEntry(Tar(Bytes(r), FALSE))>> \in Entries
      BY <3>9 DEF Entries
    <3>11. b \in Artifacts /\ b.entries = <<BuildEntry(Tar(Bytes(r), FALSE))>>
      BY <1>1, <3>8, <3>10 DEF Artifacts
    <3> QED BY <3>11
  <2> QED BY <2>1, <2>2
<1>4. PICK arts : arts = (r.artifacts \ {a}) \cup {b}
  OBVIOUS
<1>5. arts \in SUBSET Artifacts /\ IsFiniteSet(arts)
  <2>1. IsFiniteSet(r.artifacts \ {a})
    BY FS_Subset DEF Good
  <2> QED BY <1>3, <1>4, <2>1, FS_AddElement DEF Good, RunType
<1>6. q = [r EXCEPT !.artifacts = arts]
  BY <1>2, <1>4
<1> HIDE DEF q
<1>7. /\ q \in RunType /\ q.artifacts = arts /\ Alike(r, q) /\ q.jobs = r.jobs
      /\ q.verdict = r.verdict /\ q.result = r.result /\ q.served = r.served
      /\ q.page = r.page /\ q.seen = r.seen /\ q.found = r.found
  BY <1>5, <1>6 DEF Good, RunType, Alike
<1>8. OwnBuilds(q)
  BY <1>3, <1>4, <1>7 DEF Good, RunOK, OwnBuilds, Alike, Bytes
<1>9. ScanIsOpen(q) /\ ServesItsOwn(q) /\ PassIsOfItsPages(q) /\ PassedOnAll(q)
  BY <1>7 DEF Good, RunOK, ScanIsOpen, ServesItsOwn, PassIsOfItsPages, PagesJudged, PassedOnAll, Passed, Waiting, Alike, Bytes
<1>10. PolicyOfWhatItSaw(q)
  BY <1>7 DEF Good, RunOK, PolicyOfWhatItSaw, Diverged, Alike
<1>11. SawReviews(q)
  BY <1>7 DEF Good, RunOK, SawReviews, Alike
<1> QED BY <1>5, <1>7, <1>8, <1>9, <1>10, <1>11 DEF Good, RunOK, q

\* Run again, the required job is always among the jobs.
LEMMA AgainDecides ==
  ASSUME NEW r, Affected(r) # {}
  PROVE  "required" \in Affected(r) /\ Affected(r) \subseteq Jobs
<1> DEFINE bad == {j \in Jobs : r.jobs[j] \in {"failure", "cancelled"}}
           near == bad \cup {j \in Jobs : Needs(j) \cap bad # {}}
<1>1. Affected(r) = near \cup {j \in Jobs : Needs(j) \cap near # {}}
  BY DEF Affected
<1>2. "required" \in Jobs /\ Needs("required") = Jobs \ {"required"}
  BY DEF Needs, Jobs
<1>3. PICK j \in Jobs : j \in bad
  <2>1. CASE bad = {}
    <3>1. near = {} \/ \E j \in Jobs : Needs(j) \cap bad # {}
      BY <2>1
    <3>2. near = {}
      BY <2>1, <3>1
    <3> HIDE DEF near
    <3>3. Affected(r) = {}
      BY <1>1, <3>2
    <3> QED BY <3>3
  <2> QED BY <2>1
<1>4. "required" \in near
  <2>1. CASE j = "required"
    BY <1>3, <2>1
  <2>2. CASE j # "required"
    BY <1>2, <1>3, <2>2
  <2> QED BY <2>1, <2>2
<1> HIDE DEF bad
<1>5. near \subseteq Jobs
  BY DEF bad
<1> QED BY <1>1, <1>4, <1>5

\* A job run again has nothing in hand; one that is not keeps what it had.
LEMMA AgainOK ==
  ASSUME NEW r, Good(r), NEW jobs \in {Jobs, Affected(r)}, jobs # {}, NEW now \in Nat
  PROVE  LET q == Rerun(r, jobs, now)
         IN  Good(q) /\ Alike(r, q) /\ q.found \in {0, r.found}
<1> DEFINE q == Rerun(r, jobs, now)
<1>1. "required" \in jobs /\ jobs \subseteq Jobs
  BY AgainDecides DEF Jobs
<1>2. /\ q.id = r.id /\ q.event = r.event /\ q.pr = r.pr /\ q.head = r.head /\ q.base = r.base
      /\ q.artifacts = r.artifacts
      /\ q.jobs = [j \in Jobs |-> IF j \in jobs THEN "waiting" ELSE r.jobs[j]]
      /\ q.verdict = (IF "scan" \in jobs THEN None ELSE r.verdict)
      /\ q.result = (IF "scan" \in jobs THEN None ELSE r.result)
      /\ q.served = (IF "scan" \in jobs THEN None ELSE r.served)
      /\ q.found = (IF "scan" \in jobs THEN 0 ELSE r.found)
      /\ q.page = (IF "policy" \in jobs THEN 0 ELSE r.page)
      /\ q.seen = (IF "policy" \in jobs THEN <<>> ELSE r.seen)
  BY DEF Rerun, Good, RunType
<1>3. q \in RunType
  <2>1. PICK att, par, jbs, dig, ver, rdg, fnd, arc, srv, res, pag, sen :
          /\ att = r.attempt + 1 /\ par = (jobs # Jobs)
          /\ jbs = [j \in Jobs |-> IF j \in jobs THEN "waiting" ELSE r.jobs[j]]
          /\ dig = (IF "build" \in jobs THEN None ELSE r.digest)
          /\ ver = (IF "scan" \in jobs THEN None ELSE r.verdict)
          /\ rdg = (IF "scan" \in jobs THEN None ELSE r.resultDigest)
          /\ fnd = (IF "scan" \in jobs THEN 0 ELSE r.found)
          /\ arc = (IF "scan" \in jobs THEN None ELSE r.archive)
          /\ srv = (IF "scan" \in jobs THEN None ELSE r.served)
          /\ res = (IF "scan" \in jobs THEN None ELSE r.result)
          /\ pag = (IF "policy" \in jobs THEN 0 ELSE r.page)
          /\ sen = (IF "policy" \in jobs THEN <<>> ELSE r.seen)
    OBVIOUS
  <2>2. q = [r EXCEPT !.attempt = att, !.started = now, !.partial = par, !.jobs = jbs, !.digest = dig,
                      !.verdict = ver, !.resultDigest = rdg, !.found = fnd, !.archive = arc,
                      !.served = srv, !.result = res, !.page = pag, !.seen = sen]
    BY <2>1 DEF Rerun, Good, RunType
  <2>3. /\ att \in Nat /\ par \in BOOLEAN /\ jbs \in [Jobs -> Statuses]
        /\ dig \in Tars \cup {None} /\ ver \in {"pass", "fail", None} /\ rdg \in Results \cup {None}
        /\ fnd \in Nat /\ arc \in Tars \cup {None, Refused} /\ srv \in Trees \cup {None, Refused}
        /\ res \in Results \cup {None} /\ pag \in Nat /\ sen \in Seq(ReviewType)
    BY <2>1 DEF Good, RunType, Statuses
  <2> HIDE DEF q
  <2>4. PICK one : one = [r EXCEPT !.attempt = att, !.started = now, !.partial = par, !.jobs = jbs, !.digest = dig,
                                   !.verdict = ver]
    OBVIOUS
  <2>5. one \in RunType
    BY <2>3, <2>4 DEF Good, RunType
  <2>6. PICK two : two = [one EXCEPT !.resultDigest = rdg, !.found = fnd, !.archive = arc, !.served = srv]
    OBVIOUS
  <2>7. two \in RunType
    BY <2>3, <2>5, <2>6 DEF RunType
  <2>8. [two EXCEPT !.result = res, !.page = pag, !.seen = sen] \in RunType
    BY <2>3, <2>7 DEF RunType
  <2>9. q = [two EXCEPT !.result = res, !.page = pag, !.seen = sen]
    BY <2>2, <2>4, <2>6
  <2> QED BY <2>8, <2>9
<1> HIDE DEF q
<1>4. "scan" \in Jobs /\ "policy" \in Jobs /\ "required" \in Jobs
  BY DEF Jobs
<1>5. OwnBuilds(q) /\ Alike(r, q)
  BY <1>2 DEF Good, RunOK, OwnBuilds, Alike, Bytes
<1>6. ScanIsOpen(q)
  BY <1>2, <1>4, OutputAssumption DEF Good, RunOK, ScanIsOpen, Waiting
<1>7. ServesItsOwn(q)
  BY <1>2, <1>4 DEF Good, RunOK, ServesItsOwn, Bytes
<1>8. PassIsOfItsPages(q)
  BY <1>2, <1>4, OutputAssumption DEF Good, RunOK, PassIsOfItsPages, PagesJudged, Bytes
<1>9. PolicyOfWhatItSaw(q)
  BY <1>2, <1>4 DEF Good, RunOK, PolicyOfWhatItSaw, Diverged
<1>10. SawReviews(q)
  <2>1. CASE "policy" \in jobs
    BY <1>2, <2>1 DEF SawReviews
  <2>2. CASE "policy" \notin jobs
    BY <1>2, <2>2 DEF Good, RunOK, SawReviews
  <2> QED BY <2>1, <2>2
<1>11. PassedOnAll(q)
  BY <1>1, <1>2, <1>4 DEF PassedOnAll, Passed
<1>12. IsFiniteSet(q.artifacts) /\ q.found \in {0, r.found}
  BY <1>2 DEF Good
<1> QED BY <1>3, <1>5, <1>6, <1>7, <1>8, <1>9, <1>10, <1>11, <1>12 DEF Good, RunOK, q

-----------------------------------------------------------------------------
(* The invariant behind a pass: what GitHub and the reviewers do.          *)

\* The lists main and the pull requests move along.
LEMMA Listings ==
  /\ Len(Tips) \in Nat \ {0} /\ \A n \in 1..Len(Tips) : Tips[n] \in Bases
  /\ \A p \in PullRequests : /\ Len(PushesTo[p]) \in Nat \ {0}
                             /\ \A n \in 1..Len(PushesTo[p]) : PushesTo[p][n] \in Heads
<1>1. Len(Tips) \in Nat \ {0} /\ \A n \in 1..Len(Tips) : Tips[n] \in Bases
  BY PullRequestAssumption DEF ToSet, Bases
<1>2. ASSUME NEW p \in PullRequests
      PROVE  /\ Len(PushesTo[p]) \in Nat \ {0}
             /\ \A n \in 1..Len(PushesTo[p]) : PushesTo[p][n] \in Heads
  <2>1. PushesTo[p] \in Seq(ToSet(PushesTo[p])) /\ PushesTo[p] # <<>>
    BY PullRequestAssumption
  <2>2. ToSet(PushesTo[p]) \subseteq Heads
    BY DEF Heads
  <2>3. Len(PushesTo[p]) \in Nat \ {0}
    BY <2>1
  <2>4. \A n \in 1..Len(PushesTo[p]) : PushesTo[p][n] \in ToSet(PushesTo[p])
    BY <2>1
  <2> QED BY <2>2, <2>3, <2>4
<1> QED BY <1>1, <1>2

\* What a delivery names is of the types.
LEMMA HeadsAreHeads ==
  ASSUME Typed, NEW p \in PullRequests
  PROVE  /\ HeadOf(p) \in Heads /\ prs[p].base \in Bases /\ Tips[main] \in Bases
         /\ prs[p].at \in Nat /\ prs[p] \in PrType
         /\ prs[p].at < Len(PushesTo[p]) => PushesTo[p][prs[p].at + 1] \in Heads
<1>1. prs[p] \in PrType /\ prs[p].at \in 1..Len(PushesTo[p]) /\ main \in 1..Len(Tips)
  BY DEF Typed
<1>2. prs[p].at < Len(PushesTo[p]) => prs[p].at + 1 \in 1..Len(PushesTo[p])
  BY <1>1, Listings
<1> QED BY <1>1, <1>2, Listings DEF HeadOf, PrType

\* The time of a new start is later than every start.
LEMMA NowIsLater ==
  ASSUME runs \in Seq(RunType)
  PROVE  Now \in Nat /\ \A i \in 1..Len(runs) : runs[i].started < Now
<1> DEFINE n == Len(runs)
           times == {0} \cup {runs[i].started : i \in DOMAIN runs}
<1>1. n \in Nat /\ DOMAIN runs = 1..n /\ \A i \in 1..n : runs[i].started \in Nat
  <2>1. n \in Nat /\ DOMAIN runs = 1..n /\ \A i \in 1..n : runs[i] \in RunType
    OBVIOUS
  <2> QED BY <2>1 DEF RunType
<1>2. \E t \in times : \A u \in times : t >= u
  <2>1. CASE n = 0
    BY <1>1, <2>1
  <2>2. CASE n # 0
    <3> DEFINE f == [i \in 1..n |-> runs[i].started]
    <3>1. f \in [1..n -> Nat] /\ 1..n # {}
      BY <1>1, <2>2
    <3>2. IsFiniteSet(1..n)
      <4>1. 1 \in Int /\ n \in Int
        BY <1>1
      <4> QED BY <4>1, FS_Interval
    <3> HIDE DEF f, n
    <3>3. PICK m \in 1..n : \A x \in 1..n : f[x] <= f[m]
      BY <3>1, <3>2, FiniteMax
    <3>4. \A x \in 1..n : runs[x].started <= runs[m].started
      BY <3>3 DEF f
    <3>5. runs[m].started \in times /\ \A u \in times : runs[m].started >= u
      BY <1>1, <3>4
    <3> QED BY <3>5
  <2> QED BY <2>1, <2>2
<1>3. PICK max : max = Max(times)
  OBVIOUS
<1>4. max \in times /\ \A u \in times : max >= u
  BY <1>2, <1>3 DEF Max
<1>5. max \in Nat /\ \A i \in 1..n : runs[i].started <= max
  BY <1>1, <1>4
<1>6. Now = 1 + max
  BY <1>3 DEF Now
<1> QED BY <1>1, <1>5, <1>6

\* What the reviewers do leaves every review its author, commit and first word.
ReviewsLast ==
  \A p \in PullRequests :
    /\ Len(reviews[p]) <= Len(reviews'[p])
    /\ \A k \in 1..Len(reviews[p]) :
         /\ reviews'[p][k].user = reviews[p][k].user
         /\ reviews'[p][k].commit = reviews[p][k].commit
         /\ reviews'[p][k].was = reviews[p][k].was

\* Reviews that grow or change keep what a run saw.
LEMMA SawStill ==
  ASSUME NEW q \in RunType, SawReviews(q), ReviewsLast,
         reviews \in [PullRequests -> Seq(ReviewType)], reviews' \in [PullRequests -> Seq(ReviewType)]
  PROVE  SawReviews(q)'
<1>1. q.pr \in PullRequests
  BY DEF RunType
<1>2. SUFFICES ASSUME NEW k \in 1..Len(q.seen)
               PROVE  /\ q.seen[k].state = "APPROVED" => q.seen[k].was = "APPROVED"
                      /\ \E i \in 1..Len(reviews'[q.pr]) :
                           /\ reviews'[q.pr][i].user = q.seen[k].user
                           /\ reviews'[q.pr][i].commit = q.seen[k].commit
                           /\ reviews'[q.pr][i].was = q.seen[k].was
  BY DEF SawReviews
<1>3. PICK i \in 1..Len(reviews[q.pr]) :
        /\ reviews[q.pr][i].user = q.seen[k].user
        /\ reviews[q.pr][i].commit = q.seen[k].commit
        /\ reviews[q.pr][i].was = q.seen[k].was
  BY DEF SawReviews
<1>4. i \in 1..Len(reviews'[q.pr])
  <2>1. Len(reviews[q.pr]) \in Nat /\ Len(reviews'[q.pr]) \in Nat /\ Len(reviews[q.pr]) <= Len(reviews'[q.pr])
    BY <1>1 DEF ReviewsLast
  <2> QED BY <2>1
<1> QED BY <1>1, <1>3, <1>4 DEF SawReviews, ReviewsLast

\* No run moves, no author changes and no review is lost.
LEMMA WorldMoved ==
  ASSUME PassInv, Typed', ReviewsKeep', UNCHANGED <<world, runs>>,
         \A p \in PullRequests : prs'[p].author = prs[p].author, ReviewsLast
  PROVE  PassInv'
<1>1. ASSUME NEW i \in 1..Len(runs) PROVE RunOK(runs[i])'
  <2>1. PICK q : q = runs[i]
    OBVIOUS
  <2>2. q \in RunType /\ RunOK(q) /\ q.pr \in PullRequests
    <3>1. \A j \in 1..Len(runs) : runs[j] \in RunType
      BY DEF PassInv, Typed, RunsTyped
    <3>2. \A j \in 1..Len(runs) : RunOK(runs[j])
      BY DEF PassInv
    <3>3. q \in RunType /\ RunOK(q)
      BY <2>1, <3>1, <3>2
    <3> QED BY <3>3 DEF RunType
  <2>3. SawReviews(q)'
    BY <2>2, SawStill DEF PassInv, Typed, RunOK
  <2>4. RunOK(q)'
    BY <2>2, <2>3, RunOKStands
  <2>5. q = runs'[i]
    BY <2>1
  <2> QED BY <2>4, <2>5
<1>2. ASSUME NEW i \in 1..Len(runs) PROVE FoundItsOwn(i)'
  BY DEF PassInv, FoundItsOwn
<1> QED BY <1>1, <1>2 DEF PassInv

\* A delivery to come is one of its pull request.
LEMMA Announced ==
  ASSUME EventsTyped, NEW name \in EventNames, NEW pr \in PullRequests, NEW head \in Heads, NEW base \in Bases,
         Announce(name, pr, head, base)
  PROVE  EventsTyped'
<1>1. PICK e \in EventType : e = [name |-> name, pr |-> pr, head |-> head, base |-> base] /\ e.pr = pr
  <2>1. PICK e : e = [name |-> name, pr |-> pr, head |-> head, base |-> base]
    OBVIOUS
  <2>2. e \in EventType /\ e.pr = pr
    BY <2>1 DEF EventType
  <2> QED BY <2>1, <2>2
<1>2. events' = [events EXCEPT ![pr] = Append(@, e)]
  BY <1>1 DEF Announce
<1>3. events' \in [PullRequests -> Seq(EventType)]
  BY <1>1, <1>2 DEF EventsTyped
<1>4. ASSUME NEW p \in PullRequests, NEW k \in 1..Len(events'[p]) PROVE events'[p][k].pr = p
  <2>1. CASE p = pr
    <3>1. events[p] \in Seq(EventType) /\ events'[p] = Append(events[p], e)
      BY <1>2, <2>1 DEF EventsTyped
    <3>2. k = Len(events[p]) + 1 \/ k \in 1..Len(events[p])
      BY <3>1
    <3> QED BY <1>1, <2>1, <3>1, <3>2 DEF EventsTyped
  <2>2. CASE p # pr
    BY <1>2, <2>2 DEF EventsTyped
  <2> QED BY <2>1, <2>2
<1> QED BY <1>3, <1>4 DEF EventsTyped

\* The reviews as they were.
LEMMA ReviewsSame ==
  ASSUME PassInv, UNCHANGED reviews
  PROVE  ReviewsKeep' /\ ReviewsLast
<1>1. reviews \in [PullRequests -> Seq(ReviewType)]
  BY DEF PassInv, Typed
<1>2. \A p \in PullRequests : Len(reviews[p]) \in Nat
  BY <1>1
<1> QED BY <1>2 DEF PassInv, ReviewsKeep, ReviewsLast

\* Edited, and each of the others below, keeps the invariant.
LEMMA EditedKeeps ==
  ASSUME PassInv, NEW pr \in PullRequests, Edited(pr)
  PROVE  PassInv'
<1>1. PICK base \in {prs[pr].base, Tips[main]} :
        /\ prs' = [prs EXCEPT ![pr].base = base]
        /\ Announce("pull_request", pr, HeadOf(pr), base)
  BY DEF Edited
<1>2. UNCHANGED <<world, main, reviews, runs>>
  BY DEF Edited
<1>3. HeadOf(pr) \in Heads /\ base \in Bases /\ prs[pr] \in PrType
  BY <1>1, HeadsAreHeads DEF PassInv
<1>4. EventsTyped'
  BY <1>1, <1>3, Announced DEF PassInv, Typed, EventNames
<1>5. /\ prs' \in [PullRequests -> PrType]
      /\ \A p \in PullRequests : prs'[p].author = prs[p].author /\ prs'[p].at = prs[p].at
  BY <1>1, <1>3 DEF PassInv, Typed, PrType
<1>6. Typed'
  BY <1>2, <1>4, <1>5 DEF PassInv, Typed, RunsTyped
<1> QED BY <1>2, <1>5, <1>6, ReviewsSame, WorldMoved

LEMMA PushKeeps ==
  ASSUME PassInv, NEW pr \in PullRequests, Push(pr)
  PROVE  PassInv'
<1>1. PICK base \in {prs[pr].base, Tips[main]} :
        /\ prs' = [prs EXCEPT ![pr].at = @ + 1, ![pr].base = base]
        /\ Announce("pull_request", pr, PushesTo[pr][prs[pr].at + 1], base)
  BY DEF Push
<1>2. UNCHANGED <<world, main, reviews, runs>> /\ prs[pr].at < Len(PushesTo[pr])
  BY DEF Push
<1>3. PushesTo[pr][prs[pr].at + 1] \in Heads /\ base \in Bases /\ prs[pr] \in PrType
  BY <1>1, <1>2, HeadsAreHeads DEF PassInv
<1>4. EventsTyped'
  BY <1>1, <1>3, Announced DEF PassInv, Typed, EventNames
<1>5. /\ prs' \in [PullRequests -> PrType]
      /\ \A p \in PullRequests : /\ prs'[p].author = prs[p].author
                                 /\ prs'[p].at = (IF p = pr THEN prs[p].at + 1 ELSE prs[p].at)
  <2>1. PICK n \in Nat : n = prs[pr].at + 1
    BY <1>3 DEF PrType
  <2>2. prs' = [prs EXCEPT ![pr] = [prs[pr] EXCEPT !.at = n, !.base = base]]
    BY <1>1, <2>1
  <2>3. PICK v : v = [prs[pr] EXCEPT !.at = n, !.base = base]
    OBVIOUS
  <2>4. v \in PrType /\ v.author = prs[pr].author /\ v.at = n
    BY <1>3, <2>1, <2>3 DEF PrType
  <2>5. prs \in [PullRequests -> PrType]
    BY DEF PassInv, Typed
  <2>6. prs' = [prs EXCEPT ![pr] = v]
    BY <2>2, <2>3
  <2> QED BY <2>1, <2>4, <2>5, <2>6
<1>6. \A p \in PullRequests : prs'[p].at \in 1..Len(PushesTo[p])
  <2>1. \A p \in PullRequests : prs[p].at \in 1..Len(PushesTo[p]) /\ Len(PushesTo[p]) \in Nat
    BY Listings DEF PassInv, Typed
  <2> QED BY <1>2, <1>5, <2>1
<1>7. Typed'
  BY <1>2, <1>4, <1>5, <1>6 DEF PassInv, Typed, RunsTyped
<1> QED BY <1>2, <1>5, <1>7, ReviewsSame, WorldMoved

LEMMA MainKeeps ==
  ASSUME PassInv, MainMoves
  PROVE  PassInv'
<1>1. main' = main + 1 /\ main < Len(Tips) /\ UNCHANGED <<world, prs, reviews, events, runs>>
  BY DEF MainMoves
<1>2. main' \in 1..Len(Tips)
  BY <1>1, Listings DEF PassInv, Typed
<1>3. Typed'
  BY <1>1, <1>2 DEF PassInv, Typed, RunsTyped, EventsTyped
<1> QED BY <1>1, <1>3, ReviewsSame, WorldMoved

\* A review that is written, and one that is dismissed.
LEMMA ReviewKeeps ==
  ASSUME PassInv, NEW pr \in PullRequests, NEW user \in Users,
         NEW state \in {"APPROVED", "CHANGES_REQUESTED", "COMMENTED"}, Review(pr, user, state)
  PROVE  PassInv' /\ ReviewsLast
<1>1. PICK at \in 1..prs[pr].at :
        reviews' = [reviews EXCEPT ![pr] =
                      Append(@, [user |-> user, state |-> state, was |-> state, commit |-> PushesTo[pr][at]])]
  BY DEF Review
<1>2. UNCHANGED <<world, prs, main, runs>> /\ Announce("pull_request_review", pr, HeadOf(pr), prs[pr].base)
  BY DEF Review
<1>3. PushesTo[pr][at] \in Heads
  <2>1. at \in 1..Len(PushesTo[pr])
    BY Listings DEF PassInv, Typed
  <2> QED BY <2>1, Listings
<1>4. PICK v \in ReviewType : v = [user |-> user, state |-> state, was |-> state, commit |-> PushesTo[pr][at]]
                              /\ v.state = v.was
  <2>1. PICK v : v = [user |-> user, state |-> state, was |-> state, commit |-> PushesTo[pr][at]]
    OBVIOUS
  <2>2. v \in ReviewType /\ v.state = v.was
    BY <1>3, <2>1 DEF ReviewType, States
  <2> QED BY <2>1, <2>2
<1>5. /\ reviews' = [reviews EXCEPT ![pr] = Append(@, v)]
      /\ reviews \in [PullRequests -> Seq(ReviewType)]
      /\ reviews' \in [PullRequests -> Seq(ReviewType)]
  BY <1>1, <1>4 DEF PassInv, Typed
<1>6. EventsTyped'
  BY <1>2, HeadsAreHeads, Announced DEF PassInv, Typed, EventNames
<1>7. Typed'
  BY <1>2, <1>5, <1>6 DEF PassInv, Typed, RunsTyped
<1>8. ASSUME NEW p \in PullRequests
      PROVE  /\ reviews[p] \in Seq(ReviewType)
             /\ reviews'[p] = reviews[p] \/ reviews'[p] = Append(reviews[p], v)
  BY <1>5
<1>9. ReviewsLast
  BY <1>8 DEF ReviewsLast
<1>10. ReviewsKeep'
  <2>1. ASSUME NEW p \in PullRequests, NEW k \in 1..Len(reviews'[p]), reviews'[p][k].state = "APPROVED"
        PROVE  reviews'[p][k].was = "APPROVED"
    <3>1. CASE reviews'[p] = reviews[p]
      BY <2>1, <3>1 DEF PassInv, ReviewsKeep
    <3>2. CASE reviews'[p] = Append(reviews[p], v)
      <4>1. k = Len(reviews[p]) + 1 \/ k \in 1..Len(reviews[p])
        BY <1>8, <3>2
      <4> QED BY <1>4, <1>8, <2>1, <3>2, <4>1 DEF PassInv, ReviewsKeep
    <3> QED BY <1>8, <3>1, <3>2
  <2> QED BY <2>1 DEF ReviewsKeep
<1> QED BY <1>2, <1>7, <1>9, <1>10, WorldMoved

LEMMA DismissKeeps ==
  ASSUME PassInv, NEW pr \in PullRequests, NEW i \in DOMAIN reviews[pr], Dismiss(pr, i)
  PROVE  PassInv' /\ ReviewsLast
<1>1. /\ reviews' = [reviews EXCEPT ![pr][i].state = "DISMISSED"]
      /\ UNCHANGED <<world, prs, main, runs>>
      /\ Announce("pull_request_review", pr, HeadOf(pr), prs[pr].base)
  BY DEF Dismiss
<1>2. reviews \in [PullRequests -> Seq(ReviewType)]
  BY DEF PassInv, Typed
<1>3. reviews[pr] \in Seq(ReviewType) /\ i \in 1..Len(reviews[pr]) /\ reviews[pr][i] \in ReviewType
  BY <1>2
<1>4. PICK v : v = [reviews[pr][i] EXCEPT !.state = "DISMISSED"]
  OBVIOUS
<1>5. /\ v \in ReviewType /\ v.state = "DISMISSED"
      /\ v.user = reviews[pr][i].user /\ v.commit = reviews[pr][i].commit /\ v.was = reviews[pr][i].was
  BY <1>3, <1>4 DEF ReviewType, States
<1>6. reviews' = [reviews EXCEPT ![pr] = [reviews[pr] EXCEPT ![i] = v]]
  BY <1>1, <1>4
<1>7. reviews' \in [PullRequests -> Seq(ReviewType)]
  BY <1>2, <1>3, <1>5, <1>6
<1>8. \A p \in PullRequests :
        /\ reviews[p] \in Seq(ReviewType) /\ Len(reviews'[p]) = Len(reviews[p])
        /\ \A k \in 1..Len(reviews[p]) :
             \/ reviews'[p][k] = reviews[p][k]
             \/ p = pr /\ k = i /\ reviews'[p][k] = v
  BY <1>2, <1>3, <1>6
<1>9. ReviewsLast
  BY <1>5, <1>8 DEF ReviewsLast
<1>10. ReviewsKeep'
  BY <1>5, <1>8 DEF PassInv, ReviewsKeep
<1>11. EventsTyped'
  BY <1>1, HeadsAreHeads, Announced DEF PassInv, Typed, EventNames
<1>12. Typed'
  BY <1>1, <1>7, <1>11 DEF PassInv, Typed, RunsTyped
<1> QED BY <1>1, <1>9, <1>10, <1>12, WorldMoved

\* A run GitHub starts knows nothing yet.
LEMMA NewRunOK ==
  ASSUME NEW id \in Nat, NEW e \in EventType, NEW now \in Nat
  PROVE  LET q == NewRun(id, e, now)
         IN  /\ Good(q) /\ q.id = id /\ q.found = 0 /\ q.started = now
             /\ q.pr = e.pr /\ q.head = e.head /\ ~q.partial /\ q.page = 0 /\ q.seen = <<>>
<1> DEFINE q == NewRun(id, e, now)
<1>1. PICK jbs : jbs = [j \in Jobs |-> "waiting"]
  OBVIOUS
<1>2. jbs \in [Jobs -> Statuses] /\ \A j \in Jobs : jbs[j] = "waiting"
  BY <1>1 DEF Statuses
<1>3. q = [id |-> id, event |-> e.name, pr |-> e.pr, head |-> e.head, base |-> e.base,
           attempt |-> 1, partial |-> FALSE, started |-> now,
           jobs |-> jbs, artifacts |-> {},
           digest |-> None, verdict |-> None, resultDigest |-> None,
           found |-> 0, archive |-> None, served |-> None, result |-> None, page |-> 0, seen |-> <<>>]
  BY <1>1 DEF NewRun
<1> HIDE DEF q
<1>4. /\ q.artifacts = {} /\ q.verdict = None /\ q.served = None /\ q.result = None /\ q.seen = <<>>
      /\ q.jobs = jbs /\ q.id = id /\ q.found = 0 /\ q.started = now
      /\ q.pr = e.pr /\ q.head = e.head /\ q.partial = FALSE /\ q.page = 0
  BY <1>3
<1>5. q \in RunType
  <2>1. e.name \in EventNames /\ e.pr \in PullRequests /\ e.head \in Heads /\ e.base \in Bases
    BY DEF EventType
  <2>2. <<>> \in Seq(ReviewType)
    OBVIOUS
  <2> QED BY <1>2, <1>3, <2>1, <2>2 DEF RunType
<1>6. OwnBuilds(q) /\ ScanIsOpen(q) /\ ServesItsOwn(q) /\ PassIsOfItsPages(q) /\ SawReviews(q)
  BY <1>4, OutputAssumption DEF OwnBuilds, ScanIsOpen, ServesItsOwn, PassIsOfItsPages, SawReviews
<1>7. PolicyOfWhatItSaw(q) /\ PassedOnAll(q)
  BY <1>2, <1>4 DEF PolicyOfWhatItSaw, PassedOnAll, Passed, Jobs
<1>8. IsFiniteSet(q.artifacts)
  BY <1>4, FS_EmptySet
<1> QED BY <1>4, <1>5, <1>6, <1>7, <1>8 DEF Good, RunOK, q

\* Starting a run, with what the new one is.
Starts(pr, q) ==
  /\ events[pr] # <<>> /\ Len(runs) < MaxRuns
  /\ runs' = Append(runs, q) /\ events' = [events EXCEPT ![pr] = Tail(@)]
  /\ q.pr = pr /\ q.head = events[pr][1].head /\ q.started = Now
  /\ ~q.partial /\ q.page = 0 /\ q.seen = <<>> /\ Good(q) /\ q.id = Len(runs) + 1 /\ q.found = 0

LEMMA StartRunStarts ==
  ASSUME PassInv, NEW pr \in PullRequests, StartRun(pr)
  PROVE  \E q : Starts(pr, q)
<1>1. /\ events[pr] # <<>> /\ events[pr] \in Seq(EventType)
      /\ \A k \in 1..Len(events[pr]) : events[pr][k].pr = pr
  BY DEF StartRun, PassInv, Typed, EventsTyped
<1>2. PICK e : e = events[pr][1]
  OBVIOUS
<1>3. e \in EventType /\ e.pr = pr
  BY <1>1, <1>2
<1>4. PICK q : q = NewRun(Len(runs) + 1, e, Now)
  OBVIOUS
<1>5. Now \in Nat /\ Len(runs) + 1 \in Nat
  BY NowIsLater DEF PassInv, Typed, RunsTyped
<1>6. PICK id, now : id = Len(runs) + 1 /\ now = Now /\ id \in Nat /\ now \in Nat
  BY <1>5
<1>7. q = NewRun(id, e, now)
  BY <1>4, <1>6
<1>8. /\ Good(q) /\ q.id = id /\ q.found = 0 /\ q.started = now
      /\ q.pr = e.pr /\ q.head = e.head /\ ~q.partial /\ q.page = 0 /\ q.seen = <<>>
  BY <1>3, <1>6, <1>7, NewRunOK
<1> QED BY <1>2, <1>3, <1>4, <1>6, <1>8 DEF Starts, StartRun

LEMMA StartRunKeeps ==
  ASSUME PassInv, NEW pr \in PullRequests, StartRun(pr)
  PROVE  PassInv'
<1>1. PICK q : Starts(pr, q)
  BY StartRunStarts
<1>2. UNCHANGED <<world, prs, main, reviews>>
  BY DEF StartRun
<1> DEFINE n == Len(runs)
<1>3. /\ runs \in Seq(RunType) /\ n \in Nat
      /\ q \in RunType /\ RunOK(q) /\ q.id = n + 1 /\ q.found = 0 /\ IsFiniteSet(q.artifacts)
      /\ runs' = Append(runs, q)
  BY <1>1 DEF Starts, Good, PassInv, Typed, RunsTyped
<1>4. /\ runs' \in Seq(RunType) /\ Len(runs') = n + 1 /\ runs'[n + 1] = q
      /\ \A i \in 1..n : runs'[i] = runs[i]
  BY <1>3
<1>5. \A i \in 1..Len(runs') : i \in 1..n \/ i = n + 1
  BY <1>3, <1>4
<1> HIDE DEF n
<1>6. RunsTyped'
  BY <1>3, <1>4, <1>5 DEF RunsTyped, PassInv, Typed, n
<1>7. EventsTyped'
  <2>1. events[pr] \in Seq(EventType) /\ events[pr] # <<>> /\ events' = [events EXCEPT ![pr] = Tail(events[pr])]
    BY <1>1 DEF Starts, PassInv, Typed, EventsTyped
  <2>2. /\ Tail(events[pr]) \in Seq(EventType)
        /\ \A k \in 1..Len(Tail(events[pr])) : k + 1 \in 1..Len(events[pr]) /\ Tail(events[pr])[k] = events[pr][k + 1]
    BY <2>1
  <2>3. events' \in [PullRequests -> Seq(EventType)]
    BY <2>1, <2>2 DEF PassInv, Typed, EventsTyped
  <2>4. ASSUME NEW p \in PullRequests, NEW k \in 1..Len(events'[p]) PROVE events'[p][k].pr = p
    <3>1. CASE p = pr
      BY <2>1, <2>2, <2>4, <3>1 DEF PassInv, Typed, EventsTyped
    <3>2. CASE p # pr
      BY <2>1, <2>4, <3>2 DEF PassInv, Typed, EventsTyped
    <3> QED BY <3>1, <3>2
  <2> QED BY <2>3, <2>4 DEF EventsTyped
<1>8. Typed' /\ ReviewsKeep'
  BY <1>2, <1>6, <1>7 DEF PassInv, Typed, ReviewsKeep
<1>9. ASSUME NEW i \in 1..Len(runs') PROVE RunOK(runs[i])'
  <2>1. PICK r : r = runs'[i]
    OBVIOUS
  <2>2. RunOK(r) /\ r \in RunType
    BY <1>3, <1>4, <1>5, <2>1 DEF PassInv, n
  <2>3. SawReviews(r)'
    BY <1>2, <2>2 DEF SawReviews, RunOK
  <2>4. RunOK(r)'
    BY <1>2, <2>2, <2>3, RunOKStands
  <2> QED BY <2>1, <2>4
<1>10. ASSUME NEW i \in 1..Len(runs') PROVE FoundItsOwn(i)'
  <2>1. CASE i = n + 1
    BY <1>3, <1>4, <2>1 DEF FoundItsOwn
  <2>2. CASE i \in 1..n
    <3>1. FoundItsOwn(i) /\ runs'[i] = runs[i]
      BY <1>4, <2>2 DEF PassInv, n
    <3>2. CASE runs[i].found # 0
      <4>1. runs[i].found \in 1..n /\ runs[i].found \in 1..Len(runs')
        BY <1>3, <1>4, <3>1, <3>2 DEF FoundItsOwn, n
      <4> QED BY <1>4, <3>1, <3>2, <4>1 DEF FoundItsOwn
    <3>3. CASE runs[i].found = 0
      BY <3>1, <3>3 DEF FoundItsOwn
    <3> QED BY <3>2, <3>3
  <2> QED BY <1>5, <2>1, <2>2
<1> QED BY <1>8, <1>9, <1>10 DEF PassInv

-----------------------------------------------------------------------------
(* The invariant behind a pass: what a run does.                           *)

Quietly == UNCHANGED <<world, prs, main, reviews, events>>

\* One run moves on, alike and good, with a build of its own found or none.
LEMMA Moved ==
  ASSUME PassInv, NEW i \in 1..Len(runs), NEW q, Good(q), Alike(runs[i], q), Moves(i, q), Quietly,
         \/ q.found \in {0, runs[i].found}
         \/ q.found \in 1..Len(runs) /\ Bytes(runs[q.found]) = Bytes(q)
  PROVE  PassInv'
<1>1. /\ runs \in Seq(RunType) /\ q \in RunType
      /\ runs' = [runs EXCEPT ![i] = q]
  BY DEF PassInv, Typed, RunsTyped, Good, Moves
<1>2. /\ runs' \in Seq(RunType) /\ Len(runs') = Len(runs) /\ runs'[i] = q
      /\ \A j \in 1..Len(runs) : j # i => runs'[j] = runs[j]
  BY <1>1
<1>3. RunsTyped'
  BY <1>2 DEF RunsTyped, PassInv, Typed, Good, Alike
<1>4. Typed' /\ ReviewsKeep'
  BY <1>3 DEF PassInv, Typed, EventsTyped, ReviewsKeep, Quietly
<1>5. ASSUME NEW j \in 1..Len(runs') PROVE RunOK(runs[j])'
  <2>1. PICK r : r = runs'[j]
    OBVIOUS
  <2>2. RunOK(r)
    BY <1>2, <2>1 DEF PassInv, Good
  <2>3. SawReviews(r)'
    BY <2>2 DEF SawReviews, RunOK, Quietly
  <2>4. RunOK(r)'
    BY <2>2, <2>3, RunOKStands DEF Quietly
  <2> QED BY <2>1, <2>4
<1>6. \A j \in 1..Len(runs) : Bytes(runs'[j]) = Bytes(runs[j])
  BY <1>2 DEF Bytes, Alike
<1>7. ASSUME NEW j \in 1..Len(runs') PROVE FoundItsOwn(j)'
  <2>1. CASE j # i
    <3>1. FoundItsOwn(j) /\ runs'[j] = runs[j] /\ j \in 1..Len(runs)
      BY <1>2, <2>1 DEF PassInv
    <3> QED BY <1>2, <1>6, <3>1 DEF FoundItsOwn
  <2>2. CASE j = i
    <3>1. FoundItsOwn(i) /\ runs'[i] = q /\ Bytes(q) = Bytes(runs[i])
      BY <1>2 DEF PassInv, Bytes, Alike
    <3> QED BY <1>2, <1>6, <2>2, <3>1 DEF FoundItsOwn
  <2> QED BY <2>1, <2>2
<1> QED BY <1>4, <1>5, <1>7 DEF PassInv

\* A step of the run i leaves it alike and good.
Carries(i, q) ==
  /\ Good(q) /\ Alike(runs[i], q) /\ Moves(i, q)
  /\ \/ q.found \in {0, runs[i].found}
     \/ q.found \in 1..Len(runs) /\ Bytes(runs[q.found]) = Bytes(q)

\* What the invariant says of one run.
LEMMA RunIsGood ==
  ASSUME PassInv, NEW i \in 1..Len(runs)
  PROVE  Good(runs[i]) /\ FoundItsOwn(i) /\ runs[i].id = i
<1>1. runs[i] \in RunType /\ IsFiniteSet(runs[i].artifacts) /\ runs[i].id = i
  BY DEF PassInv, Typed, RunsTyped
<1> QED BY <1>1 DEF PassInv, Good

\* A job that is skipped, fails or is lost, and an engine that is there.
LEMMA JobEnds ==
  ASSUME PassInv, NEW i \in 1..Len(runs), NEW job \in Jobs, Waiting(runs[i], job),
         NEW status \in Statuses \ {"waiting"},
         status = "success" => job \notin {"scan", "policy", "required"},
         Moves(i, Ends(runs[i], job, status))
  PROVE  \E q : Carries(i, q)
<1>1. PICK r : r = runs[i]
  OBVIOUS
<1>2. PICK q : q = Ends(r, job, status)
  OBVIOUS
<1>3. Good(r)
  BY <1>1, RunIsGood
<1>4. Good(q) /\ Alike(r, q)
  BY <1>1, <1>2, <1>3, EndsOK
<1>5. q.found = r.found
  BY <1>2, <1>3 DEF Ends, Good, RunType
<1> QED BY <1>1, <1>2, <1>4, <1>5 DEF Carries

\* Each step of a run carries a good run to a good one.
LEMMA EngineCarries ==
  ASSUME PassInv, NEW i \in 1..Len(runs), Engine(i)
  PROVE  \E q : Carries(i, q)
<1>1. "engine" \in Jobs /\ "success" \in Statuses \ {"waiting"} /\ "engine" \notin {"scan", "policy", "required"}
  BY DEF Jobs, Statuses
<1>2. Waiting(runs[i], "engine") /\ Moves(i, Ends(runs[i], "engine", "success"))
  BY DEF Engine, May, Ready
<1> QED BY <1>1, <1>2, JobEnds

LEMMA BuildCarries ==
  ASSUME PassInv, NEW i \in 1..Len(runs), Build(i) \/ BuildFails(i)
  PROVE  \E q : Carries(i, q)
<1>1. CASE Build(i)
  <2>1. PICK r : r = runs[i]
    OBVIOUS
  <2>2. Good(r) /\ Waiting(r, "build")
    BY <1>1, <2>1, RunIsGood DEF Build, May, Ready
  <2>3. PICK q : q = BuildApp(r, Built(r))
    OBVIOUS
  <2>4. Good(q) /\ Alike(r, q) /\ q.found = r.found
    BY <2>2, <2>3, BuildOK
  <2>5. Moves(i, q)
    BY <1>1, <2>1, <2>3 DEF Build
  <2> QED BY <2>1, <2>4, <2>5 DEF Carries
<1>2. CASE BuildFails(i)
  <2>1. "build" \in Jobs /\ "failure" \in Statuses \ {"waiting"} /\ "failure" # "success"
    BY DEF Jobs, Statuses
  <2>2. Waiting(runs[i], "build") /\ Moves(i, Ends(runs[i], "build", "failure"))
    BY <1>2 DEF BuildFails, May, Ready
  <2> QED BY <2>1, <2>2, JobEnds
<1> QED BY <1>1, <1>2

\* The build it finds is of a run with its own bytes.
LEMMA FindsItsOwn ==
  ASSUME PassInv, NEW i \in 1..Len(runs), NEW f, f = FindBuild(runs, runs[i]), f # 0
  PROVE  f \in 1..Len(runs) /\ Bytes(runs[f]) = Bytes(runs[i])
<1>1. CASE OnPush(runs[i])
  BY <1>1, RunIsGood DEF FindBuild
<1>2. CASE ~OnPush(runs[i])
  <2> DEFINE usable == {j \in DOMAIN runs :
                          Completed(runs[j]) /\ SameRun(runs[j], runs[i]) /\ runs[j].jobs["build"] = "success"}
  <2>1. usable # {} /\ f = CHOOSE j \in usable : \A k \in usable : k <= j
    BY <1>2 DEF FindBuild
  <2>2. usable \subseteq 1..Len(runs) /\ Len(runs) \in Nat
    BY DEF PassInv, Typed, RunsTyped
  <2> HIDE DEF usable
  <2>3. \E j \in usable : \A k \in usable : k <= j
    BY <2>1, <2>2, LastPosition
  <2>4. f \in usable
    BY <2>1, <2>3
  <2> QED BY <2>2, <2>4 DEF usable, SameRun, Bytes
<1> QED BY <1>1, <1>2

LEMMA FindsCarries ==
  ASSUME PassInv, NEW i \in 1..Len(runs), FindsBuild(i)
  PROVE  \E q : Carries(i, q)
<1>1. PICK r, f : r = runs[i] /\ f = FindBuild(runs, r)
  OBVIOUS
<1>2. Good(r) /\ Waiting(r, "scan")
  BY <1>1, RunIsGood DEF FindsBuild, Judging, May, Ready
<1>3. CASE f = 0
  <2>1. PICK q : q = Resolve(r)
    OBVIOUS
  <2>2. Good(q) /\ Alike(r, q) /\ q.found = r.found
    BY <1>2, <2>1, ResolvesOpen
  <2>3. Moves(i, q)
    BY <1>1, <1>3, <2>1 DEF FindsBuild
  <2> QED BY <1>1, <2>2, <2>3 DEF Carries
<1>4. CASE f # 0
  <2>1. f \in 1..Len(runs) /\ Bytes(runs[f]) = Bytes(r)
    BY <1>1, <1>4, FindsItsOwn
  <2>2. f \in Nat
    BY <2>1 DEF PassInv, Typed, RunsTyped
  <2>3. PICK q : q = [r EXCEPT !.found = f]
    OBVIOUS
  <2>4. Good(q) /\ Alike(r, q) /\ q.found = f
    BY <1>2, <2>2, <2>3, FindsOK
  <2>5. Moves(i, q)
    BY <1>1, <1>4, <2>3 DEF FindsBuild
  <2>6. Bytes(q) = Bytes(r)
    BY <2>4 DEF Alike, Bytes
  <2> QED BY <1>1, <2>1, <2>4, <2>5, <2>6 DEF Carries
<1> QED BY <1>3, <1>4

LEMMA TakesCarries ==
  ASSUME PassInv, NEW i \in 1..Len(runs), TakesBuild(i)
  PROVE  \E q : Carries(i, q)
<1>1. PICK r, t : r = runs[i] /\ t = TakeBuild(runs, r)
  OBVIOUS
<1>2. Good(r) /\ Waiting(r, "scan") /\ r.found # 0
  BY <1>1, RunIsGood DEF TakesBuild, Judging, May, Ready
<1>3. PICK rs : rs = runs
  OBVIOUS
<1>4. Good(rs[r.found]) /\ Bytes(rs[r.found]) = Bytes(r)
  BY <1>1, <1>2, <1>3, RunIsGood DEF FoundItsOwn
<1>5. t = TakeBuild(rs, r)
  BY <1>1, <1>3
<1>6. Good(t) /\ Alike(r, t) /\ t.found = r.found
  BY <1>2, <1>4, <1>5, TakesOK
<1>7. Waiting(t, "scan")
  BY <1>2, <1>5 DEF TakeBuild, Waiting, Good, RunType
<1>8. PICK q : q = Resolve(t)
  OBVIOUS
<1>9. Good(q) /\ Alike(t, q) /\ q.found = t.found
  BY <1>6, <1>7, <1>8, ResolvesOpen
<1>10. Moves(i, IF t.served = Refused THEN q ELSE t)
  BY <1>1, <1>8 DEF TakesBuild
<1>11. CASE t.served = Refused
  BY <1>1, <1>6, <1>9, <1>10, <1>11 DEF Carries, Alike
<1>12. CASE t.served # Refused
  BY <1>1, <1>6, <1>10, <1>12 DEF Carries
<1> QED BY <1>11, <1>12

LEMMA ScansCarries ==
  ASSUME ScreensAreServed, PassInv, NEW i \in 1..Len(runs),
         Scans(i) \/ \E died \in BOOLEAN : JudgeFails(i, died)
  PROVE  \E q : Carries(i, q)
<1>1. PICK r, exit : r = runs[i] /\ exit = CheckExit(r, commits[r.base], dirty)
  OBVIOUS
<1>2. Good(r) /\ Waiting(r, "scan") /\ r.served \notin {None, Refused}
  BY <1>1, RunIsGood DEF Scans, JudgeFails, Judging, May, Ready
<1>3. CASE Scans(i)
  <2>1. PICK q : q = Resolve(Judged(r, exit, FALSE))
    OBVIOUS
  <2>2. Good(q) /\ Alike(r, q) /\ q.found = r.found
    BY <1>1, <1>2, <2>1, ScansOK
  <2>3. Moves(i, q)
    BY <1>1, <1>3, <2>1 DEF Scans
  <2> QED BY <1>1, <2>2, <2>3 DEF Carries
<1>4. ASSUME NEW died \in BOOLEAN, JudgeFails(i, died) PROVE \E q : Carries(i, q)
  <2>1. CASE died
    <3>1. PICK q : q = Resolve(r)
      OBVIOUS
    <3>2. Good(q) /\ Alike(r, q) /\ q.found = r.found
      BY <1>2, <3>1, ResolvesOpen
    <3>3. Moves(i, q)
      BY <1>1, <1>4, <2>1, <3>1 DEF JudgeFails
    <3> QED BY <1>1, <3>2, <3>3 DEF Carries
  <2>2. CASE ~died
    <3>1. PICK q : q = Resolve(Judged(r, 0, TRUE))
      OBVIOUS
    <3>2. Good(q) /\ Alike(r, q) /\ q.found = r.found
      BY <1>2, <3>1, ScansOK
    <3>3. Moves(i, q)
      BY <1>1, <1>4, <2>2, <3>1 DEF JudgeFails
    <3> QED BY <1>1, <3>2, <3>3 DEF Carries
  <2> QED BY <2>1, <2>2
<1> QED BY <1>3, <1>4

LEMMA CommentCarries ==
  ASSUME PassInv, NEW i \in 1..Len(runs), Comment(i)
  PROVE  \E q : Carries(i, q)
<1>1. PICK status \in {"success", "failure"} : Moves(i, Ends(runs[i], "comment", status))
  BY DEF Comment, Commented
<1>2. Waiting(runs[i], "comment")
  BY DEF Comment, May, Ready
<1>3. "comment" \in Jobs /\ status \in Statuses \ {"waiting"} /\ "comment" \notin {"scan", "policy", "required"}
  BY DEF Jobs, Statuses
<1> QED BY <1>1, <1>2, <1>3, JobEnds

LEMMA PolicyCarries ==
  ASSUME PassInv, NEW i \in 1..Len(runs), Policy(i) \/ ReadsPage(i)
  PROVE  \E q : Carries(i, q)
<1>1. PICK r : r = runs[i]
  OBVIOUS
<1>2. Good(r) /\ Waiting(r, "policy") /\ r.pr \in PullRequests
  <2>1. Good(r) /\ Waiting(r, "policy")
    BY <1>1, RunIsGood DEF Policy, ReadsPage, May, Ready
  <2> QED BY <2>1 DEF Good, RunType
<1>3. CASE Policy(i)
  <2>1. PICK q : q = PolicyStarts(r, commits[r.base], commits[r.head], prs[r.pr].author)
    OBVIOUS
  <2>2. r.page = 0 /\ Moves(i, q)
    BY <1>1, <1>3, <2>1 DEF Policy
  <2>3. Good(q) /\ Alike(r, q) /\ q.found = r.found
    BY <1>2, <2>1, <2>2, PolicyStartsOK
  <2> QED BY <1>1, <2>2, <2>3 DEF Carries
<1>4. CASE ReadsPage(i)
  <2>1. PICK q : q = PolicyReads(r, commits[r.base], commits[r.head], prs[r.pr].author, reviews[r.pr])
    OBVIOUS
  <2>2. r.page > 0 /\ Moves(i, q)
    BY <1>1, <1>4, <2>1 DEF ReadsPage
  <2>3. /\ reviews[r.pr] \in Seq(ReviewType)
        /\ \A k \in 1..Len(reviews[r.pr]) : reviews[r.pr][k].state = "APPROVED" => reviews[r.pr][k].was = "APPROVED"
    BY <1>2 DEF PassInv, Typed, ReviewsKeep
  <2>4. Good(q) /\ Alike(r, q) /\ q.found = r.found
    BY <1>2, <2>1, <2>2, <2>3, PolicyReadsOK
  <2> QED BY <1>1, <2>2, <2>4 DEF Carries
<1> QED BY <1>3, <1>4

LEMMA DecideCarries ==
  ASSUME PassInv, NEW i \in 1..Len(runs), Decide(i)
  PROVE  \E q : Carries(i, q)
<1>1. PICK r, q : r = runs[i] /\ q = Required(r)
  OBVIOUS
<1>2. Good(r) /\ Ready(r, "required") /\ Moves(i, q)
  BY <1>1, RunIsGood DEF Decide, May
<1>3. Good(q) /\ Alike(r, q) /\ q.found = r.found
  BY <1>1, <1>2, DecideOK
<1> QED BY <1>1, <1>2, <1>3 DEF Carries

LEMMA MishapCarries ==
  ASSUME PassInv, NEW i \in 1..Len(runs),
         \/ \E job \in Jobs : Skip(i, job) \/ LoseJob(i, job)
         \/ \E how \in {"expired", "cut"} : Spoil(i, how)
  PROVE  \E q : Carries(i, q)
<1>1. ASSUME NEW job \in Jobs, Skip(i, job) \/ LoseJob(i, job) PROVE \E q : Carries(i, q)
  <2>1. PICK status \in {"skipped", "cancelled"} : Moves(i, Ends(runs[i], job, status))
    BY <1>1 DEF Skip, LoseJob
  <2>2. Waiting(runs[i], job)
    BY <1>1 DEF Skip, LoseJob, May, Ready
  <2>3. status \in Statuses \ {"waiting"} /\ status # "success"
    BY DEF Statuses
  <2> QED BY <2>1, <2>2, <2>3, JobEnds
<1>2. ASSUME NEW how \in {"expired", "cut"}, Spoil(i, how) PROVE \E q : Carries(i, q)
  <2>1. PICK r : r = runs[i]
    OBVIOUS
  <2>2. PICK a \in r.artifacts :
          /\ how = "cut" => a.name = "build"
          /\ Moves(i, [r EXCEPT !.artifacts = (@ \ {a}) \cup {Spoilt(a, how)}])
    BY <1>2, <2>1 DEF Spoil
  <2>3. PICK q : q = [r EXCEPT !.artifacts = (r.artifacts \ {a}) \cup {Spoilt(a, how)}]
    OBVIOUS
  <2>4. Good(r)
    BY <2>1, RunIsGood
  <2>5. Good(q) /\ Alike(r, q) /\ q.found = r.found
    BY <2>2, <2>3, <2>4, SpoilOK
  <2>6. Moves(i, q)
    BY <2>2, <2>3, <2>4 DEF Good, RunType
  <2> QED BY <2>1, <2>5, <2>6 DEF Carries
<1> QED BY <1>1, <1>2

LEMMA AgainCarries ==
  ASSUME PassInv, NEW i \in 1..Len(runs), Again(i, Jobs) \/ Again(i, Affected(runs[i]))
  PROVE  \E q : Carries(i, q)
<1>1. PICK r, now : r = runs[i] /\ now = Now
  OBVIOUS
<1>2. PICK jobs \in {Jobs, Affected(r)} : jobs # {} /\ Moves(i, Rerun(r, jobs, now))
  BY <1>1 DEF Again
<1>3. Good(r) /\ now \in Nat
  BY <1>1, RunIsGood, NowIsLater DEF PassInv, Typed, RunsTyped
<1>4. PICK q : q = Rerun(r, jobs, now)
  OBVIOUS
<1>5. Good(q) /\ Alike(r, q) /\ q.found \in {0, r.found}
  BY <1>2, <1>3, <1>4, AgainOK
<1> QED BY <1>1, <1>2, <1>4, <1>5 DEF Carries

LEMMA RunMovesKeeps ==
  ASSUME ScreensAreServed, PassInv, NEW i \in DOMAIN runs, RunMoves(i)
  PROVE  PassInv'
<1>1. i \in 1..Len(runs)
  BY DEF PassInv, Typed, RunsTyped
<1>2. Quietly
  BY DEF RunMoves, Quiet, Quietly, Skip, Engine, Build, BuildFails, FindsBuild, TakesBuild, Scans, JudgeFails,
         Comment, Policy, ReadsPage, Decide, LoseJob, Spoil, Again
<1>3. \E q : Carries(i, q)
  <2>1. CASE (\E job \in Jobs : Skip(i, job) \/ LoseJob(i, job)) \/ \E how \in {"expired", "cut"} : Spoil(i, how)
    BY <1>1, <2>1, MishapCarries
  <2>2. CASE Engine(i)
    BY <1>1, <2>2, EngineCarries
  <2>3. CASE Build(i) \/ BuildFails(i)
    BY <1>1, <2>3, BuildCarries
  <2>4. CASE FindsBuild(i)
    BY <1>1, <2>4, FindsCarries
  <2>5. CASE TakesBuild(i)
    BY <1>1, <2>5, TakesCarries
  <2>6. CASE Scans(i) \/ \E died \in BOOLEAN : JudgeFails(i, died)
    BY <1>1, <2>6, ScansCarries
  <2>7. CASE Comment(i)
    BY <1>1, <2>7, CommentCarries
  <2>8. CASE Policy(i) \/ ReadsPage(i)
    BY <1>1, <2>8, PolicyCarries
  <2>9. CASE Decide(i)
    BY <1>1, <2>9, DecideCarries
  <2>10. CASE Again(i, Jobs) \/ Again(i, Affected(runs[i]))
    BY <1>1, <2>10, AgainCarries
  <2> QED BY <2>1, <2>2, <2>3, <2>4, <2>5, <2>6, <2>7, <2>8, <2>9, <2>10 DEF RunMoves
<1>4. PICK q : Carries(i, q)
  BY <1>3
<1> QED BY <1>1, <1>2, <1>4, Moved DEF Carries

-----------------------------------------------------------------------------
(* A pass is about its pull request.                                       *)

\* The invariant holds at the start.
LEMMA PassInit ==
  ASSUME Init
  PROVE  PassInv
<1>1. PICK start \in Start :
        /\ prs = [p \in PullRequests |-> [author |-> start.author, at |-> 1, base |-> Tips[1]]]
        /\ main = 1
        /\ reviews = [p \in PullRequests |-> <<>>]
        /\ events = [p \in PullRequests |->
                       IF p \in start.open
                       THEN <<[name |-> "pull_request", pr |-> p, head |-> PushesTo[p][1], base |-> Tips[1]]>>
                       ELSE <<>>]
        /\ runs = <<>>
  BY DEF Init
<1>2. Tips[1] \in Bases /\ 1 \in 1..Len(Tips)
  BY Listings
<1>3. \A p \in PullRequests : 1 \in 1..Len(PushesTo[p]) /\ PushesTo[p][1] \in Heads
  BY Listings
<1>4. prs \in [PullRequests -> PrType] /\ \A p \in PullRequests : prs[p].at = 1
  BY <1>1, <1>2 DEF PrType, Authors
<1>5. reviews \in [PullRequests -> Seq(ReviewType)] /\ \A p \in PullRequests : Len(reviews[p]) = 0
  BY <1>1
<1>6. EventsTyped
  <2>1. ASSUME NEW p \in PullRequests
        PROVE  events[p] = <<>> \/ \E e \in EventType : e.pr = p /\ events[p] = <<e>>
    <3>1. PICK e : e = [name |-> "pull_request", pr |-> p, head |-> PushesTo[p][1], base |-> Tips[1]]
      OBVIOUS
    <3>2. e \in EventType /\ e.pr = p
      BY <1>2, <1>3, <3>1 DEF EventType, EventNames
    <3>3. events[p] = <<>> \/ events[p] = <<e>>
      BY <1>1, <3>1
    <3> QED BY <3>2, <3>3
  <2>2. \A p \in PullRequests : events[p] \in Seq(EventType)
    <3>1. \A e \in EventType : <<e>> \in Seq(EventType)
      OBVIOUS
    <3>2. <<>> \in Seq(EventType)
      OBVIOUS
    <3> QED BY <2>1, <3>1, <3>2
  <2>3. DOMAIN events = PullRequests /\ events = [p \in PullRequests |-> events[p]]
    BY <1>1
  <2>4. events \in [PullRequests -> Seq(EventType)]
    BY <2>2, <2>3
  <2>5. \A p \in PullRequests : \A k \in 1..Len(events[p]) : events[p][k].pr = p
    BY <2>1
  <2> QED BY <2>4, <2>5 DEF EventsTyped
<1>7. RunsTyped /\ Len(runs) = 0
  BY <1>1 DEF RunsTyped
<1>8. Typed
  BY <1>1, <1>2, <1>3, <1>4, <1>5, <1>6, <1>7 DEF Typed
<1> QED BY <1>5, <1>7, <1>8 DEF PassInv, ReviewsKeep

\* Every step keeps it.
LEMMA PassNext ==
  ASSUME ScreensAreServed, PassInv, [Next]_vars
  PROVE  PassInv'
<1>1. ASSUME NEW pr \in PullRequests, Edited(pr) PROVE PassInv'
  BY <1>1, EditedKeeps
<1>2. ASSUME NEW pr \in PullRequests, Push(pr) PROVE PassInv'
  BY <1>2, PushKeeps
<1>3. ASSUME NEW pr \in PullRequests, StartRun(pr) PROVE PassInv'
  BY <1>3, StartRunKeeps
<1>4. ASSUME NEW pr \in PullRequests, NEW user \in Users,
             NEW state \in {"APPROVED", "CHANGES_REQUESTED", "COMMENTED"}, Review(pr, user, state)
      PROVE  PassInv'
  BY <1>4, ReviewKeeps
<1>5. ASSUME NEW pr \in PullRequests, NEW i \in DOMAIN reviews[pr], Dismiss(pr, i) PROVE PassInv'
  BY <1>5, DismissKeeps
<1>6. CASE MainMoves
  BY <1>6, MainKeeps
<1>7. ASSUME NEW i \in DOMAIN runs, RunMoves(i) PROVE PassInv'
  BY <1>7, RunMovesKeeps
<1>8. CASE UNCHANGED vars
  <2>1. UNCHANGED <<commits, dirty, prs, main, reviews, events, runs>>
    BY <1>8 DEF vars
  <2>2. Typed' /\ ReviewsKeep'
    BY <2>1 DEF PassInv, Typed, EventsTyped, RunsTyped, ReviewsKeep
  <2> QED BY <2>1, <2>2, ReviewsSame, WorldMoved DEF world
<1> QED BY <1>1, <1>2, <1>3, <1>4, <1>5, <1>6, <1>7, <1>8 DEF Next

\* The invariant behind a pass, of every behaviour, whatever is lost, cut,
\* expired or run again (install/ci.ts, install/build-run.ts, policy-enforce.ts).
THEOREM PassInvariance == ScreensAreServed /\ Spec => []PassInv
<1>1. SUFFICES ASSUME ScreensAreServed PROVE Spec => []PassInv
  OBVIOUS
<1>2. Init => PassInv
  BY PassInit
<1>3. PassInv /\ [Next]_vars => PassInv'
  BY <1>1, PassNext
<1> QED BY <1>2, <1>3, PTL DEF Spec

\* An owner whose last decisive review approves.
LEMMA LatestIsHis ==
  ASSUME NEW listing \in Seq(ReviewType), NEW user, LatestDecisive(listing, user) # 0
  PROVE  LET last == LatestDecisive(listing, user)
         IN  /\ last \in 1..Len(listing) /\ last \in DecisiveOf(listing, user)
             /\ listing[last].user = user
             /\ \A j \in DecisiveOf(listing, user) : j <= last
<1> DEFINE own == DecisiveOf(listing, user)
<1>1. own \subseteq 1..Len(listing) /\ Len(listing) \in Nat
  BY DEF DecisiveOf, ParsedReviews
<1>2. own # {} /\ LatestDecisive(listing, user) = CHOOSE i \in own : \A j \in own : j <= i
  BY DEF LatestDecisive
<1>3. \A i \in own : listing[i].user = user
  BY DEF DecisiveOf
<1> HIDE DEF own
<1>4. \E i \in own : \A j \in own : j <= i
  BY <1>1, <1>2, LastPosition
<1>5. LatestDecisive(listing, user) \in own /\ \A j \in own : j <= LatestDecisive(listing, user)
  BY <1>2, <1>4
<1> QED BY <1>1, <1>3, <1>5 DEF own

\* What it takes for the policy to say yes to a change of guarded files.
LEMMA PolicySaysYes ==
  ASSUME NEW trusted, NEW head, NEW pr, NEW listing \in Seq(ReviewType),
         EnforcePolicy(trusted, head, pr, listing) = 0, NEW path \in ListDiverged(trusted, head)
  PROVE  \E k \in 1..Len(listing) :
           /\ listing[k].user \in OwnersFor(Show(trusted, CodeownersPath), path) \ {pr.author}
           /\ k \in DecisiveOf(listing, listing[k].user)
           /\ listing[k].state = "APPROVED" /\ listing[k].commit = pr.head
           /\ \A j \in DecisiveOf(listing, listing[k].user) : j <= k
<1>1. OwnerApprovedHead(OwnersFor(Show(trusted, CodeownersPath), path), listing, pr.author, pr.head)
  BY DEF EnforcePolicy
<1>2. PICK o \in OwnersFor(Show(trusted, CodeownersPath), path) \ {pr.author} :
        LET last == LatestDecisive(listing, o)
        IN  last # 0 /\ listing[last].state = "APPROVED" /\ listing[last].commit = pr.head
  BY <1>1 DEF OwnerApprovedHead
<1>3. PICK k : k = LatestDecisive(listing, o)
  OBVIOUS
<1>4. k \in 1..Len(listing) /\ k \in DecisiveOf(listing, o) /\ listing[k].user = o /\ \A j \in DecisiveOf(listing, o) : j <= k
  BY <1>2, <1>3, LatestIsHis
<1> QED BY <1>2, <1>3, <1>4

\* A pass is about this pull request: pages built for its own number, head and
\* base with no barrier in them, and an approval at that very head for each
\* guarded file (install/ci.ts, install/build-run.ts, policy-enforce.ts).
THEOREM PassIsOfItsPullRequest == ScreensAreServed /\ Spec => []PassIsOfThisPullRequest
<1>1. SUFFICES ASSUME PassInv PROVE PassIsOfThisPullRequest
  <2>1. PassInv => PassIsOfThisPullRequest
    OBVIOUS
  <2> QED BY <2>1, PassInvariance, PTL
<1>2. SUFFICES ASSUME NEW i \in DOMAIN runs, Passed(runs[i])
               PROVE  /\ PagesJudged(runs[i], commits[runs[i].base]) = {Bytes(runs[i])}
                      /\ Bytes(runs[i]) \notin dirty
                      /\ \A path \in Diverged(runs[i]) :
                           \E k \in OwnerReviews(runs[i], path) : reviews[runs[i].pr][k].was = "APPROVED"
  BY DEF PassIsOfThisPullRequest
<1>3. i \in 1..Len(runs)
  BY DEF PassInv, Typed, RunsTyped
<1>4. PICK r : r = runs[i]
  OBVIOUS
<1>5. Good(r) /\ r.pr \in PullRequests /\ r.seen \in Seq(ReviewType)
  <2>1. Good(runs[i])
    BY <1>1, <1>3, RunIsGood
  <2>2. Good(r)
    BY <1>4, <2>1
  <2> QED BY <2>2 DEF Good, RunType
<1>6. r.verdict = "pass" /\ r.jobs["policy"] = "success"
  BY <1>2, <1>4, <1>5 DEF Good, RunOK, PassedOnAll
<1>7. PagesJudged(r, commits[r.base]) = {Bytes(r)} /\ Bytes(r) \notin dirty
  BY <1>5, <1>6 DEF Good, RunOK, PassIsOfItsPages
<1>8. ASSUME NEW path \in Diverged(r)
      PROVE  \E k \in OwnerReviews(r, path) : reviews[r.pr][k].was = "APPROVED"
  <2>1. EnforcePolicy(commits[r.base], commits[r.head], [author |-> prs[r.pr].author, head |-> r.head], r.seen) = 0
    BY <1>5, <1>6, <1>8 DEF Good, RunOK, PolicyOfWhatItSaw
  <2>2. PICK k \in 1..Len(r.seen) :
          /\ r.seen[k].user \in OwnersFor(Show(commits[r.base], CodeownersPath), path) \ {prs[r.pr].author}
          /\ r.seen[k].state = "APPROVED" /\ r.seen[k].commit = r.head
    BY <1>5, <1>8, <2>1, PolicySaysYes DEF Diverged
  <2>3. PICK n \in 1..Len(reviews[r.pr]) :
          /\ reviews[r.pr][n].user = r.seen[k].user
          /\ reviews[r.pr][n].commit = r.seen[k].commit
          /\ reviews[r.pr][n].was = r.seen[k].was
    BY <1>5 DEF Good, RunOK, SawReviews
  <2>4. r.seen[k].was = "APPROVED"
    BY <1>5, <2>2 DEF Good, RunOK, SawReviews
  <2>5. n \in DOMAIN reviews[r.pr]
    BY <1>5, <2>3 DEF PassInv, Typed
  <2> QED BY <2>2, <2>3, <2>4, <2>5 DEF OwnerReviews
<1> QED BY <1>4, <1>7, <1>8

-----------------------------------------------------------------------------
(* What a run saw follows the reviews: what GitHub and the reviewers do.   *)

\* What is announced is to come, and what was to come still is.
LEMMA AnnouncedComes ==
  ASSUME Typed, NEW name \in EventNames, NEW pr \in PullRequests, NEW head \in Heads, NEW base \in Bases,
         Announce(name, pr, head, base)
  PROVE  /\ \E k \in 1..Len(events'[pr]) : events'[pr][k].head = head
         /\ \A p \in PullRequests : \A k \in 1..Len(events[p]) :
              k \in 1..Len(events'[p]) /\ events'[p][k] = events[p][k]
<1>1. PICK e : e = [name |-> name, pr |-> pr, head |-> head, base |-> base]
  OBVIOUS
<1>2. e \in EventType /\ e.head = head
  BY <1>1 DEF EventType
<1>3. events \in [PullRequests -> Seq(EventType)] /\ events' = [events EXCEPT ![pr] = Append(@, e)]
  BY <1>1 DEF Announce, Typed, EventsTyped
<1>4. events'[pr] = Append(events[pr], e) /\ events[pr] \in Seq(EventType)
  BY <1>3
<1>5. Len(events[pr]) + 1 \in 1..Len(events'[pr]) /\ events'[pr][Len(events[pr]) + 1] = e
  BY <1>2, <1>4
<1>6. \A k \in 1..Len(events[pr]) : k \in 1..Len(events'[pr]) /\ events'[pr][k] = events[pr][k]
  BY <1>2, <1>4
<1>7. \A p \in PullRequests : p # pr => events'[p] = events[p]
  BY <1>3
<1> QED BY <1>2, <1>5, <1>6, <1>7

\* Where no head moves, a run superseded stays so, and the others see the same reviews.
LEMMA FollowStands ==
  ASSUME PassInv, FollowInv, UNCHANGED runs,
         \A p \in PullRequests : \A k \in 1..Len(events[p]) :
           k \in 1..Len(events'[p]) /\ events'[p][k] = events[p][k],
         \A p \in PullRequests :
           \/ HeadOf(p)' = HeadOf(p) /\ reviews'[p] = reviews[p]
           \/ \E k \in 1..Len(events'[p]) : events'[p][k].head = HeadOf(p)'
  PROVE  FollowInv'
<1>1. SUFFICES ASSUME NEW i \in 1..Len(runs) PROVE Follows(runs[i])'
  BY DEF FollowInv
<1>2. PICK r : r = runs[i]
  OBVIOUS
<1>3. r = runs'[i]
  BY <1>2
<1>4. Follows(r) /\ r \in RunType
  BY <1>2 DEF FollowInv, PassInv, Typed, RunsTyped
<1>5. r.pr \in PullRequests
  BY <1>4 DEF RunType
<1>6. ReadsPages(r)'
  BY <1>4 DEF Follows
<1>7. CASE HeadOf(r.pr)' = HeadOf(r.pr) /\ reviews'[r.pr] = reviews[r.pr]
  <2>1. Superseded(r) => Superseded(r)'
    BY <1>5, <1>7 DEF Superseded
  <2>2. SawTheReviews(r) => SawTheReviews(r)'
    BY <1>7 DEF SawTheReviews
  <2> QED BY <1>3, <1>4, <1>6, <1>7, <2>1, <2>2 DEF Follows
<1>8. CASE \E k \in 1..Len(events'[r.pr]) : events'[r.pr][k].head = HeadOf(r.pr)'
  <2>1. Superseded(r)'
    BY <1>8 DEF Superseded
  <2> QED BY <1>3, <1>6, <2>1 DEF Follows
<1> QED BY <1>5, <1>7, <1>8

\* What GitHub, the authors and the reviewers do.
LEMMA WorldFollows ==
  ASSUME PassInv, FollowInv, NEW pr \in PullRequests,
         \/ Edited(pr) \/ Push(pr) \/ MainMoves
         \/ \E user \in Users, state \in {"APPROVED", "CHANGES_REQUESTED", "COMMENTED"} : Review(pr, user, state)
         \/ \E i \in DOMAIN reviews[pr] : Dismiss(pr, i)
  PROVE  FollowInv'
<1>1. /\ HeadOf(pr) \in Heads /\ prs[pr].base \in Bases /\ Tips[main] \in Bases
      /\ prs[pr].at \in Nat /\ prs[pr] \in PrType
      /\ prs[pr].at < Len(PushesTo[pr]) => PushesTo[pr][prs[pr].at + 1] \in Heads
  BY HeadsAreHeads DEF PassInv
<1>2. prs \in [PullRequests -> PrType] /\ Typed /\ reviews \in [PullRequests -> Seq(ReviewType)]
  BY DEF PassInv, Typed
<1>3. CASE Edited(pr)
  <2>1. PICK base \in {prs[pr].base, Tips[main]} :
          /\ prs' = [prs EXCEPT ![pr].base = base]
          /\ Announce("pull_request", pr, HeadOf(pr), base)
    BY <1>3 DEF Edited
  <2>2. \A p \in PullRequests : prs'[p].at = prs[p].at
    BY <1>1, <1>2, <2>1 DEF PrType
  <2>3. \A p \in PullRequests : HeadOf(p)' = HeadOf(p)
    BY <2>2 DEF HeadOf
  <2>4. \A p \in PullRequests : \A k \in 1..Len(events[p]) :
          k \in 1..Len(events'[p]) /\ events'[p][k] = events[p][k]
    BY <1>1, <1>2, <2>1, AnnouncedComes DEF EventNames
  <2> QED BY <1>3, <2>3, <2>4, FollowStands DEF Edited
<1>4. CASE Push(pr)
  <2>1. PICK base \in {prs[pr].base, Tips[main]} :
          /\ prs' = [prs EXCEPT ![pr].at = @ + 1, ![pr].base = base]
          /\ Announce("pull_request", pr, PushesTo[pr][prs[pr].at + 1], base)
          /\ prs[pr].at < Len(PushesTo[pr])
    BY <1>4 DEF Push
  <2>2. \A p \in PullRequests : p # pr => prs'[p] = prs[p]
    BY <1>2, <2>1
  <2>3. prs'[pr].at = prs[pr].at + 1
    BY <1>1, <1>2, <2>1 DEF PrType
  <2>4. /\ \A p \in PullRequests : p # pr => HeadOf(p)' = HeadOf(p)
        /\ HeadOf(pr)' = PushesTo[pr][prs[pr].at + 1]
    BY <2>2, <2>3 DEF HeadOf
  <2>5. /\ \A p \in PullRequests : \A k \in 1..Len(events[p]) :
             k \in 1..Len(events'[p]) /\ events'[p][k] = events[p][k]
        /\ \E k \in 1..Len(events'[pr]) : events'[pr][k].head = HeadOf(pr)'
    <3>1. base \in Bases /\ PushesTo[pr][prs[pr].at + 1] \in Heads
      BY <1>1, <2>1
    <3>2. PICK head \in Heads : head = PushesTo[pr][prs[pr].at + 1]
      BY <3>1
    <3>3. Announce("pull_request", pr, head, base)
      BY <2>1, <3>2
    <3>4. /\ \E k \in 1..Len(events'[pr]) : events'[pr][k].head = head
          /\ \A p \in PullRequests : \A k \in 1..Len(events[p]) :
               k \in 1..Len(events'[p]) /\ events'[p][k] = events[p][k]
      BY <1>2, <3>1, <3>3, AnnouncedComes DEF EventNames
    <3> QED BY <2>4, <3>2, <3>4
  <2>6. \A p \in PullRequests :
          \/ HeadOf(p)' = HeadOf(p) /\ reviews'[p] = reviews[p]
          \/ \E k \in 1..Len(events'[p]) : events'[p][k].head = HeadOf(p)'
    BY <1>4, <2>4, <2>5 DEF Push
  <2> QED BY <1>4, <2>5, <2>6, FollowStands DEF Push
<1>5. CASE MainMoves
  <2>1. UNCHANGED <<prs, reviews, events, runs>>
    BY <1>5 DEF MainMoves
  <2>2. \A p \in PullRequests : HeadOf(p)' = HeadOf(p) /\ reviews'[p] = reviews[p]
    BY <2>1 DEF HeadOf
  <2>3. \A p \in PullRequests : \A k \in 1..Len(events[p]) :
          k \in 1..Len(events'[p]) /\ events'[p][k] = events[p][k]
    BY <2>1
  <2> QED BY <2>1, <2>2, <2>3, FollowStands
<1>6. ASSUME Announce("pull_request_review", pr, HeadOf(pr), prs[pr].base), UNCHANGED <<prs, runs>>,
             \A p \in PullRequests : p # pr => reviews'[p] = reviews[p]
      PROVE  FollowInv'
  <2>1. \A p \in PullRequests : HeadOf(p)' = HeadOf(p)
    BY <1>6 DEF HeadOf
  <2>2. /\ \A p \in PullRequests : \A k \in 1..Len(events[p]) :
             k \in 1..Len(events'[p]) /\ events'[p][k] = events[p][k]
        /\ \E k \in 1..Len(events'[pr]) : events'[pr][k].head = HeadOf(pr)
    BY <1>1, <1>2, <1>6, AnnouncedComes DEF EventNames
  <2>3. \A p \in PullRequests :
          \/ HeadOf(p)' = HeadOf(p) /\ reviews'[p] = reviews[p]
          \/ \E k \in 1..Len(events'[p]) : events'[p][k].head = HeadOf(p)'
    BY <1>6, <2>1, <2>2
  <2> QED BY <1>6, <2>2, <2>3, FollowStands
<1>7. CASE \E user \in Users, state \in {"APPROVED", "CHANGES_REQUESTED", "COMMENTED"} : Review(pr, user, state)
  <2>1. /\ Announce("pull_request_review", pr, HeadOf(pr), prs[pr].base) /\ UNCHANGED <<prs, runs>>
        /\ \E x : reviews' = [reviews EXCEPT ![pr] = Append(@, x)]
    BY <1>7 DEF Review
  <2>2. \A p \in PullRequests : p # pr => reviews'[p] = reviews[p]
    BY <1>2, <2>1
  <2> QED BY <1>6, <2>1, <2>2
<1>8. CASE \E i \in DOMAIN reviews[pr] : Dismiss(pr, i)
  <2>1. /\ Announce("pull_request_review", pr, HeadOf(pr), prs[pr].base) /\ UNCHANGED <<prs, runs>>
        /\ \E i : reviews' = [reviews EXCEPT ![pr][i].state = "DISMISSED"]
    BY <1>8 DEF Dismiss
  <2>2. \A p \in PullRequests : p # pr => reviews'[p] = reviews[p]
    BY <1>2, <2>1
  <2> QED BY <1>6, <2>1, <2>2
<1> QED BY <1>3, <1>4, <1>5, <1>7, <1>8

\* The run a delivery starts answers for it.
LEMMA StartFollows ==
  ASSUME PassInv, FollowInv, NEW pr \in PullRequests, StartRun(pr)
  PROVE  FollowInv'
<1>1. PICK q : Starts(pr, q)
  BY StartRunStarts
<1>2. UNCHANGED <<prs, reviews>> /\ \A p \in PullRequests : HeadOf(p)' = HeadOf(p)
  BY DEF StartRun, HeadOf
<1> DEFINE n == Len(runs)
<1>3. /\ runs \in Seq(RunType) /\ n \in Nat /\ runs' = Append(runs, q) /\ q \in RunType
  BY <1>1 DEF Starts, Good, PassInv, Typed, RunsTyped
<1>4. /\ Len(runs') = n + 1 /\ runs'[n + 1] = q
      /\ \A i \in 1..n : runs'[i] = runs[i]
  BY <1>3
<1>5. \A i \in 1..Len(runs') : i \in 1..n \/ i = n + 1
  BY <1>3, <1>4
<1>6. \A i \in 1..n : i \in 1..Len(runs') /\ runs[i].started < q.started
  BY <1>1, <1>3, <1>4, NowIsLater DEF Starts
<1>7. n + 1 \in 1..Len(runs')
  BY <1>3, <1>4
<1> HIDE DEF n
<1>8. events[pr] \in Seq(EventType) /\ events[pr] # <<>> /\ events' = [events EXCEPT ![pr] = Tail(events[pr])]
  BY <1>1 DEF Starts, PassInv, Typed, EventsTyped
<1>9. \A p \in PullRequests : p # pr => events'[p] = events[p]
  BY <1>8 DEF PassInv, Typed, EventsTyped
<1>10. \A k \in 1..Len(events[pr]) : k # 1 => k - 1 \in 1..Len(events'[pr]) /\ events'[pr][k - 1] = events[pr][k]
  <2>1. events'[pr] = Tail(events[pr])
    BY <1>8 DEF PassInv, Typed, EventsTyped
  <2>2. /\ Len(events'[pr]) = Len(events[pr]) - 1 /\ Len(events[pr]) \in Nat
        /\ \A m \in 1..Len(events'[pr]) : events'[pr][m] = events[pr][m + 1]
    <3>1. PICK s, t : s = events[pr] /\ t = Tail(s)
      OBVIOUS
    <3>2. s \in Seq(EventType) /\ s # <<>> /\ t = events'[pr]
      BY <1>8, <2>1, <3>1
    <3>3. Len(t) = Len(s) - 1 /\ Len(s) \in Nat /\ \A m \in 1..Len(t) : t[m] = s[m + 1]
      BY <3>1, <3>2
    <3> QED BY <3>1, <3>2, <3>3
  <2>3. ASSUME NEW k \in 1..Len(events[pr]), k # 1
        PROVE  k - 1 \in 1..Len(events'[pr]) /\ events'[pr][k - 1] = events[pr][k]
    <3>1. k - 1 \in 1..Len(events'[pr]) /\ (k - 1) + 1 = k
      BY <2>2, <2>3
    <3> QED BY <2>2, <3>1
  <2> QED BY <2>3
<1>11. ASSUME NEW i \in 1..n PROVE Follows(runs[i])'
  <2>1. PICK r : r = runs[i]
    OBVIOUS
  <2>2. r = runs'[i] /\ Follows(r) /\ r \in RunType
    BY <1>3, <1>4, <2>1 DEF FollowInv, n
  <2>3. r.pr \in PullRequests
    BY <2>2 DEF RunType
  <2>4. ReadsPages(r)'
    BY <2>2 DEF Follows
  <2>5. SawTheReviews(r) => SawTheReviews(r)'
    BY <1>2 DEF SawTheReviews
  <2>6. ASSUME Superseded(r) PROVE Superseded(r)'
    <3>1. ASSUME NEW k \in 1..Len(events[r.pr]), events[r.pr][k].head = HeadOf(r.pr)
          PROVE  Superseded(r)'
      <4>1. CASE r.pr # pr
        BY <1>2, <1>9, <2>3, <3>1, <4>1 DEF Superseded
      <4>2. CASE r.pr = pr /\ k # 1
        BY <1>2, <1>10, <2>3, <3>1, <4>2 DEF Superseded
      <4>3. CASE r.pr = pr /\ k = 1
        <5>1. q.pr = r.pr /\ q.head = HeadOf(r.pr)' /\ r.started < q.started
          BY <1>1, <1>2, <1>6, <2>1, <2>3, <3>1, <4>3 DEF Starts
        <5> QED BY <1>4, <1>7, <5>1 DEF Superseded
      <4> QED BY <4>1, <4>2, <4>3
    <3>2. ASSUME NEW j \in 1..n, runs[j].pr = r.pr, runs[j].head = HeadOf(r.pr), r.started < runs[j].started
          PROVE  Superseded(r)'
      BY <1>2, <1>4, <1>6, <2>3, <3>2 DEF Superseded
    <3> QED BY <2>6, <3>1, <3>2 DEF Superseded, n
  <2>7. HeadOf(r.pr)' = HeadOf(r.pr)
    BY <1>2, <2>3
  <2> QED BY <2>2, <2>4, <2>5, <2>6, <2>7 DEF Follows
<1>12. Follows(q)'
  <2>1. q.page = 0 /\ q.seen = <<>> /\ q.pr = pr
    BY <1>1 DEF Starts
  <2>2. ReadsPages(q)'
    BY <2>1 DEF ReadsPages
  <2>3. Len(reviews[pr]) \in Nat
    BY DEF PassInv, Typed
  <2>4. SawTheReviews(q)'
    BY <1>2, <2>1, <2>3 DEF SawTheReviews
  <2> QED BY <2>2, <2>4 DEF Follows
<1>13. ASSUME NEW i \in 1..Len(runs') PROVE Follows(runs[i])'
  <2>1. CASE i \in 1..n
    BY <1>11, <2>1
  <2>2. CASE i = n + 1
    <3>1. runs'[i] = q
      BY <1>4, <2>2
    <3> QED BY <1>12, <3>1
  <2> QED BY <1>5, <2>1, <2>2
<1> QED BY <1>13 DEF FollowInv

-----------------------------------------------------------------------------
(* What a run saw follows the reviews: what a run does.                    *)

\* A run moves on no later than it was, and follows.
LEMMA FollowMoved ==
  ASSUME PassInv, FollowInv, NEW i \in 1..Len(runs), NEW q, q \in RunType, Moves(i, q), Alike(runs[i], q),
         runs[i].started <= q.started, UNCHANGED <<prs, reviews, events>>, Follows(q)
  PROVE  FollowInv'
<1>1. /\ runs \in Seq(RunType) /\ runs' = [runs EXCEPT ![i] = q]
  BY DEF PassInv, Typed, RunsTyped, Moves
<1>2. /\ Len(runs') = Len(runs) /\ runs'[i] = q
      /\ \A j \in 1..Len(runs) : j # i => runs'[j] = runs[j]
  BY <1>1
<1>3. \A j \in 1..Len(runs) : runs[j].started \in Nat
  <2>1. \A j \in 1..Len(runs) : runs[j] \in RunType
    BY <1>1
  <2> QED BY <2>1 DEF RunType
<1>4. q.started \in Nat
  BY DEF RunType
<1>5. ASSUME NEW r, Follows(r), r.started \in Nat PROVE Follows(r)'
  <2>1. SawTheReviews(r) => SawTheReviews(r)'
    BY DEF SawTheReviews
  <2>2. ASSUME NEW j \in 1..Len(runs), runs[j].pr = r.pr, runs[j].head = HeadOf(r.pr), r.started < runs[j].started
        PROVE  runs'[j].pr = r.pr /\ runs'[j].head = HeadOf(r.pr) /\ r.started < runs'[j].started
    <3>1. CASE j = i
      BY <1>2, <1>3, <1>4, <1>5, <2>2, <3>1 DEF Alike
    <3>2. CASE j # i
      BY <1>2, <2>2, <3>2
    <3> QED BY <3>1, <3>2
  <2>3. Superseded(r) => Superseded(r)'
    BY <1>2, <2>2 DEF Superseded, HeadOf
  <2>4. HeadOf(r.pr)' = HeadOf(r.pr)
    BY DEF HeadOf
  <2> QED BY <1>5, <2>1, <2>3, <2>4 DEF Follows, ReadsPages
<1>6. SUFFICES ASSUME NEW j \in 1..Len(runs) PROVE Follows(runs[j])'
  BY <1>2 DEF FollowInv
<1>7. PICK r : r = runs'[j]
  OBVIOUS
<1>8. Follows(r) /\ r.started \in Nat
  BY <1>2, <1>3, <1>4, <1>7 DEF FollowInv
<1> QED BY <1>5, <1>7, <1>8

\* A step that reads no reviews and does not end the policy job well on them.
Steady(r, q) ==
  /\ Alike(r, q)
  /\ q.started = r.started /\ q.partial = r.partial /\ q.seen = r.seen /\ q.page = r.page
  /\ Waiting(q, "policy") => Waiting(r, "policy")
  /\ q.page > 0 /\ q.jobs["policy"] = "success" => r.jobs["policy"] = "success"

\* A run that follows, after a step that reads no reviews.
LEMMA SteadyFollows ==
  ASSUME NEW r, NEW q, Follows(r), Steady(r, q)
  PROVE  Follows(q)
<1>1. ReadsPages(q)
  BY DEF Follows, ReadsPages, Steady
<1>2. Superseded(r) => Superseded(q)
  BY DEF Superseded, Steady, Alike
<1>3. SawTheReviews(r) => SawTheReviews(q)
  BY DEF SawTheReviews, Steady, Alike
<1> QED BY <1>1, <1>2, <1>3 DEF Follows, Steady, Alike

LEMMA SteadyEnds ==
  ASSUME NEW r \in RunType, NEW job \in Jobs, NEW status, status # "waiting",
         job = "policy" /\ status = "success" => r.page = 0
  PROVE  Steady(r, Ends(r, job, status))
<1>1. PICK q : q = Ends(r, job, status)
  OBVIOUS
<1>2. q = [r EXCEPT !.jobs = [r.jobs EXCEPT ![job] = status]]
  BY <1>1 DEF Ends, RunType
<1>3. /\ Alike(r, q) /\ q.started = r.started /\ q.partial = r.partial /\ q.seen = r.seen /\ q.page = r.page
      /\ q.jobs = [r.jobs EXCEPT ![job] = status]
  BY <1>2 DEF RunType, Alike
<1>4. DOMAIN r.jobs = Jobs /\ "policy" \in Jobs
  BY DEF RunType, Jobs
<1>5. q.jobs["policy"] = (IF job = "policy" THEN status ELSE r.jobs["policy"])
  BY <1>3, <1>4
<1>6. Waiting(q, "policy") => Waiting(r, "policy")
  BY <1>5 DEF Waiting
<1>7. q.page > 0 /\ q.jobs["policy"] = "success" => r.jobs["policy"] = "success"
  BY <1>3, <1>5 DEF RunType
<1> QED BY <1>1, <1>3, <1>6, <1>7 DEF Steady

LEMMA SteadyBuild ==
  ASSUME NEW r \in RunType, NEW tar
  PROVE  Steady(r, BuildApp(r, tar))
<1>1. PICK q : q = BuildApp(r, tar)
  OBVIOUS
<1>2. PICK arts : q = [r EXCEPT !.artifacts = arts, !.digest = tar, !.jobs = [r.jobs EXCEPT !["build"] = "success"]]
  BY <1>1 DEF BuildApp, Upload, Ends, RunType
<1>3. /\ Alike(r, q) /\ q.started = r.started /\ q.partial = r.partial /\ q.seen = r.seen /\ q.page = r.page
      /\ q.jobs = [r.jobs EXCEPT !["build"] = "success"]
  BY <1>2 DEF RunType, Alike
<1>4. DOMAIN r.jobs = Jobs /\ "policy" \in Jobs
  BY DEF RunType, Jobs
<1>5. q.jobs["policy"] = r.jobs["policy"]
  BY <1>3, <1>4
<1> QED BY <1>1, <1>3, <1>5 DEF Steady, Waiting

LEMMA SteadyResolve ==
  ASSUME NEW r \in RunType
  PROVE  Steady(r, Resolve(r))
<1>1. PICK q : q = Resolve(r)
  OBVIOUS
<1>2. PICK v, g, arts, w : q = [r EXCEPT !.verdict = v, !.resultDigest = g, !.artifacts = arts,
                                         !.jobs = [r.jobs EXCEPT !["scan"] = w]]
  <2> DEFINE valid == ValidResult(r)
             pass == valid /\ EnforceAccessibility(r.result) = 0
             said == [r EXCEPT !.verdict = IF pass THEN "pass" ELSE "fail",
                               !.resultDigest = IF valid THEN r.result ELSE None]
             w == IF pass THEN "success" ELSE "failure"
  <2>1. PICK v, g : v = (IF pass THEN "pass" ELSE "fail") /\ g = IF valid THEN r.result ELSE None
    OBVIOUS
  <2>2. PICK y : y = w
    OBVIOUS
  <2>3. PICK s : s = said /\ s = [r EXCEPT !.verdict = v, !.resultDigest = g]
    BY <2>1
  <2>4. q = Ends(IF valid THEN Upload(s, "result", r.result) ELSE s, "scan", y)
    BY <1>1, <2>2, <2>3 DEF Resolve
  <2> HIDE DEF valid, pass, said, w
  <2>5. CASE valid
    <3>1. PICK arts : Upload(s, "result", r.result) = [r EXCEPT !.verdict = v, !.resultDigest = g, !.artifacts = arts]
      BY <2>3 DEF Upload, RunType
    <3>2. q = [r EXCEPT !.verdict = v, !.resultDigest = g, !.artifacts = arts, !.jobs = [r.jobs EXCEPT !["scan"] = y]]
      BY <2>4, <2>5, <3>1 DEF Ends, RunType
    <3> QED BY <3>2
  <2>6. CASE ~valid
    <3>1. q = [r EXCEPT !.verdict = v, !.resultDigest = g, !.artifacts = r.artifacts,
                        !.jobs = [r.jobs EXCEPT !["scan"] = y]]
      BY <2>3, <2>4, <2>6 DEF Ends, RunType
    <3> QED BY <3>1
  <2> QED BY <2>5, <2>6
<1>3. /\ Alike(r, q) /\ q.started = r.started /\ q.partial = r.partial /\ q.seen = r.seen /\ q.page = r.page
      /\ q.jobs = [r.jobs EXCEPT !["scan"] = w]
  BY <1>2 DEF RunType, Alike
<1>4. DOMAIN r.jobs = Jobs /\ "policy" \in Jobs
  BY DEF RunType, Jobs
<1>5. q.jobs["policy"] = r.jobs["policy"]
  BY <1>3, <1>4
<1> QED BY <1>1, <1>3, <1>5 DEF Steady, Waiting

LEMMA SteadyFind ==
  ASSUME NEW r \in RunType, NEW f
  PROVE  Steady(r, [r EXCEPT !.found = f])
BY DEF RunType, Steady, Alike, Waiting

\* Two steady steps are one.
LEMMA SteadyTwice ==
  ASSUME NEW r, NEW p, NEW q, Steady(r, p), Steady(p, q)
  PROVE  Steady(r, q)
BY DEF Steady, Alike

LEMMA SteadyTake ==
  ASSUME NEW r \in RunType, NEW rs
  PROVE  Steady(r, TakeBuild(rs, r))
<1>1. PICK a, s : TakeBuild(rs, r) = [r EXCEPT !.archive = a, !.served = s]
  BY DEF TakeBuild
<1> QED BY <1>1 DEF RunType, Steady, Alike, Waiting

LEMMA SteadySpoil ==
  ASSUME NEW r \in RunType, NEW arts
  PROVE  Steady(r, [r EXCEPT !.artifacts = arts])
BY DEF RunType, Steady, Alike, Waiting

\* The run that took a build is of the type.
LEMMA TakeIsRun ==
  ASSUME PassInv, NEW i \in 1..Len(runs), NEW r, r = runs[i], TakesBuild(i)
  PROVE  TakeBuild(runs, r) \in RunType
<1>1. Good(r) /\ Waiting(r, "scan") /\ r.found # 0
  BY RunIsGood DEF TakesBuild, Judging, May, Ready
<1>2. PICK rs : rs = runs
  OBVIOUS
<1>3. Good(rs[r.found]) /\ Bytes(rs[r.found]) = Bytes(r)
  BY <1>1, <1>2, RunIsGood DEF FoundItsOwn
<1> QED BY <1>1, <1>2, <1>3, TakesOK DEF Good

\* A step of the run i that reads no reviews.
Steadies(i, q) == Moves(i, q) /\ Steady(runs[i], q)

\* A step that reads no reviews keeps the invariant.
LEMMA SteadyMoved ==
  ASSUME PassInv, PassInv', FollowInv, NEW i \in 1..Len(runs), NEW q, Steadies(i, q),
         UNCHANGED <<prs, reviews, events>>
  PROVE  FollowInv'
<1>1. PICK r : r = runs[i]
  OBVIOUS
<1>2. Follows(r) /\ r \in RunType
  BY <1>1 DEF FollowInv, PassInv, Typed, RunsTyped
<1>3. Steady(r, q) /\ Moves(i, q)
  BY <1>1 DEF Steadies
<1>4. Follows(q)
  BY <1>2, <1>3, SteadyFollows
<1>5. q \in RunType
  <2>1. runs' = [runs EXCEPT ![i] = q] /\ runs \in Seq(RunType) /\ runs' \in Seq(RunType)
    BY <1>3 DEF Moves, PassInv, Typed, RunsTyped
  <2>2. runs'[i] = q /\ i \in 1..Len(runs')
    BY <2>1
  <2> QED BY <2>1, <2>2
<1>6. r.started \in Nat /\ q.started = r.started /\ Alike(r, q)
  BY <1>2, <1>3 DEF Steady, RunType
<1>7. r.started <= q.started
  BY <1>6
<1> QED BY <1>1, <1>3, <1>4, <1>5, <1>6, <1>7, FollowMoved

\* Which steps read no reviews.
LEMMA QuietRunSteadies ==
  ASSUME PassInv, NEW i \in 1..Len(runs),
         \/ \E job \in Jobs : Skip(i, job) \/ LoseJob(i, job)
         \/ Engine(i) \/ Build(i) \/ BuildFails(i) \/ FindsBuild(i) \/ TakesBuild(i) \/ Scans(i)
         \/ \E died \in BOOLEAN : JudgeFails(i, died)
         \/ Comment(i) \/ Decide(i)
         \/ \E how \in {"expired", "cut"} : Spoil(i, how)
  PROVE  \E q : Steadies(i, q)
<1>1. PICK r : r = runs[i] /\ r \in RunType
  BY RunIsGood DEF Good
<1>2. ASSUME NEW job \in Jobs, NEW status, status # "waiting", Moves(i, Ends(runs[i], job, status)),
             job = "policy" => status # "success"
      PROVE  \E q : Steadies(i, q)
  BY <1>1, <1>2, SteadyEnds DEF Steadies
<1>3. "engine" \in Jobs /\ "build" \in Jobs /\ "comment" \in Jobs /\ "required" \in Jobs
  BY DEF Jobs
<1>4. ASSUME NEW job \in Jobs, Skip(i, job) \/ LoseJob(i, job) PROVE \E q : Steadies(i, q)
  <2>1. PICK status \in {"skipped", "cancelled"} : Moves(i, Ends(runs[i], job, status))
    BY <1>4 DEF Skip, LoseJob
  <2>2. status # "waiting" /\ status # "success"
    OBVIOUS
  <2> QED BY <1>2, <2>1, <2>2
<1>5. CASE Engine(i)
  <2>1. Moves(i, Ends(runs[i], "engine", "success"))
    BY <1>5 DEF Engine
  <2> QED BY <1>2, <1>3, <2>1
<1>6. CASE Build(i)
  <2>1. Moves(i, BuildApp(r, Built(r)))
    BY <1>1, <1>6 DEF Build
  <2> QED BY <1>1, <2>1, SteadyBuild DEF Steadies
<1>7. CASE BuildFails(i)
  <2>1. Moves(i, Ends(runs[i], "build", "failure"))
    BY <1>7 DEF BuildFails
  <2> QED BY <1>2, <1>3, <2>1
<1>8. CASE FindsBuild(i)
  <2>1. \E f : Moves(i, Resolve(r)) \/ Moves(i, [r EXCEPT !.found = f])
    BY <1>1, <1>8 DEF FindsBuild
  <2> QED BY <1>1, <2>1, SteadyResolve, SteadyFind DEF Steadies
<1>9. CASE TakesBuild(i)
  <2>1. PICK t : t = TakeBuild(runs, r)
    OBVIOUS
  <2>2. Moves(i, Resolve(t)) \/ Moves(i, t)
    BY <1>1, <1>9, <2>1 DEF TakesBuild
  <2>3. PICK rs : rs = runs
    OBVIOUS
  <2>4. t = TakeBuild(rs, r)
    BY <2>1, <2>3
  <2>5. Steady(r, t)
    BY <1>1, <2>4, SteadyTake
  <2>6. Steady(t, Resolve(t))
    <3>1. t \in RunType
      BY <1>1, <1>9, <2>1, TakeIsRun
    <3> QED BY <3>1, SteadyResolve
  <2>7. Steady(r, Resolve(t))
    BY <2>5, <2>6, SteadyTwice
  <2> QED BY <1>1, <2>2, <2>5, <2>7 DEF Steadies
<1>10. CASE Scans(i) \/ \E died \in BOOLEAN : JudgeFails(i, died)
  <2>1. PICK x \in 0..2, crash \in BOOLEAN : Moves(i, Resolve(r)) \/ Moves(i, Resolve(Judged(r, x, crash)))
    <3>1. PICK exit : exit = CheckExit(runs[i], commits[runs[i].base], dirty) /\ exit \in 0..2
      BY DEF CheckExit
    <3>2. CASE Scans(i)
      BY <1>1, <3>1, <3>2 DEF Scans
    <3>3. ASSUME NEW died \in BOOLEAN, JudgeFails(i, died)
          PROVE  Moves(i, Resolve(r)) \/ Moves(i, Resolve(Judged(r, 0, TRUE)))
      BY <1>1, <3>3 DEF JudgeFails
    <3>4. 0 \in 0..2 /\ TRUE \in BOOLEAN
      OBVIOUS
    <3> QED BY <1>10, <3>1, <3>2, <3>3, <3>4
  <2>2. PICK p : p = Judged(r, x, crash)
    OBVIOUS
  <2>3. PICK res : res = [crash |-> crash, accessibility |-> x, buildDigest |-> r.archive, isolated |-> TRUE]
    OBVIOUS
  <2>4. res \in Results
    BY <1>1, <2>1, <2>3 DEF Results, RunType
  <2>5. p = [r EXCEPT !.result = res]
    BY <2>2, <2>3 DEF Judged
  <2>6. p \in RunType /\ Steady(r, p)
    BY <1>1, <2>4, <2>5 DEF RunType, Steady, Alike, Waiting
  <2>7. Steady(r, Resolve(p))
    BY <2>6, SteadyResolve, SteadyTwice
  <2> QED BY <1>1, <2>1, <2>2, <2>7, SteadyResolve DEF Steadies
<1>11. CASE Comment(i)
  <2>1. PICK status \in {"success", "failure"} : Moves(i, Ends(runs[i], "comment", status))
    BY <1>11 DEF Comment, Commented
  <2> QED BY <1>2, <1>3, <2>1
<1>12. CASE Decide(i)
  <2>1. PICK status \in {"success", "failure"} : Moves(i, Ends(runs[i], "required", status))
    BY <1>12 DEF Decide, Required
  <2> QED BY <1>2, <1>3, <2>1
<1>13. ASSUME NEW how \in {"expired", "cut"}, Spoil(i, how) PROVE \E q : Steadies(i, q)
  <2>1. PICK a : Moves(i, [r EXCEPT !.artifacts = (@ \ {a}) \cup {Spoilt(a, how)}])
    BY <1>1, <1>13 DEF Spoil
  <2>2. PICK arts : arts = (r.artifacts \ {a}) \cup {Spoilt(a, how)}
    OBVIOUS
  <2>3. Moves(i, [r EXCEPT !.artifacts = arts])
    BY <1>1, <2>1, <2>2 DEF RunType
  <2> QED BY <1>1, <2>3, SteadySpoil DEF Steadies
<1> QED BY <1>4, <1>5, <1>6, <1>7, <1>8, <1>9, <1>10, <1>11, <1>12, <1>13

\* The run a step leaves is of the type.
LEMMA RunStays ==
  ASSUME PassInv, PassInv', NEW i \in 1..Len(runs), NEW q, Moves(i, q)
  PROVE  q \in RunType /\ i \in 1..Len(runs')
<1>1. runs' = [runs EXCEPT ![i] = q] /\ runs \in Seq(RunType) /\ runs' \in Seq(RunType)
  BY DEF Moves, PassInv, Typed, RunsTyped
<1>2. runs'[i] = q /\ i \in 1..Len(runs')
  BY <1>1
<1> QED BY <1>1, <1>2

\* The policy job asks for its first page, or ends on none.
LEMMA PolicyFollows ==
  ASSUME PassInv, PassInv', FollowInv, NEW i \in 1..Len(runs), Policy(i)
  PROVE  FollowInv'
<1>1. PICK r : r = runs[i] /\ r \in RunType
  BY RunIsGood DEF Good
<1>2. /\ r.page = 0 /\ UNCHANGED <<prs, reviews, events>> /\ Follows(r) /\ Waiting(r, "policy")
      /\ Moves(i, PolicyStarts(r, commits[r.base], commits[r.head], prs[r.pr].author))
  BY <1>1 DEF Policy, Quiet, FollowInv, May, Ready
<1>3. "policy" \in Jobs
  BY DEF Jobs
<1>4. \/ \E status \in {"success", "failure"} : Moves(i, Ends(r, "policy", status))
      \/ Moves(i, [r EXCEPT !.page = 1])
  BY <1>2 DEF PolicyStarts
<1>5. ASSUME NEW status \in {"success", "failure"}, Moves(i, Ends(r, "policy", status)) PROVE FollowInv'
  <2>1. Steady(r, Ends(r, "policy", status))
    BY <1>1, <1>2, <1>3, SteadyEnds
  <2>2. PICK q : q = Ends(r, "policy", status)
    OBVIOUS
  <2>3. Steadies(i, q)
    BY <1>1, <1>5, <2>1, <2>2 DEF Steadies
  <2> QED BY <1>2, <2>3, SteadyMoved
<1>6. CASE Moves(i, [r EXCEPT !.page = 1])
  <2>1. PICK q : q = [r EXCEPT !.page = 1]
    OBVIOUS
  <2>2. /\ Alike(r, q) /\ q.started = r.started /\ q.partial = r.partial /\ q.seen = r.seen /\ q.page = 1
        /\ q.jobs = r.jobs
    BY <1>1, <2>1 DEF RunType, Alike
  <2>3. ReadsPages(q)
    <3>1. Len(q.seen) = 0
      BY <1>2, <2>2 DEF Follows, ReadsPages
    <3>2. (1 - 1) * PageSize = 0
      BY PageAssumption
    <3> QED BY <2>2, <3>1, <3>2 DEF ReadsPages
  <2>4. Superseded(r) => Superseded(q)
    BY <2>2 DEF Superseded, Alike
  <2>5. SawTheReviews(r) => SawTheReviews(q)
    BY <1>2, <2>2 DEF SawTheReviews, Alike, Waiting
  <2>6. Follows(q)
    BY <1>2, <2>2, <2>3, <2>4, <2>5 DEF Follows, Alike
  <2>7. q \in RunType
    BY <1>6, <2>1, RunStays
  <2>8. r.started <= q.started
    BY <1>1, <2>2 DEF RunType
  <2> QED BY <1>1, <1>2, <1>6, <2>1, <2>2, <2>6, <2>7, <2>8, FollowMoved
<1> QED BY <1>4, <1>5, <1>6

\* The policy job reads a page, the last one or not.
LEMMA ReadsFollows ==
  ASSUME PassInv, PassInv', FollowInv, NEW i \in 1..Len(runs), ReadsPage(i)
  PROVE  FollowInv'
<1>1. PICK r : r = runs[i] /\ r \in RunType
  BY RunIsGood DEF Good
<1>2. PICK listing : listing = reviews[r.pr] /\ listing \in Seq(ReviewType)
  BY <1>1 DEF RunType, PassInv, Typed
<1>3. PICK q : q = PolicyReads(r, commits[r.base], commits[r.head], prs[r.pr].author, listing)
  OBVIOUS
<1>4. /\ r.page > 0 /\ UNCHANGED <<prs, reviews, events>> /\ Follows(r) /\ Waiting(r, "policy")
      /\ Moves(i, q)
  BY <1>1, <1>2, <1>3 DEF ReadsPage, Quiet, FollowInv, May, Ready
<1>5. r.page \in Nat \ {0} /\ r.seen \in Seq(ReviewType) /\ DOMAIN r.jobs = Jobs /\ "policy" \in Jobs
  BY <1>1, <1>4 DEF RunType, Jobs
<1>6. PICK items, a : items = PageOf(listing, r.page) /\ a = (r.page - 1) * PageSize
  OBVIOUS
<1>7. /\ items \in Seq(ReviewType)
      /\ \A k \in 1..Len(items) : a + k \in 1..Len(listing) /\ items[k] = listing[a + k]
      /\ Len(items) < PageSize => Len(listing) <= a + Len(items)
      /\ ~(Len(items) < PageSize) => Len(items) = PageSize
  BY <1>2, <1>5, <1>6, PageIsPart
<1>8. Len(r.seen) = a
  BY <1>4, <1>5, <1>6 DEF Follows, ReadsPages
<1>9. PICK seen : seen = r.seen \o items
  OBVIOUS
<1>10. /\ seen \in Seq(ReviewType) /\ Len(seen) = a + Len(items)
       /\ \A k \in 1..Len(r.seen) : seen[k] = r.seen[k]
       /\ \A k \in 1..Len(items) : seen[a + k] = items[k]
       /\ Len(items) \in Nat /\ a \in Nat
  <2>1. PICK s : s = r.seen /\ s \in Seq(ReviewType)
    BY <1>5
  <2>2. Len(s) = a /\ Len(s) \in Nat
    BY <1>8, <2>1
  <2>3. Len(items) \in Nat
    BY <1>7
  <2>4. seen = s \o items
    BY <1>9, <2>1
  <2>5. seen \in Seq(ReviewType) /\ Len(seen) = Len(s) + Len(items)
    BY <1>7, <2>1, <2>4
  <2>6. ASSUME NEW k \in 1..Len(s) PROVE seen[k] = s[k]
    BY <1>7, <2>1, <2>2, <2>3, <2>4
  <2>7. ASSUME NEW k \in 1..Len(items) PROVE seen[Len(s) + k] = items[k]
    BY <1>7, <2>1, <2>2, <2>3, <2>4
  <2> QED BY <2>1, <2>2, <2>3, <2>5, <2>6, <2>7
<1>11. /\ q.pr = r.pr /\ q.head = r.head /\ Alike(r, q) /\ q.started = r.started /\ q.partial = r.partial
       /\ q.seen = seen
       /\ \/ LastPage(items) /\ q.page = r.page /\ q.jobs["policy"] \in {"success", "failure"}
          \/ ~LastPage(items) /\ q.page = r.page /\ q.jobs["policy"] = "failure"
          \/ ~LastPage(items) /\ q.page = r.page + 1 /\ q.jobs["policy"] = "waiting"
  <2>1. PICK read : read = [r EXCEPT !.seen = seen]
    OBVIOUS
  <2>2. /\ read.page = r.page /\ read.seen = seen /\ read.jobs = r.jobs /\ Alike(r, read)
        /\ read.started = r.started /\ read.partial = r.partial
    BY <1>1, <2>1 DEF RunType, Alike
  <2>3. ASSUME NEW status
        PROVE  LET x == Ends(read, "policy", status)
               IN  /\ x.page = r.page /\ x.seen = seen /\ x.jobs["policy"] = status /\ Alike(r, x)
                   /\ x.started = r.started /\ x.partial = r.partial
    <3>1. PICK x : x = Ends(read, "policy", status)
      OBVIOUS
    <3>2. x = [r EXCEPT !.seen = seen, !.jobs = [r.jobs EXCEPT !["policy"] = status]]
      BY <1>1, <2>1, <3>1 DEF Ends, RunType
    <3>3. /\ x.page = r.page /\ x.seen = seen /\ x.jobs = [r.jobs EXCEPT !["policy"] = status] /\ Alike(r, x)
          /\ x.started = r.started /\ x.partial = r.partial
      BY <1>1, <3>2 DEF RunType, Alike
    <3> QED BY <1>5, <3>1, <3>3
  <2>4. CASE LastPage(items)
    <3>1. PICK status \in {"success", "failure"} : q = Ends(read, "policy", status)
      BY <1>3, <1>6, <1>9, <2>1, <2>4 DEF PolicyReads
    <3> QED BY <2>3, <2>4, <3>1 DEF Alike
  <2>5. CASE ~LastPage(items) /\ Truncated(r.page, items)
    <3>1. q = Ends(read, "policy", "failure")
      BY <1>3, <1>6, <1>9, <2>1, <2>5 DEF PolicyReads
    <3> QED BY <2>3, <2>5, <3>1 DEF Alike
  <2>6. CASE ~LastPage(items) /\ ~Truncated(r.page, items)
    <3>1. q = [read EXCEPT !.page = @ + 1]
      BY <1>3, <1>6, <1>9, <2>1, <2>6 DEF PolicyReads
    <3>2. q = [r EXCEPT !.seen = seen, !.page = r.page + 1]
      BY <1>1, <2>1, <3>1 DEF RunType
    <3>3. /\ q.page = r.page + 1 /\ q.seen = seen /\ q.jobs = r.jobs /\ Alike(r, q)
          /\ q.started = r.started /\ q.partial = r.partial
      BY <1>1, <3>2 DEF RunType, Alike
    <3> QED BY <1>4, <2>6, <3>3 DEF Alike, Waiting
  <2> QED BY <2>4, <2>5, <2>6
<1>12. ReadsPages(q)
  <2>1. CASE Waiting(q, "policy")
    <3>1. Len(items) = PageSize /\ q.page = r.page + 1
      BY <1>7, <1>11, <2>1 DEF Waiting, LastPage
    <3>2. (q.page - 1) * PageSize = a + PageSize /\ q.page # 0
      BY <1>5, <1>6, <3>1, PageAssumption
    <3> QED BY <1>10, <1>11, <3>1, <3>2 DEF ReadsPages
  <2> QED BY <2>1 DEF ReadsPages
<1>13. Superseded(r) => Superseded(q)
  BY <1>11 DEF Superseded
<1>14. ASSUME SawTheReviews(r) PROVE SawTheReviews(q)
  <2>1. /\ a <= Len(listing)
        /\ \A k \in 1..a : r.seen[k] = listing[k]
    BY <1>2, <1>8, <1>14 DEF SawTheReviews
  <2>2. Len(listing) \in Nat
    BY <1>2
  <2>3. Len(seen) <= Len(listing)
    <3>1. CASE Len(items) = 0
      BY <1>10, <2>1, <2>2, <3>1
    <3>2. CASE Len(items) # 0
      <4>1. Len(items) \in 1..Len(items)
        BY <1>10, <3>2
      <4> QED BY <1>7, <1>10, <2>2, <4>1
    <3> QED BY <3>1, <3>2
  <2>4. ASSUME NEW k \in 1..Len(seen) PROVE seen[k] = listing[k]
    <3>1. CASE k \in 1..a
      BY <1>8, <1>10, <2>1, <3>1
    <3>2. CASE k \notin 1..a
      <4>1. k - a \in 1..Len(items) /\ a + (k - a) = k
        BY <1>10, <2>4, <3>2
      <4> QED BY <1>7, <1>10, <4>1
    <3> QED BY <3>1, <3>2
  <2>5. ASSUME q.jobs["policy"] = "success" PROVE Len(seen) = Len(listing)
    <3>1. Len(items) < PageSize
      BY <1>11, <2>5 DEF LastPage
    <3> QED BY <1>7, <1>10, <2>2, <2>3, <3>1
  <2> QED BY <1>2, <1>11, <2>3, <2>4, <2>5 DEF SawTheReviews
<1>15. Follows(q)
  BY <1>4, <1>11, <1>12, <1>13, <1>14 DEF Follows
<1>16. q \in RunType
  BY <1>4, RunStays
<1>17. r.started <= q.started
  BY <1>1, <1>11 DEF RunType
<1> QED BY <1>1, <1>4, <1>11, <1>15, <1>16, <1>17, FollowMoved

\* A run that is run again has seen nothing, or is left out.
LEMMA AgainFollows ==
  ASSUME PassInv, PassInv', FollowInv, NEW i \in 1..Len(runs), Again(i, Jobs) \/ Again(i, Affected(runs[i]))
  PROVE  FollowInv'
<1>1. PICK r, now : r = runs[i] /\ now = Now /\ r \in RunType
  BY RunIsGood DEF Good
<1>2. PICK jobs \in {Jobs, Affected(r)} : /\ jobs # {} /\ Moves(i, Rerun(r, jobs, now))
                                          /\ Completed(r) /\ UNCHANGED <<prs, reviews, events>>
  BY <1>1 DEF Again
<1>3. PICK q : q = Rerun(r, jobs, now)
  OBVIOUS
<1>4. /\ Alike(r, q) /\ q.started = now /\ q.partial = (jobs # Jobs)
      /\ q.jobs = [j \in Jobs |-> IF j \in jobs THEN "waiting" ELSE r.jobs[j]]
      /\ q.page = (IF "policy" \in jobs THEN 0 ELSE r.page)
      /\ q.seen = (IF "policy" \in jobs THEN <<>> ELSE r.seen)
  BY <1>1, <1>3 DEF Rerun, RunType, Alike
<1>5. now \in Nat /\ r.started < now
  BY <1>1, NowIsLater DEF PassInv, Typed, RunsTyped
<1>6. "policy" \in Jobs
  BY DEF Jobs
<1>7. ReadsPages(q)
  <2>1. CASE "policy" \in jobs
    BY <1>4, <2>1 DEF ReadsPages
  <2>2. CASE "policy" \notin jobs
    BY <1>2, <1>4, <1>6, <2>2 DEF ReadsPages, Completed, Waiting
  <2> QED BY <2>1, <2>2
<1>8. ~q.partial => SawTheReviews(q)
  <2>1. CASE jobs = Jobs
    <3>1. q.page = 0 /\ q.seen = <<>>
      BY <1>4, <1>6, <2>1
    <3>2. Len(reviews[r.pr]) \in Nat
      BY <1>1 DEF RunType, PassInv, Typed
    <3> QED BY <1>4, <3>1, <3>2 DEF SawTheReviews, Alike
  <2>2. CASE jobs # Jobs
    BY <1>4, <2>2
  <2> QED BY <2>1, <2>2
<1>9. Follows(q)
  BY <1>7, <1>8 DEF Follows
<1>10. q \in RunType
  BY <1>2, <1>3, RunStays
<1>11. r.started <= q.started
  BY <1>1, <1>4, <1>5 DEF RunType
<1> QED BY <1>1, <1>2, <1>3, <1>4, <1>9, <1>10, <1>11, FollowMoved

\* No run has begun, so all of them follow.
LEMMA FollowInit ==
  ASSUME Init
  PROVE  FollowInv
<1>1. runs = <<>>
  BY DEF Init
<1>2. Len(runs) = 0
  BY <1>1
<1> QED BY <1>2 DEF FollowInv

\* Nothing that reviews are read from has changed.
LEMMA StillFollows ==
  ASSUME PassInv, FollowInv, UNCHANGED <<prs, reviews, events, runs>>
  PROVE  FollowInv'
<1>1. \A p \in PullRequests : HeadOf(p)' = HeadOf(p) /\ reviews'[p] = reviews[p]
  BY DEF HeadOf
<1>2. \A p \in PullRequests : \A k \in 1..Len(events[p]) : k \in 1..Len(events'[p]) /\ events'[p][k] = events[p][k]
  OBVIOUS
<1> QED BY <1>1, <1>2, FollowStands

\* Every step keeps it.
LEMMA FollowNext ==
  ASSUME PassInv, PassInv', FollowInv, [Next]_vars
  PROVE  FollowInv'
<1>1. ASSUME NEW pr \in PullRequests,
             \/ Edited(pr) \/ Push(pr)
             \/ \E user \in Users, state \in {"APPROVED", "CHANGES_REQUESTED", "COMMENTED"} : Review(pr, user, state)
             \/ \E i \in DOMAIN reviews[pr] : Dismiss(pr, i)
      PROVE  FollowInv'
  BY <1>1, WorldFollows
<1>2. ASSUME NEW pr \in PullRequests, StartRun(pr) PROVE FollowInv'
  BY <1>2, StartFollows
<1>3. CASE MainMoves
  BY <1>3, StillFollows DEF MainMoves
<1>4. ASSUME NEW i \in DOMAIN runs, RunMoves(i) PROVE FollowInv'
  <2>1. i \in 1..Len(runs)
    BY <1>4 DEF PassInv, Typed, RunsTyped
  <2>2. CASE \/ \E job \in Jobs : Skip(i, job) \/ LoseJob(i, job)
             \/ Engine(i) \/ Build(i) \/ BuildFails(i) \/ FindsBuild(i) \/ TakesBuild(i) \/ Scans(i)
             \/ \E died \in BOOLEAN : JudgeFails(i, died)
             \/ Comment(i) \/ Decide(i)
             \/ \E how \in {"expired", "cut"} : Spoil(i, how)
    <3>1. UNCHANGED <<prs, reviews, events>>
      BY <2>2 DEF Quiet, Skip, Engine, Build, BuildFails, FindsBuild, TakesBuild, Scans, JudgeFails,
                  Comment, Decide, LoseJob, Spoil
    <3>2. PICK q : Steadies(i, q)
      BY <2>1, <2>2, QuietRunSteadies
    <3> QED BY <2>1, <3>1, <3>2, SteadyMoved
  <2>3. CASE Policy(i)
    BY <2>1, <2>3, PolicyFollows
  <2>4. CASE ReadsPage(i)
    BY <2>1, <2>4, ReadsFollows
  <2>5. CASE Again(i, Jobs) \/ Again(i, Affected(runs[i]))
    BY <2>1, <2>5, AgainFollows
  <2> QED BY <1>4, <2>2, <2>3, <2>4, <2>5 DEF RunMoves
<1>5. CASE UNCHANGED vars
  BY <1>5, StillFollows DEF vars
<1> QED BY <1>1, <1>2, <1>3, <1>4, <1>5 DEF Next

\* What a policy saw follows the reviews: a run of a pull request's head, all
\* of whose jobs ran together, saw what the reviews begin with, or a delivery
\* or a later run of that head is there to answer for what came since
\* (policy-enforce.ts collectReviews, the on: block of install/ci.ts).
THEOREM FollowInvariance == ScreensAreServed /\ Spec => [](PassInv /\ FollowInv)
<1>1. SUFFICES ASSUME ScreensAreServed PROVE Spec => [](PassInv /\ FollowInv)
  OBVIOUS
<1>2. Init => PassInv /\ FollowInv
  BY PassInit, FollowInit
<1>3. PassInv /\ FollowInv /\ [Next]_vars => (PassInv /\ FollowInv)'
  BY <1>1, PassNext, FollowNext
<1> QED BY <1>2, <1>3, PTL DEF Spec

\* An approval that is a user's last decisive review stands.
LEMMA LastApprovalStands ==
  ASSUME NEW listing \in Seq(ReviewType), NEW k \in 1..Len(listing),
         k \in DecisiveOf(listing, listing[k].user), listing[k].state = "APPROVED",
         \A j \in DecisiveOf(listing, listing[k].user) : j <= k
  PROVE  Stands(listing, k)
<1>1. SUFFICES ASSUME NEW j \in k + 1..Len(listing),
                      listing[j].user = listing[k].user, listing[j].state = "CHANGES_REQUESTED"
               PROVE  FALSE
  BY DEF Stands
<1>2. Len(listing) \in Nat /\ DOMAIN listing = 1..Len(listing)
  OBVIOUS
<1>3. j \in 1..Len(listing) /\ k < j
  BY <1>2
<1>4. listing[j].user # NoUser
  BY <1>1 DEF DecisiveOf, ParsedReviews
<1>5. j \in DecisiveOf(listing, listing[k].user)
  BY <1>1, <1>2, <1>3, <1>4 DEF DecisiveOf, ParsedReviews, Decisive
<1>6. j <= k
  BY <1>5
<1> QED BY <1>3, <1>6

\* A green check follows the reviews: once every delivery has started its run,
\* what the head shows as green has, for each guarded file it changes, an
\* owner's approval that nobody took back (policy-enforce.ts, install/ci.ts).
THEOREM GreenFollows == ScreensAreServed /\ Spec => []GreenFollowsReviews
<1>1. SUFFICES ASSUME PassInv, FollowInv PROVE GreenFollowsReviews
  <2>1. PassInv /\ FollowInv => GreenFollowsReviews
    OBVIOUS
  <2> QED BY <2>1, FollowInvariance, PTL
<1>2. SUFFICES ASSUME NEW pr \in PullRequests, NEW i \in Shown(pr),
                      events[pr] = <<>>, Passed(runs[i]), ~runs[i].partial, NEW path \in Diverged(runs[i])
               PROVE  \E k \in OwnerReviews(runs[i], path) : Stands(reviews[pr], k)
  BY DEF GreenFollowsReviews
<1>3. /\ i \in 1..Len(runs) /\ runs[i].pr = pr /\ runs[i].head = HeadOf(pr)
      /\ \A j \in 1..Len(runs) : runs[j].pr = pr /\ runs[j].head = HeadOf(pr) => runs[j].started <= runs[i].started
  BY DEF Shown, PassInv, Typed, RunsTyped
<1>4. PICK r : r = runs[i]
  OBVIOUS
<1>5. Good(r) /\ r.pr = pr /\ r.head = HeadOf(pr) /\ r.seen \in Seq(ReviewType) /\ r.started \in Nat
  <2>1. Good(runs[i])
    BY <1>1, <1>3, RunIsGood
  <2>2. Good(r)
    BY <1>4, <2>1
  <2> QED BY <1>3, <1>4, <2>2 DEF Good, RunType
<1>6. ~Superseded(r)
  <2>1. Len(events[pr]) = 0
    BY <1>2
  <2>2. \A j \in 1..Len(runs) : runs[j].pr = pr /\ runs[j].head = HeadOf(pr) => ~(r.started < runs[j].started)
    <3>1. \A j \in 1..Len(runs) : runs[j].started \in Nat
      <4>1. \A j \in 1..Len(runs) : runs[j] \in RunType
        BY <1>1 DEF PassInv, Typed, RunsTyped
      <4> QED BY <4>1 DEF RunType
    <3> QED BY <1>3, <1>4, <1>5, <3>1
  <2> QED BY <1>5, <2>1, <2>2 DEF Superseded
<1>7. SawTheReviews(r)
  <2>1. Follows(r)
    BY <1>1, <1>3, <1>4 DEF FollowInv
  <2> QED BY <1>2, <1>4, <1>5, <1>6, <2>1 DEF Follows
<1>8. r.jobs["policy"] = "success"
  BY <1>2, <1>4, <1>5 DEF Good, RunOK, PassedOnAll
<1>9. /\ r.page > 0
      /\ EnforcePolicy(commits[r.base], commits[r.head], [author |-> prs[r.pr].author, head |-> r.head], r.seen) = 0
  BY <1>2, <1>4, <1>5, <1>8 DEF Good, RunOK, PolicyOfWhatItSaw
<1>10. PICK listing : listing = reviews[pr] /\ listing \in Seq(ReviewType)
  BY <1>1 DEF PassInv, Typed
<1>11. r.seen = listing
  <2>1. Len(r.seen) = Len(listing) /\ \A k \in 1..Len(r.seen) : r.seen[k] = listing[k]
    BY <1>5, <1>7, <1>8, <1>9, <1>10 DEF SawTheReviews
  <2> QED BY <1>5, <1>10, <2>1
<1>12. PICK k \in 1..Len(listing) :
         /\ listing[k].user \in OwnersFor(Show(commits[r.base], CodeownersPath), path) \ {prs[r.pr].author}
         /\ k \in DecisiveOf(listing, listing[k].user)
         /\ listing[k].state = "APPROVED" /\ listing[k].commit = r.head
         /\ \A j \in DecisiveOf(listing, listing[k].user) : j <= k
  <2>1. PICK p, trusted, head : /\ p = [author |-> prs[r.pr].author, head |-> r.head]
                               /\ trusted = commits[r.base] /\ head = commits[r.head]
    OBVIOUS
  <2>2. EnforcePolicy(trusted, head, p, listing) = 0 /\ path \in ListDiverged(trusted, head)
    BY <1>2, <1>4, <1>9, <1>11, <2>1 DEF Diverged
  <2>3. \E k \in 1..Len(listing) :
          /\ listing[k].user \in OwnersFor(Show(trusted, CodeownersPath), path) \ {p.author}
          /\ k \in DecisiveOf(listing, listing[k].user)
          /\ listing[k].state = "APPROVED" /\ listing[k].commit = p.head
          /\ \A j \in DecisiveOf(listing, listing[k].user) : j <= k
    BY <1>10, <2>2, PolicySaysYes
  <2>4. p.author = prs[r.pr].author /\ p.head = r.head
    BY <2>1
  <2> QED BY <2>1, <2>3, <2>4
<1>13. Stands(listing, k)
  BY <1>10, <1>12, LastApprovalStands
<1>14. k \in OwnerReviews(r, path)
  BY <1>5, <1>10, <1>12 DEF OwnerReviews
<1> QED BY <1>4, <1>10, <1>13, <1>14

-----------------------------------------------------------------------------
(* The protection of a branch, and the owners of its workflows.            *)

\* A part that is verified is asked for by protection that is in force.
LEMMA PartInForce ==
  ASSUME site.settings.classic.st # "present",
         NEW fails, VerifyBranchRule(site.settings, fails) = "verified", NEW p \in Parts
  PROVE  \E r \in InForce : Requires(p, r) = "yes"
<1> DEFINE settings == site.settings
           default == DefaultIsMain(settings, fails)
<1>1. \/ ClassicState(settings, fails, p) = "present"
      \/ FindRuleset(settings, fails, p) = "present"
  <2>1. PICK classic : classic = [q \in Parts |-> ClassicState(settings, fails, q)]
    OBVIOUS
  <2>2. PICK state : state = [q \in Parts |->
                  IF classic[q] = "present" THEN "present"
                  ELSE RequirementState(classic[q], FindRuleset(settings, fails, q))]
    OBVIOUS
  <2>3. \A q \in Parts : state[q] = "present"
    <3>1. ASSUME ~\A q \in Parts : state[q] = "present" PROVE FALSE
      BY <2>1, <2>2, <3>1 DEF VerifyBranchRule
    <3> QED BY <3>1
  <2>4. classic[p] = ClassicState(settings, fails, p)
    BY <2>1
  <2>5. CASE classic[p] = "present"
    BY <2>4, <2>5
  <2>6. CASE classic[p] # "present"
    <3>1. RequirementState(classic[p], FindRuleset(settings, fails, p)) = "present"
      BY <2>2, <2>3, <2>6
    <3>2. FindRuleset(settings, fails, p) = "present"
      BY <2>6, <3>1 DEF RequirementState
    <3> QED BY <3>2
  <2> QED BY <2>5, <2>6
<1>2. CASE ClassicState(settings, fails, p) = "present"
  <2>1. PICK st, answer : st = ReadClassic(settings, fails) /\ answer = Requires(p, settings.classic)
    OBVIOUS
  <2>2. st # "present" /\ (st = "read" => settings.classic.st = "read")
    BY <2>1 DEF ReadClassic
  <2>3. st = "read" /\ answer = "yes"
    BY <1>2, <2>1, <2>2 DEF ClassicState
  <2> QED BY <2>1, <2>2, <2>3 DEF InForce
<1>3. CASE FindRuleset(settings, fails, p) = "present"
  <2>1. PICK r \in ToSet(settings.rulesets) : RulesetCoverage(r, p, default) = "covers"
    BY <1>3 DEF FindRuleset
  <2>2. Active(r) /\ Requires(p, r) # "no" /\ ConditionCoverage(r, default) = "covers"
    BY <2>1 DEF RulesetCoverage
  <2>3. Requires(p, r) # "unknown"
    BY <2>1, <2>2 DEF RulesetCoverage
  <2>4. Requires(p, r) = "yes"
    BY <2>2, <2>3 DEF Requires, Answer, OfAny
  <2>5. /\ \E t \in r.include : TargetMatch(t, default) = "covers"
        /\ \A t \in r.exclude : TargetMatch(t, default) \notin {"covers", "unknown"}
    <3>1. PICK include, exclude : /\ include = {TargetMatch(t, default) : t \in r.include}
                                  /\ exclude = {TargetMatch(t, default) : t \in r.exclude}
      OBVIOUS
    <3>2. "covers" \notin exclude /\ "unknown" \notin exclude /\ "covers" \in include
      BY <2>2, <3>1 DEF ConditionCoverage
    <3> QED BY <3>1, <3>2
  <2>6. /\ default = "yes" => settings.defaultIsMain
        /\ default = "no" => ~settings.defaultIsMain
        /\ default \in {"yes", "no", "unknown"}
    BY DEF DefaultIsMain, Answer
  <2> HIDE DEF default
  <2>7. \A t \in r.include : TargetMatch(t, default) = "covers" => Hits(t, r)
    BY <2>6 DEF TargetMatch, Hits
  <2>8. \A t \in r.exclude : TargetMatch(t, default) \notin {"covers", "unknown"} => ~Hits(t, r)
    BY <2>6 DEF TargetMatch, Hits
  <2> QED BY <2>1, <2>2, <2>4, <2>5, <2>7, <2>8 DEF InForce
<1> QED BY <1>1, <1>2, <1>3

\* A verified branch asks for the check, for an owner, and again after a push.
LEMMA VerifiedProtects ==
  ASSUME site.settings.classic.st # "present",
         NEW fails, VerifyBranchRule(site.settings, fails) = "verified"
  PROVE  CheckRequired /\ OwnersAsked /\ StaleDismissed
<1>1. CheckRequired
  <2>1. PICK r \in InForce : Requires("check", r) = "yes"
    BY PartInForce DEF Parts
  <2>2. r.checks
    BY <2>1 DEF Requires, Answer
  <2> QED BY <2>2 DEF CheckRequired
<1>2. ASSUME NEW p \in Parts \ {"check"}
      PROVE  \E v \in ReviewsInForce : Part(p, v) = "yes"
  <2>1. PICK r \in InForce : Requires(p, r) = "yes"
    BY PartInForce
  <2>2. "yes" \in {Part(p, v) : v \in r.reviews}
    BY <2>1 DEF Requires, OfAny
  <2> QED BY <2>2 DEF ReviewsInForce
<1>3. "owners" \in Parts \ {"check"} /\ "approval" \in Parts \ {"check"} /\ "stale" \in Parts \ {"check"}
  BY DEF Parts
<1>4. \E v \in ReviewsInForce : v.owners
  <2>1. PICK v \in ReviewsInForce : Part("owners", v) = "yes"
    BY <1>2, <1>3
  <2>2. v.owners
    BY <2>1 DEF Part, Answer
  <2> QED BY <2>2
<1>5. ApprovalsAsked
  <2>1. PICK v \in ReviewsInForce : Part("approval", v) = "yes"
    BY <1>2, <1>3
  <2>2. v.count # NotANumber /\ v.count >= 1
    BY <2>1 DEF Part, ApprovalCount, Answer
  <2> QED BY <2>2 DEF ApprovalsAsked
<1>6. StaleDismissed
  <2>1. PICK v \in ReviewsInForce : Part("stale", v) = "yes"
    BY <1>2, <1>3
  <2>2. v.dismiss = "yes"
    BY <2>1 DEF Part
  <2> QED BY <2>2 DEF StaleDismissed
<1> QED BY <1>1, <1>4, <1>5, <1>6 DEF OwnersAsked

\* What a sequence is with one more.
LEMMA OneMore ==
  ASSUME NEW S, NEW s \in Seq(S), NEW e \in S
  PROVE  /\ Append(s, e) \in Seq(S)
         /\ Len(Append(s, e)) = Len(s) + 1
         /\ \A i \in 1..Len(s) : Append(s, e)[i] = s[i]
         /\ Append(s, e)[Len(s) + 1] = e
BY AppendProperties

\* A workflow file, and a name no literal can hold, in the folder of workflows.
LEMMA WorkflowPaths ==
  ASSUME NEW path, IsPath(path), IsWorkflow(path), NEW ext, ext = path[Len(path)].ext
  PROVE  /\ Len(path) = 3 /\ path[3] = [stem |-> path[3].stem, ext |-> ext]
         /\ path[1] = WorkflowsDir[1] /\ path[2] = WorkflowsDir[2]
         /\ Len(NewWorkflow(ext)) = 3 /\ NewWorkflow(ext)[3] = [stem |-> "[", ext |-> ext]
         /\ DOMAIN path = 1..3 /\ DOMAIN NewWorkflow(ext) = 1..3
         /\ NewWorkflow(ext)[1] = WorkflowsDir[1] /\ NewWorkflow(ext)[2] = WorkflowsDir[2]
         /\ \A n \in 1..2 : SubSeq(path, 1, n) = SubSeq(NewWorkflow(ext), 1, n)
<1>1. Len(WorkflowsDir) = 2 /\ WorkflowsDir = <<WorkflowsDir[1], WorkflowsDir[2]>>
  BY DEF WorkflowsDir
<1>2. Len(path) = 3 /\ path \in Seq(ToSet(path)) /\ DOMAIN path = 1..3
  BY <1>1 DEF IsWorkflow, IsPath
<1>3. path[3] = [stem |-> path[3].stem, ext |-> path[3].ext]
  BY <1>2 DEF IsPath, File
<1>4. SubSeq(path, 1, 2) = SubSeq(WorkflowsDir, 1, 2)
  BY <1>1 DEF IsWorkflow, IsPrefix
<1>5. SubSeq(path, 1, 2)[1] = path[1] /\ SubSeq(path, 1, 2)[2] = path[2]
  BY <1>2
<1>6. SubSeq(WorkflowsDir, 1, 2)[1] = WorkflowsDir[1] /\ SubSeq(WorkflowsDir, 1, 2)[2] = WorkflowsDir[2]
  BY <1>1
<1>7. PICK new : new = NewWorkflow(ext)
  OBVIOUS
<1>8. PICK a, b, c, S : /\ a = WorkflowsDir[1] /\ b = WorkflowsDir[2] /\ c = [stem |-> "[", ext |-> ext]
                       /\ S = {a, b, c}
  OBVIOUS
<1>9. /\ new \in Seq(S) /\ Len(new) = 3 /\ DOMAIN new = 1..3
      /\ new[1] = a /\ new[2] = b /\ new[3] = c
  <2>1. PICK dir : dir = <<a, b>>
    OBVIOUS
  <2>2. dir \in Seq(S) /\ Len(dir) = 2 /\ dir[1] = a /\ dir[2] = b /\ c \in S
    BY <1>8, <2>1
  <2>3. new = Append(dir, c)
    BY <1>1, <1>7, <1>8, <2>1 DEF NewWorkflow, File
  <2>4. /\ new \in Seq(S) /\ Len(new) = Len(dir) + 1
        /\ \A i \in 1..Len(dir) : new[i] = dir[i]
        /\ new[Len(dir) + 1] = c
    <3>1. dir \in Seq(S)
      BY <2>2
    <3>2. c \in S
      BY <2>2
    <3>3. Append(dir, c) \in Seq(S)
      BY <3>1, <3>2, OneMore
    <3>4. Len(Append(dir, c)) = Len(dir) + 1
      BY <3>1, <3>2, OneMore
    <3>5. \A i \in 1..Len(dir) : Append(dir, c)[i] = dir[i]
      BY <3>1, <3>2, OneMore
    <3>6. Append(dir, c)[Len(dir) + 1] = c
      BY <3>1, <3>2, OneMore
    <3> QED BY <2>3, <3>3, <3>4, <3>5, <3>6
  <2>5. 1 \in 1..Len(dir) /\ 2 \in 1..Len(dir)
    BY <2>2
  <2>6. new[1] = a /\ new[2] = b /\ Len(new) = 3
    BY <2>2, <2>4, <2>5
  <2> QED BY <2>2, <2>4, <2>6
<1>10. path[1] = WorkflowsDir[1] /\ path[2] = WorkflowsDir[2]
  BY <1>4, <1>5, <1>6
<1>11. ASSUME NEW n \in 1..2
       PROVE  SubSeq(path, 1, n) = SubSeq(new, 1, n)
  <2>1. SubSeq(path, 1, n) = [i \in 1..n |-> path[i]]
    BY <1>2
  <2>2. SubSeq(new, 1, n) = [i \in 1..n |-> new[i]]
    BY <1>9
  <2>3. \A i \in 1..n : path[i] = new[i]
    BY <1>8, <1>9, <1>10
  <2> QED BY <2>1, <2>2, <2>3
<1> QED BY <1>2, <1>3, <1>7, <1>8, <1>9, <1>10, <1>11 DEF IsWorkflow

\* A rule that decides a name no literal can hold decides every workflow.
LEMMA EveryNewMatches ==
  ASSUME NEW pattern, PatternShape(pattern), pattern.supported,
         NEW path, IsPath(path), IsWorkflow(path), EveryNew(pattern, path[Len(path)].ext)
  PROVE  Matches(pattern, path)
<1>1. PICK ext, new : ext = path[Len(path)].ext /\ new = NewWorkflow(ext)
  OBVIOUS
<1>2. /\ Len(path) = 3 /\ path[3] = [stem |-> path[3].stem, ext |-> ext]
      /\ Len(new) = 3 /\ new[3] = [stem |-> "[", ext |-> ext]
      /\ DOMAIN path = 1..3 /\ DOMAIN new = 1..3
      /\ new[1] = path[1] /\ new[2] = path[2]
      /\ \A n \in 1..2 : SubSeq(path, 1, n) = SubSeq(new, 1, n)
  BY <1>1, WorkflowPaths
<1>3. Matches(pattern, new)
  BY <1>1 DEF EveryNew
<1>4. CASE \E n \in 1..2 : Rx(pattern, SubSeq(new, 1, n))
  <2>1. PICK n \in 1..2 : Rx(pattern, SubSeq(new, 1, n))
    BY <1>4
  <2>2. SubSeq(path, 1, n) = SubSeq(new, 1, n) /\ n \in 1..Len(path) - 1
    BY <1>2, <2>1
  <2>3. Rx(pattern, SubSeq(path, 1, n))
    BY <2>1, <2>2
  <2> QED BY <2>2, <2>3 DEF Matches
<1>5. CASE ~pattern.directory /\ Rx(pattern, new)
  <2>1. \A i \in 1..Len(pattern.core) : pattern.core[i].stem # "["
    BY DEF PatternShape, IsPath
  <2>2. CASE pattern.anchored
    <3>1. Len(pattern.core) = 3 /\ \A i \in 1..3 : SegmentMatches(pattern.core[i], new[i])
      BY <1>2, <1>5, <2>2 DEF Rx
    <3>2. SegmentMatches(pattern.core[3], path[3])
      BY <1>2, <2>1, <3>1 DEF SegmentMatches
    <3>3. \A i \in 1..3 : SegmentMatches(pattern.core[i], path[i])
      BY <1>2, <3>1, <3>2
    <3> QED BY <1>2, <1>5, <2>2, <3>1, <3>3 DEF Matches, Rx
  <2>3. CASE ~pattern.anchored
    <3>1. SegmentMatches(pattern.core[1], new[3]) /\ pattern.core[1].stem # "["
      BY <1>2, <1>5, <2>1, <2>3 DEF Rx, PatternShape
    <3>2. SegmentMatches(pattern.core[1], path[3])
      BY <1>2, <3>1 DEF SegmentMatches
    <3> QED BY <1>2, <1>5, <2>3, <3>2 DEF Matches, Rx
  <2> QED BY <2>2, <2>3
<1> QED BY <1>2, <1>3, <1>4, <1>5 DEF Matches

\* A rule that decides some workflow could decide one to come.
LEMMA MatchIsSomeNew ==
  ASSUME NEW pattern, PatternShape(pattern),
         NEW path, IsPath(path), IsWorkflow(path), Matches(pattern, path)
  PROVE  SomeNew(pattern, path[Len(path)].ext)
<1>1. PICK ext, new : ext = path[Len(path)].ext /\ new = NewWorkflow(ext)
  OBVIOUS
<1>2. /\ Len(path) = 3 /\ path[3] = [stem |-> path[3].stem, ext |-> ext]
      /\ Len(new) = 3
      /\ DOMAIN path = 1..3
      /\ path[1] = WorkflowsDir[1] /\ path[2] = WorkflowsDir[2]
      /\ \A n \in 1..2 : SubSeq(path, 1, n) = SubSeq(new, 1, n)
  BY <1>1, WorkflowPaths
<1>3. CASE \E n \in 1..2 : Rx(pattern, SubSeq(path, 1, n))
  <2>1. PICK n \in 1..2 : Rx(pattern, SubSeq(path, 1, n))
    BY <1>3
  <2>2. SubSeq(path, 1, n) = SubSeq(new, 1, n) /\ n \in 1..Len(new) - 1
    BY <1>2, <2>1
  <2>3. Rx(pattern, SubSeq(new, 1, n))
    BY <2>1, <2>2
  <2>4. Matches(pattern, new)
    BY <2>2, <2>3 DEF Matches
  <2> QED BY <1>1, <2>4 DEF SomeNew, EveryNew
<1>4. CASE ~pattern.directory /\ Rx(pattern, path)
  <2>1. Len(WorkflowsDir) = 2 /\ DOMAIN WorkflowsDir = 1..2
    BY DEF WorkflowsDir
  <2>2. CASE pattern.anchored
    <3>1. Len(pattern.core) = 3 /\ \A i \in 1..3 : SegmentMatches(pattern.core[i], path[i])
      BY <1>2, <1>4, <2>2 DEF Rx
    <3>2. CouldBeWorkflow(pattern.core[3], ext)
      BY <1>2, <3>1 DEF SegmentMatches, CouldBeWorkflow
    <3> QED BY <1>1, <1>2, <1>4, <2>1, <3>1, <3>2 DEF SomeNew
  <2>3. CASE ~pattern.anchored
    <3>1. Len(pattern.core) = 1 /\ SegmentMatches(pattern.core[1], path[3])
      BY <1>2, <1>4, <2>3 DEF Rx, PatternShape
    <3>2. CouldBeWorkflow(pattern.core[1], ext)
      BY <1>2, <3>1 DEF SegmentMatches, CouldBeWorkflow
    <3> QED BY <1>1, <1>4, <2>3, <3>1, <3>2 DEF SomeNew
  <2> QED BY <2>2, <2>3
<1> QED BY <1>2, <1>3, <1>4 DEF Matches

\* CODEOWNERS as a site holds it.
RulesShape(rules) == /\ rules \in Seq(ToSet(rules))
                     /\ \A i \in DOMAIN rules : PatternShape(rules[i].pattern)

\* The rule that decides a path is the last that matches it.
LEMMA LastMatchDecides ==
  ASSUME NEW rules, RulesShape(rules), NEW path
  PROVE  LET last == LastMatch(rules, path)
         IN  \/ last = 0 /\ \A i \in DOMAIN rules : ~Matches(rules[i].pattern, path)
             \/ /\ last \in DOMAIN rules /\ Matches(rules[last].pattern, path)
                /\ \A i \in DOMAIN rules : Matches(rules[i].pattern, path) => i <= last
<1> DEFINE hits == {i \in DOMAIN rules : Matches(rules[i].pattern, path)}
<1>1. Len(rules) \in Nat /\ DOMAIN rules = 1..Len(rules)
  BY DEF RulesShape
<1>2. CASE hits = {}
  BY <1>2 DEF LastMatch
<1>3. CASE hits # {}
  <2>1. \E m \in hits : \A x \in hits : x <= m
    <3>1. hits \in SUBSET (1..Len(rules))
      BY <1>1
    <3> HIDE DEF hits
    <3> QED BY <1>1, <1>3, <3>1, LastPosition
  <2>2. PICK last : last = LastMatch(rules, path)
    OBVIOUS
  <2>3. last = CHOOSE i \in hits : \A j \in hits : j <= i
    BY <1>3, <2>2 DEF LastMatch
  <2>4. last \in hits /\ \A j \in hits : j <= last
    BY <2>1, <2>3
  <2> QED BY <2>2, <2>4
<1> QED BY <1>2, <1>3

\* Wired owners leave no workflow, present or to come, without an owner.
LEMMA WiredOwners ==
  ASSUME NEW rules, rules # Absent => RulesShape(rules), rules = site.owners,
         NEW present, WorkflowOwners(rules, present) = "wired",
         NEW path, IsPath(path), IsWorkflow(path)
  PROVE  OwnersOf(path) # {}
<1>1. /\ rules # Absent /\ \A i \in DOMAIN rules : rules[i].pattern.supported
      /\ \A ext \in Extensions : NewFilesOwned(rules, ext)
  BY DEF WorkflowOwners
<1>2. PICK ext \in Extensions : ext = path[Len(path)].ext
  BY DEF IsWorkflow
<1>3. RulesShape(rules)
  BY <1>1
<1>4. PICK last : last = LastMatch(rules, path)
  OBVIOUS
<1>5. PICK full : full = {i \in DOMAIN rules : EveryNew(rules[i].pattern, ext)}
  OBVIOUS
<1>6. /\ full # {}
      /\ \A i \in DOMAIN rules :
           (\A j \in full : j <= i) /\ SomeNew(rules[i].pattern, ext) => ~OwnerProblem(rules[i])
  BY <1>1, <1>5 DEF NewFilesOwned
<1>7. \A j \in full : Matches(rules[j].pattern, path)
  BY <1>1, <1>2, <1>3, <1>5, EveryNewMatches DEF RulesShape
<1>8. /\ last \in DOMAIN rules /\ Matches(rules[last].pattern, path)
      /\ \A j \in full : j <= last
  BY <1>3, <1>4, <1>5, <1>6, <1>7, LastMatchDecides
<1>9. SomeNew(rules[last].pattern, ext)
  BY <1>2, <1>3, <1>8, MatchIsSomeNew DEF RulesShape
<1>10. ~OwnerProblem(rules[last])
  BY <1>6, <1>8, <1>9
<1>11. last # 0
  BY <1>3, <1>8 DEF RulesShape
<1>12. PICK o \in rules[last].owners : o.kind # "word"
  BY <1>10 DEF OwnerProblem
<1>13. o.login \in OwnersOf(path)
  BY <1>1, <1>4, <1>11, <1>12 DEF OwnersOf
<1> QED BY <1>13

-----------------------------------------------------------------------------
(* What the policy finds when it passes.                                   *)

\* A finite set made a sequence is a sequence of its elements.
LEMMA SeqOfSet ==
  ASSUME NEW S, IsFiniteSet(S)
  PROVE  /\ Cardinality(S) \in Nat
         /\ DOMAIN SetToSeq(S) = 1..Cardinality(S)
         /\ \A i \in DOMAIN SetToSeq(S) : SetToSeq(S)[i] \in S
<1>1. PICK n \in Nat : ExistsBijection(1..n, S)
  BY FS_NatBijection
<1>2. Cardinality(S) = n
  BY <1>1, FS_CountingElements
<1>3. PICK f \in [1..n -> S] : \A x, y \in 1..n : f[x] = f[y] => x = y
  BY <1>1 DEF ExistsBijection, Bijection, Injection, IsInjective
<1>4. IsInjective(f)
  BY <1>3 DEF IsInjective
<1>5. SetToSeq(S) \in [1..n -> S]
  BY <1>2, <1>3, <1>4 DEF SetToSeq
<1> QED BY <1>2, <1>5

\* The reviews a run is shown of the approvals there are.
Approvals == {[user |-> a.user, state |-> "APPROVED", commit |-> a.at] : a \in approvals}

LEMMA ListingShows ==
  ASSUME IsFiniteSet(approvals)
  PROVE  /\ Cardinality(Approvals) \in Nat
         /\ DOMAIN Listing = 1..Cardinality(Approvals)
         /\ \A i \in DOMAIN Listing : Listing[i] \in Approvals
<1> DEFINE f == [a \in approvals |-> [user |-> a.user, state |-> "APPROVED", commit |-> a.at]]
<1>1. f \in [approvals -> Approvals] /\ \A v \in Approvals : \E a \in approvals : f[a] = v
  BY DEF Approvals
<1>2. f \in Surjection(approvals, Approvals)
  BY <1>1 DEF Surjection
<1>3. IsFiniteSet(Approvals)
  BY <1>2, FS_Surjection DEF ExistsSurjection
<1>4. Listing = SetToSeq(Approvals)
  BY DEF Listing, Approvals
<1> QED BY <1>3, <1>4, SeqOfSet

\* An owner who approved the head of the listing approved here.
LEMMA OwnerApproved ==
  ASSUME IsFiniteSet(approvals), NEW owners, NEW head,
         OwnerApprovedHead(owners, Listing, Author, head)
  PROVE  \E a \in approvals : a.at = head /\ a.user \in owners \ {Author}
<1>1. PICK o, last : /\ o \in owners \ {Author} /\ last = LatestDecisive(Listing, o)
                     /\ last # 0 /\ Listing[last].commit = head
  BY DEF OwnerApprovedHead
<1>2. PICK own : own = DecisiveOf(Listing, o)
  OBVIOUS
<1>3. own \subseteq DOMAIN Listing /\ \A i \in own : Listing[i].user = o
  BY <1>2 DEF DecisiveOf, ParsedReviews
<1>4. own # {} /\ last = CHOOSE i \in own : \A j \in own : j <= i
  BY <1>1, <1>2 DEF LatestDecisive
<1>5. \E m \in own : \A x \in own : x <= m
  BY <1>3, <1>4, ListingShows, LastPosition
<1>6. last \in own
  BY <1>4, <1>5
<1>7. Listing[last] \in Approvals /\ Listing[last].user = o
  BY <1>3, <1>6, ListingShows
<1>8. PICK a \in approvals : Listing[last] = [user |-> a.user, state |-> "APPROVED", commit |-> a.at]
  BY <1>7 DEF Approvals
<1>9. a.user = o /\ a.at = head
  BY <1>1, <1>7, <1>8
<1> QED BY <1>1, <1>9

\* A pattern with no wildcard owns only what lies under the path it names.
LEMMA PlainMatchIsUnder ==
  ASSUME NEW pattern, PatternShape(pattern), Reconcilable(pattern),
         NEW path, IsPath(path), Matches(pattern, path)
  PROVE  /\ Len(pattern.core) <= Len(path)
         /\ \A i \in 1..Len(pattern.core) : pattern.core[i] = path[i]
<1>1. PICK core : core = pattern.core /\ IsPath(core)
  BY DEF PatternShape
<1>2. /\ Len(core) \in Nat /\ Len(path) \in Nat /\ DOMAIN core = 1..Len(core) /\ DOMAIN path = 1..Len(path)
      /\ \A i \in 1..Len(core) : core[i] = File(core[i].stem, core[i].ext)
      /\ \A i \in 1..Len(path) : path[i] = File(path[i].stem, path[i].ext)
  BY <1>1 DEF IsPath
<1>3. ASSUME NEW a, NEW b, a = File(a.stem, a.ext), b = File(b.stem, b.ext),
             SegmentMatches(a, b), "*" \notin {a.stem, a.ext}
      PROVE  a = b
  BY <1>3 DEF SegmentMatches
<1>4. pattern.anchored /\ \A i \in 1..Len(core) : "*" \notin {core[i].stem, core[i].ext}
  BY <1>1, <1>2 DEF Reconcilable
<1>5. PICK n, part : /\ n \in 1..Len(path) /\ Len(part) = n /\ DOMAIN part = 1..n
                     /\ \A i \in 1..n : part[i] = path[i]
                     /\ Rx(pattern, part)
  <2>1. CASE Rx(pattern, path)
    <3>1. Len(path) # 0
      BY DEF IsPath
    <3>2. Len(path) \in 1..Len(path)
      BY <1>2, <3>1
    <3> QED BY <1>2, <2>1, <3>2
  <2>2. CASE \E n \in 1..Len(path) - 1 : Rx(pattern, SubSeq(path, 1, n))
    <3>1. PICK n \in 1..Len(path) - 1 : Rx(pattern, SubSeq(path, 1, n))
      BY <2>2
    <3>2. n \in 1..Len(path)
      BY <1>2, <3>1
    <3>3. PICK part : part = SubSeq(path, 1, n)
      OBVIOUS
    <3>4. Len(part) = n /\ DOMAIN part = 1..n /\ \A i \in 1..n : part[i] = path[i]
      BY <1>1, <1>2, <3>2, <3>3
    <3> QED BY <3>1, <3>2, <3>3, <3>4
  <2> QED BY <2>1, <2>2 DEF Matches
<1>6. Len(core) = n /\ \A i \in 1..n : SegmentMatches(core[i], part[i])
  BY <1>1, <1>4, <1>5 DEF Rx
<1>7. ASSUME NEW i \in 1..n PROVE core[i] = path[i]
  <2>1. /\ core[i] = File(core[i].stem, core[i].ext) /\ path[i] = File(path[i].stem, path[i].ext)
        /\ SegmentMatches(core[i], path[i])
    BY <1>2, <1>5, <1>6
  <2> QED BY <1>3, <1>4, <1>6, <2>1
<1> QED BY <1>1, <1>2, <1>5, <1>6, <1>7

\* A site as every behaviour has it; doctor and the operator replace only its
\* workflow file.
SiteShape(s) ==
  /\ s \in [settings : {s.settings}, owners : {s.owners}, workflow : {s.workflow}, guarded : {s.guarded}]
  /\ s.settings.classic.st # "present"
  /\ s.workflow # Absent => s.workflow = [text |-> s.workflow.text, ref |-> s.workflow.ref]
  /\ \A g \in s.guarded : IsPath(g)
  /\ s.owners # Absent => RulesShape(s.owners)
  /\ s.owners # Rewritten /\ [parses |-> TRUE, guarded |-> s.guarded] \notin {Absent, Rewritten}

\* What main holds, as the policy reads it.
LEMMA TrustedHolds ==
  /\ ConfigPath \in DOMAIN Trusted /\ Trusted[ConfigPath] = [parses |-> TRUE, guarded |-> site.guarded]
  /\ CodeownersPath \in DOMAIN Trusted /\ Trusted[CodeownersPath] = site.owners
<1>1. ConfigPath # CodeownersPath
  <2>1. Len(ConfigPath) = 1 /\ Len(CodeownersPath) = 2
    BY DEF ConfigPath, CodeownersPath
  <2> QED BY <2>1
<1> QED BY <1>1 DEF Trusted

\* A file the head changes differs from what main holds.
LEMMA ChangeDiffers ==
  ASSUME SiteShape(site), NEW path \in change.paths
  PROVE  /\ path \in DOMAIN Trusted /\ path \in DOMAIN HeadFiles
         /\ Show(Trusted, path) # Show(HeadFiles, path)
<1>1. /\ path \in DOMAIN Trusted
      /\ Trusted[path] \in {[parses |-> TRUE, guarded |-> site.guarded], site.owners, "old"}
  BY DEF Trusted
<1>2. Rewritten \notin {[parses |-> TRUE, guarded |-> site.guarded], site.owners, "old"}
  BY WiringAssumption DEF SiteShape
<1>3. path \in DOMAIN HeadFiles /\ HeadFiles[path] = Rewritten
  BY <1>1 DEF HeadFiles
<1> QED BY <1>1, <1>2, <1>3 DEF Show

\* With the policy's scope wired, the guard sees every change to an owned file.
LEMMA ScopeDiverges ==
  ASSUME SiteShape(site), PolicyScope(site.owners, site.guarded) = "wired",
         NEW path \in change.paths, IsPath(path), OwnersOf(path) # {}
  PROVE  path \in ListDiverged(Trusted, HeadFiles)
<1>1. PICK rules, last : rules = site.owners /\ last = LastMatch(rules, path)
  OBVIOUS
<1>2. /\ rules # Absent
      /\ \A i \in DOMAIN rules : Reconcilable(rules[i].pattern) /\ Covered(rules[i].pattern.core, site.guarded)
  BY <1>1 DEF PolicyScope
<1>3. RulesShape(rules) /\ last # 0
  BY <1>1, <1>2 DEF SiteShape, OwnersOf
<1>4. last \in DOMAIN rules /\ Matches(rules[last].pattern, path)
  BY <1>1, <1>3, LastMatchDecides
<1>5. PICK pattern : pattern = rules[last].pattern
  OBVIOUS
<1>6. PatternShape(pattern) /\ Reconcilable(pattern) /\ Covered(pattern.core, site.guarded)
  BY <1>2, <1>3, <1>4, <1>5 DEF RulesShape
<1>7. PICK core : core = pattern.core
  OBVIOUS
<1>8. /\ IsPath(core) /\ Len(core) <= Len(path)
      /\ \A i \in 1..Len(core) : core[i] = path[i]
  BY <1>4, <1>5, <1>6, <1>7, PlainMatchIsUnder DEF PatternShape
<1>9. PICK config : config = [parses |-> TRUE, guarded |-> site.guarded]
  OBVIOUS
<1>10. PICK g \in GuardedSet(config) : IsPrefix(g, core)
  BY <1>6, <1>7, <1>9 DEF Covered
<1>11. IsPrefix(g, path)
  <2>1. Len(g) \in Nat
    <3>1. CASE g \in site.guarded
      BY <3>1 DEF SiteShape, IsPath
    <3>2. CASE g \in AlwaysGuarded
      <4>1. PICK f : g = <<f>>
        BY <3>2 DEF AlwaysGuarded, ConfigPath
      <4> QED BY <4>1
    <3> QED BY <1>9, <1>10, <3>1, <3>2 DEF GuardedSet
  <2>2. core \in Seq(ToSet(core)) /\ path \in Seq(ToSet(path))
    BY <1>8 DEF IsPath
  <2>3. Len(g) \in Nat /\ Len(core) \in Nat /\ Len(path) \in Nat
    BY <2>1, <2>2
  <2>4. Len(g) <= Len(core) /\ SubSeq(g, 1, Len(g)) = SubSeq(core, 1, Len(g))
    BY <1>10 DEF IsPrefix
  <2>5. SubSeq(core, 1, Len(g)) = SubSeq(path, 1, Len(g))
    <3>1. SubSeq(core, 1, Len(g)) = [i \in 1..Len(g) |-> core[i]]
      BY <2>2, <2>3, <2>4
    <3>2. SubSeq(path, 1, Len(g)) = [i \in 1..Len(g) |-> path[i]]
      BY <1>8, <2>2, <2>3, <2>4
    <3>3. \A i \in 1..Len(g) : core[i] = path[i]
      BY <1>8, <2>3, <2>4
    <3> QED BY <3>1, <3>2, <3>3
  <2> QED BY <1>8, <2>3, <2>4, <2>5 DEF IsPrefix
<1>12. Show(Trusted, ConfigPath) = config /\ config # Absent /\ config.parses
  BY <1>9, TrustedHolds DEF Show, SiteShape
<1>13. path \in DOMAIN Trusted /\ Show(Trusted, path) # Show(HeadFiles, path)
  BY ChangeDiffers
<1>14. path \in Expanded(Trusted, HeadFiles, g)
  BY <1>11, <1>13 DEF Expanded, LsFiles
<1>15. path \in UNION {Expanded(Trusted, HeadFiles, e) : e \in GuardedSet(config)}
  BY <1>10, <1>14
<1> QED BY <1>12, <1>13, <1>15 DEF ListDiverged

\* A policy that passed found an owner's approval of the head for every guarded
\* file the head changes.
LEMMA PolicyApproved ==
  ASSUME SiteShape(site), IsFiniteSet(approvals),
         EnforcePolicy(Trusted, HeadFiles, [author |-> Author, head |-> pushes], Listing) = 0,
         NEW path \in ListDiverged(Trusted, HeadFiles)
  PROVE  ApprovedHere(OwnersOf(path))
<1>1. PICK rules : rules = site.owners
  OBVIOUS
<1>2. Show(Trusted, CodeownersPath) = rules
  BY <1>1, TrustedHolds DEF Show
<1>3. PICK pr : pr = [author |-> Author, head |-> pushes]
  OBVIOUS
<1>4. /\ rules # Absent /\ CodeownersParse(rules)
      /\ OwnerApprovedHead(OwnersFor(rules, path), Listing, pr.author, pr.head)
  <2>1. EnforcePolicy(Trusted, HeadFiles, pr, Listing) = 0
    BY <1>3
  <2> QED BY <1>2, <2>1 DEF EnforcePolicy, NeedsReviews
<1>5. PICK a \in approvals : a.at = pushes /\ a.user \in OwnersFor(rules, path) \ {Author}
  BY <1>3, <1>4, OwnerApproved
<1>6. PICK last : last = LastMatch(rules, path)
  OBVIOUS
<1>7. last # 0 /\ last \in DOMAIN rules
  BY <1>1, <1>4, <1>5, <1>6, LastMatchDecides DEF OwnersFor, SiteShape
<1>8. OwnersFor(rules, path) \subseteq OwnersOf(path)
  <2>1. \A o \in rules[last].owners : o.kind # "word"
    BY <1>4, <1>7 DEF CodeownersParse
  <2> QED BY <1>1, <1>4, <1>6, <1>7, <2>1 DEF OwnersFor, OwnersOf
<1> QED BY <1>5, <1>8 DEF ApprovedHere

-----------------------------------------------------------------------------
(* The branch, its pull request and doctor's word on it.                   *)

\* What the policy, when the gate is honest and green, has made sure of.
CheckHolds ==
  check = "pass" /\ HonestGate =>
    /\ ~change.barrier
    /\ \A p \in ListDiverged(Trusted, HeadFiles) : ApprovedHere(OwnersOf(p))

\* What GitHub has asked of a pull request it merged.
MergeHolds ==
  merged => /\ CheckRequired => check = "pass"
            /\ OwnersAsked => \A p \in change.paths : OwnersOf(p) # {} => ApprovedBy(OwnersOf(p))

\* Where a push dismisses reviews, those there are of the last push.
ApprovalsAreFresh == StaleDismissed => \A a \in approvals : a.at = pushes

ReportIsOfTheSite == report = NoReport \/ \E fails \in Reads : report = DoctorReport(site, fails)

WiringInv ==
  /\ SiteShape(site)
  /\ \A p \in change.paths : IsPath(p)
  /\ IsFiniteSet(approvals)
  /\ ReportIsOfTheSite
  /\ ApprovalsAreFresh
  /\ CheckHolds
  /\ MergeHolds

\* The branch's protection is a matter of the settings alone.
LEMMA SameProtection ==
  ASSUME site'.settings = site.settings
  PROVE  /\ CheckRequired' <=> CheckRequired
         /\ OwnersAsked' <=> OwnersAsked
         /\ StaleDismissed' <=> StaleDismissed
<1>1. InForce' = InForce
  BY DEF InForce, Hits, Active
<1> QED BY <1>1 DEF CheckRequired, OwnersAsked, ApprovalsAsked, StaleDismissed, ReviewsInForce

\* It starts in it.
LEMMA WiringStarts ==
  ASSUME WiringInit
  PROVE  WiringInv
<1>1. SiteShape(site)
  BY WiringAssumption DEF WiringInit, SiteShape, RulesShape
<1>2. \A p \in change.paths : IsPath(p)
  BY WiringAssumption DEF WiringInit
<1>3. IsFiniteSet(approvals)
  BY FS_EmptySet DEF WiringInit
<1>4. check # "pass" /\ ~merged /\ approvals = {} /\ report = NoReport
  BY DEF WiringInit
<1> QED BY <1>1, <1>2, <1>3, <1>4 DEF WiringInv, ReportIsOfTheSite, ApprovalsAreFresh, CheckHolds, MergeHolds

\* The gate is set up before anything is checked.
LEMMA SetUpKeeps ==
  ASSUME WiringInv, InstallCi \/ PinEngine
  PROVE  WiringInv'
<1>1. PICK workflow :
        /\ workflow = [text |-> workflow.text, ref |-> workflow.ref]
        /\ site' = [site EXCEPT !.workflow = workflow]
        /\ SettingUp /\ report' = NoReport
        /\ UNCHANGED <<change, pushes, approvals, check, merged>>
  <2>1. CASE InstallCi
    <3>1. Draft = [text |-> Draft.text, ref |-> Draft.ref]
      BY DEF Draft
    <3> QED BY <2>1, <3>1 DEF InstallCi
  <2>2. CASE PinEngine
    <3>1. PICK ref \in {"commit", "branch"} : site' = [site EXCEPT !.workflow.ref = ref]
      BY <2>2 DEF PinEngine
    <3>2. [site.workflow EXCEPT !.ref = ref] = [text |-> "draft", ref |-> ref]
      BY <2>2 DEF PinEngine, Draft
    <3>3. PICK w : w = [text |-> "draft", ref |-> ref]
      OBVIOUS
    <3>4. w = [text |-> w.text, ref |-> w.ref] /\ site' = [site EXCEPT !.workflow = w]
      BY <3>1, <3>2, <3>3
    <3> QED BY <2>2, <3>4 DEF PinEngine
  <2> QED BY <2>1, <2>2
<1>2. /\ site'.settings = site.settings /\ site'.owners = site.owners /\ site'.guarded = site.guarded
      /\ SiteShape(site)'
  <2>1. PICK s : s = site
    OBVIOUS
  <2>2. PICK t : t = [s EXCEPT !.workflow = workflow]
    OBVIOUS
  <2>3. /\ t.settings = s.settings /\ t.owners = s.owners /\ t.guarded = s.guarded
        /\ t.workflow = workflow
        /\ t \in [settings : {t.settings}, owners : {t.owners}, workflow : {t.workflow}, guarded : {t.guarded}]
    BY <2>1, <2>2 DEF WiringInv, SiteShape
  <2>4. SiteShape(t)
    <3>1. SiteShape(s)
      BY <2>1 DEF WiringInv
    <3>2. /\ t.settings.classic.st # "present"
          /\ \A g \in t.guarded : IsPath(g)
          /\ t.owners # Absent => RulesShape(t.owners)
          /\ t.owners # Rewritten /\ [parses |-> TRUE, guarded |-> t.guarded] \notin {Absent, Rewritten}
      BY <2>3, <3>1 DEF SiteShape
    <3>3. t.workflow = [text |-> t.workflow.text, ref |-> t.workflow.ref]
      BY <1>1, <2>3
    <3> QED BY <2>3, <3>2, <3>3 DEF SiteShape
  <2>5. site' = t
    BY <1>1, <2>1, <2>2
  <2> QED BY <2>1, <2>3, <2>4, <2>5
<1>3. check' # "pass" /\ ~merged'
  BY <1>1 DEF SettingUp, Unmerged
<1> QED BY <1>1, <1>2, <1>3, SameProtection
        DEF WiringInv, ReportIsOfTheSite, ApprovalsAreFresh, CheckHolds, MergeHolds

\* Every step keeps it.
LEMMA WiringKeeps ==
  ASSUME WiringInv, [WiringNext]_wiring
  PROVE  WiringInv'
<1>1. ASSUME UNCHANGED site
      PROVE  /\ SiteShape(site)'
             /\ \A p : OwnersOf(p)' = OwnersOf(p)
             /\ CheckRequired' <=> CheckRequired
             /\ OwnersAsked' <=> OwnersAsked
             /\ StaleDismissed' <=> StaleDismissed
             /\ \A fails : DoctorReport(site, fails)' = DoctorReport(site, fails)
  BY <1>1, SameProtection DEF WiringInv, OwnersOf
<1>2. ASSUME UNCHANGED <<site, change, check>>
      PROVE  /\ Trusted' = Trusted /\ HeadFiles' = HeadFiles /\ (HonestGate' <=> HonestGate)
             /\ ListDiverged(Trusted, HeadFiles)' = ListDiverged(Trusted, HeadFiles)
  <2>1. Trusted' = Trusted
    BY <1>2 DEF Trusted
  <2>2. HeadFiles' = HeadFiles
    BY <1>2, <2>1 DEF HeadFiles
  <2> QED BY <1>2, <2>1, <2>2 DEF HonestGate, EditsWorkflow
<1>10. ASSUME UNCHANGED <<site, change, pushes, check>>, approvals \subseteq approvals'
       PROVE  CheckHolds'
  <2>1. SUFFICES ASSUME check' = "pass", HonestGate'
                 PROVE  /\ ~change'.barrier
                        /\ \A p \in ListDiverged(Trusted, HeadFiles)' : ApprovedHere(OwnersOf(p))'
    BY DEF CheckHolds
  <2>2. /\ ~change.barrier
        /\ \A p \in ListDiverged(Trusted, HeadFiles) : ApprovedHere(OwnersOf(p))
    <3>1. check = "pass" /\ HonestGate
      BY <1>2, <1>10, <2>1
    <3>2. CheckHolds
      BY DEF WiringInv
    <3> QED BY <3>1, <3>2 DEF CheckHolds
  <2>3. ASSUME NEW p \in ListDiverged(Trusted, HeadFiles)'
        PROVE  ApprovedHere(OwnersOf(p))'
    <3>1. ApprovedHere(OwnersOf(p))
      BY <1>2, <1>10, <2>2, <2>3
    <3>2. OwnersOf(p)' = OwnersOf(p)
      BY <1>1, <1>10
    <3> QED BY <1>10, <3>1, <3>2 DEF ApprovedHere
  <2> QED BY <1>10, <2>2, <2>3
<1>3. CASE RunDoctor
  <2>1. UNCHANGED <<site, change, pushes, approvals, check, merged>> /\ merged = FALSE
    BY <1>3 DEF RunDoctor, Unmerged
  <2>2. ReportIsOfTheSite'
    BY <1>3, <2>1 DEF RunDoctor, ReportIsOfTheSite
  <2>3. CheckHolds'
    BY <1>10, <2>1
  <2> QED BY <1>1, <2>1, <2>2, <2>3 DEF WiringInv, ApprovalsAreFresh, MergeHolds
<1>4. CASE InstallCi \/ PinEngine
  BY <1>4, SetUpKeeps
<1>5. ASSUME NEW c \in Changes, PushChange(c) PROVE WiringInv'
  <2>1. /\ UNCHANGED <<site, report, merged>> /\ merged = FALSE
        /\ change' = c /\ check' = "none"
        /\ approvals' = IF StaleDismissed THEN {} ELSE approvals
    BY <1>5 DEF PushChange, Unmerged
  <2>2. IsFiniteSet(approvals')
    BY <2>1, FS_EmptySet DEF WiringInv
  <2>3. \A p \in change'.paths : IsPath(p)
    BY <2>1, WiringAssumption
  <2> QED BY <1>1, <2>1, <2>2, <2>3 DEF WiringInv, ReportIsOfTheSite, ApprovalsAreFresh, CheckHolds, MergeHolds
<1>6. ASSUME NEW user \in Reviewers, Approve(user) PROVE WiringInv'
  <2>1. PICK a : a = [user |-> user, at |-> pushes]
    OBVIOUS
  <2>2. /\ UNCHANGED <<site, report, change, pushes, check, merged>> /\ merged = FALSE
        /\ approvals' = approvals \cup {a}
    BY <1>6, <2>1 DEF Approve, Unmerged
  <2>3. IsFiniteSet(approvals')
    BY <2>2, FS_AddElement DEF WiringInv
  <2>4. ApprovalsAreFresh'
    BY <1>1, <2>1, <2>2 DEF WiringInv, ApprovalsAreFresh
  <2>5. CheckHolds'
    BY <1>10, <2>2
  <2> QED BY <1>1, <2>2, <2>3, <2>4, <2>5 DEF WiringInv, ReportIsOfTheSite, MergeHolds
<1>7. CASE CheckRuns
  <2>1. UNCHANGED <<site, report, change, pushes, approvals, merged>> /\ merged = FALSE
    BY <1>7 DEF CheckRuns, Unmerged
  <2>2. Trusted' = Trusted /\ HeadFiles' = HeadFiles /\ (HonestGate' <=> HonestGate)
    <3>1. Trusted' = Trusted
      BY <2>1 DEF Trusted
    <3>2. HeadFiles' = HeadFiles
      BY <2>1, <3>1 DEF HeadFiles
    <3> QED BY <2>1, <3>1, <3>2 DEF HonestGate, EditsWorkflow
  <2>3. CheckHolds'
    <3>1. SUFFICES ASSUME check' = "pass", HonestGate
                   PROVE  /\ ~change.barrier
                          /\ \A p \in ListDiverged(Trusted, HeadFiles) : ApprovedHere(OwnersOf(p))
      BY <1>1, <2>1, <2>2 DEF CheckHolds, ApprovedHere
    <3>2. GatePasses
      BY <1>7, <3>1 DEF CheckRuns
    <3>3. EnforcePolicy(Trusted, HeadFiles, [author |-> Author, head |-> pushes], Listing) = 0
      BY <3>2 DEF GatePasses
    <3>4. SiteShape(site) /\ IsFiniteSet(approvals)
      BY DEF WiringInv
    <3>5. \A p \in ListDiverged(Trusted, HeadFiles) : ApprovedHere(OwnersOf(p))
      BY <3>3, <3>4, PolicyApproved
    <3> QED BY <3>2, <3>5 DEF GatePasses
  <2> QED BY <1>1, <2>1, <2>3 DEF WiringInv, ReportIsOfTheSite, ApprovalsAreFresh, MergeHolds
<1>8. CASE Merge
  <2>1. UNCHANGED <<site, report, change, pushes, approvals, check>>
    BY <1>8 DEF Merge
  <2>2. CheckHolds'
    BY <1>10, <2>1
  <2>3. MergeHolds'
    BY <1>1, <1>8, <2>1 DEF Merge, MergeHolds, ApprovedBy
  <2> QED BY <1>1, <2>1, <2>2, <2>3 DEF WiringInv, ReportIsOfTheSite, ApprovalsAreFresh
<1>9. CASE UNCHANGED wiring
  <2>1. UNCHANGED <<site, report, change, pushes, approvals, check, merged>>
    BY <1>9 DEF wiring
  <2>2. CheckHolds'
    BY <1>10, <2>1
  <2>3. MergeHolds'
    BY <1>1, <2>1 DEF WiringInv, MergeHolds, ApprovedBy
  <2> QED BY <1>1, <2>1, <2>2, <2>3 DEF WiringInv, ReportIsOfTheSite, ApprovalsAreFresh
<1> QED BY <1>3, <1>4, <1>5, <1>6, <1>7, <1>8, <1>9 DEF WiringNext

\* A pull request on a branch, doctor's report of it, and what GitHub has asked
\* of it before a merge, stay as the invariant says (doctor/index.ts,
\* policy-enforce.ts, install/branch-rule.ts).
THEOREM WiringInvariance == WiringSpec => []WiringInv
<1>1. WiringInit => WiringInv
  BY WiringStarts
<1>2. WiringInv /\ [WiringNext]_wiring => WiringInv'
  BY WiringKeeps
<1> QED BY <1>1, <1>2, PTL DEF WiringSpec

\* Doctor's wired means guarded: what doctor calls wired binds every merge of
\* a pull request, whatever the settings, owners and guarded paths, and
\* whichever of its reads failed (doctor/index.ts, install/branch-rule.ts,
\* policy-enforce.ts).
THEOREM WiredGuards == WiringSpec => []WiredMeansGuarded
<1>1. SUFFICES ASSUME WiringInv PROVE WiredMeansGuarded
  <2>1. WiringInv => WiredMeansGuarded
    OBVIOUS
  <2> QED BY <2>1, WiringInvariance, PTL
<1>2. SUFFICES ASSUME merged, Wired("ci")
               PROVE  /\ Wired("branchRule") /\ Wired("workflowOwners") =>
                           /\ ~EditsWorkflow => ~change.barrier
                           /\ \A p \in change.paths : IsWorkflow(p) => ApprovedHere(OwnersOf(p))
                      /\ Wired("policyScope") /\ CheckRequired /\ ~EditsWorkflow =>
                           \A p \in change.paths : OwnersOf(p) # {} => ApprovedHere(OwnersOf(p))
  BY DEF WiredMeansGuarded
<1>3. PICK fails \in Reads : report = DoctorReport(site, fails)
  BY <1>1, <1>2 DEF WiringInv, ReportIsOfTheSite, NoReport, Wired
<1>4. site.workflow = [text |-> "draft", ref |-> "commit"]
  <2>1. PICK file : file = site.workflow /\ (file # Absent => file = [text |-> file.text, ref |-> file.ref])
    BY <1>1 DEF WiringInv, SiteShape
  <2>2. CiState(file) = "wired"
    BY <1>2, <1>3, <2>1 DEF Wired, DoctorReport, GuardRead
  <2>3. ClassifyWorkflow(file) = "wired"
    BY <2>2 DEF CiState
  <2>4. file # Absent
    BY <2>3 DEF ClassifyWorkflow
  <2>5. file.text = "draft"
    BY <2>3, <2>4 DEF ClassifyWorkflow
  <2>6. file.ref = "commit"
    BY <2>3, <2>4, <2>5 DEF ClassifyWorkflow
  <2> QED BY <2>1, <2>4, <2>5, <2>6
<1>5. ASSUME Wired("branchRule"), Wired("workflowOwners")
      PROVE  /\ ~EditsWorkflow => ~change.barrier
             /\ \A p \in change.paths : IsWorkflow(p) => ApprovedHere(OwnersOf(p))
  <2>1. VerifyBranchRule(site.settings, fails) = "verified"
    BY <1>3, <1>5 DEF Wired, DoctorReport, BranchRuleState
  <2>2. CheckRequired /\ OwnersAsked /\ StaleDismissed
    BY <1>1, <2>1, VerifiedProtects DEF WiringInv, SiteShape
  <2>3. ~EditsWorkflow => ~change.barrier
    BY <1>1, <1>2, <1>4, <2>2 DEF WiringInv, MergeHolds, CheckHolds, HonestGate
  <2>4. ASSUME NEW p \in change.paths, IsWorkflow(p) PROVE ApprovedHere(OwnersOf(p))
    <3>1. PICK present : WorkflowOwners(site.owners, present) = "wired"
      BY <1>3, <1>5 DEF Wired, DoctorReport, GuardRead
    <3>2. IsPath(p)
      BY <1>1 DEF WiringInv
    <3>3. OwnersOf(p) # {}
      BY <1>1, <2>4, <3>1, <3>2, WiredOwners DEF WiringInv, SiteShape
    <3>4. ApprovedBy(OwnersOf(p))
      BY <1>1, <1>2, <2>2, <3>3 DEF WiringInv, MergeHolds
    <3> QED BY <1>1, <2>2, <3>4 DEF WiringInv, ApprovalsAreFresh, ApprovedBy, ApprovedHere
  <2> QED BY <2>3, <2>4
<1>6. ASSUME Wired("policyScope"), CheckRequired, ~EditsWorkflow,
             NEW p \in change.paths, OwnersOf(p) # {}
      PROVE  ApprovedHere(OwnersOf(p))
  <2>1. PolicyScope(site.owners, site.guarded) = "wired"
    BY <1>3, <1>6 DEF Wired, DoctorReport, GuardRead
  <2>2. p \in ListDiverged(Trusted, HeadFiles)
    BY <1>1, <1>6, <2>1, ScopeDiverges DEF WiringInv
  <2>3. check = "pass" /\ HonestGate
    BY <1>1, <1>2, <1>4, <1>6 DEF WiringInv, MergeHolds, HonestGate
  <2> QED BY <1>1, <2>2, <2>3 DEF WiringInv, CheckHolds
<1> QED BY <1>5, <1>6
=============================================================================
