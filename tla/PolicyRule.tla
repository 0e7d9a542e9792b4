---------------------------- MODULE PolicyRule ------------------------------
(***************************************************************************)
(* Who must approve a pull request that changes a guarded file:            *)
(* src/surfaces/policy-enforce.ts, with the guard at two git refs          *)
(* (src/trust/guard.ts) and the CODEOWNERS patterns both this and doctor   *)
(* read (src/primitives/match-codeowners.ts).                              *)
(*                                                                         *)
(* A commit is a function from the files it has to their contents.  A path *)
(* is a sequence of names, a name a stem with an extension.  Logins are    *)
(* compared without case, so a user is one value.                          *)
(***************************************************************************)
EXTENDS Naturals, Sequences, FiniteSets, SequencesExt

CONSTANTS
    Absent,      \* what `git show` answers for a file the commit lacks
    NoUser,      \* the author of a review whose account is gone
    PageSize,    \* bound: reviews on a page of GitHub's answer
    PageCap      \* bound: pages usabl reads

ASSUME PageAssumption == PageSize \in Nat \ {0} /\ PageCap \in Nat \ {0}

File(stem, ext) == [stem |-> stem, ext |-> ext]
Dir(stem) == File(stem, "")

ConfigPath == <<File("usabl.config", "json")>>
CodeownersPath == <<Dir(".github"), Dir("CODEOWNERS")>>
AlwaysGuarded ==
  {ConfigPath} \cup {<<File(s, "json")>> : s \in {".usabl-evidence", ".usabl-waivers", "usabl.docs", "usabl.routes"}}

Show(commit, path) == IF path \in DOMAIN commit THEN commit[path] ELSE Absent
LsFiles(commit, prefix) == {p \in DOMAIN commit : IsPrefix(prefix, p)}

-----------------------------------------------------------------------------
(* ------------------------------ the guard ------------------------------ *)

\* buildGuardedSet.  A config is the paths it names (guardedPaths and the
\* requirements file), or one that does not parse.
GuardedSet(config) == AlwaysGuarded \cup (IF config.parses THEN config.guarded ELSE {})

\* A directory is every file either side has under it.
Expanded(trusted, head, entry) ==
  LET files == LsFiles(trusted, entry) \cup LsFiles(head, entry)
  IN IF files = {} THEN {entry} ELSE files

\* listDivergedGuardedPathsAtRefs: when the config differs the trusted one
\* says what is guarded; one that says nothing on both sides has diverged.
ListDiverged(trusted, head) ==
  LET differs == Show(head, ConfigPath) # Show(trusted, ConfigPath)
      raw == Show(trusted, ConfigPath)
      scope == IF raw = Absent THEN [parses |-> FALSE, guarded |-> {}] ELSE raw
      paths == UNION {Expanded(trusted, head, e) : e \in GuardedSet(scope)}
  IN IF ~scope.parses /\ ~differs THEN {ConfigPath}
     ELSE {p \in paths : Show(trusted, p) # Show(head, p)}

-----------------------------------------------------------------------------
(* ------------------------ CODEOWNERS patterns -------------------------- *)
(* A pattern: where it is anchored, whether it names a directory only, and *)
(* its segments, a "*" standing for any stem or any extension.  One usabl  *)
(* cannot honour (`**`, `!`, a range) is not supported.                    *)

SegmentMatches(segment, name) ==
  segment.stem \in {"*", name.stem} /\ segment.ext \in {"*", name.ext}

\* The regular expression compileCodeownersPattern builds: an anchored pattern
\* is the whole path, another is a name at any depth.
Rx(pattern, path) ==
  IF pattern.anchored
  THEN Len(pattern.core) = Len(path) /\ \A i \in DOMAIN path : SegmentMatches(pattern.core[i], path[i])
  ELSE SegmentMatches(pattern.core[1], path[Len(path)])

\* A rule owns what it names and everything under a directory it names.
Matches(pattern, path) ==
  \/ ~pattern.directory /\ Rx(pattern, path)
  \/ \E n \in 1..Len(path) - 1 : Rx(pattern, SubSeq(path, 1, n))

\* The last rule that matches.
LastMatch(rules, path) ==
  LET hits == {i \in DOMAIN rules : Matches(rules[i].pattern, path)}
  IN IF hits = {} THEN 0 ELSE CHOOSE i \in hits : \A j \in hits : j <= i

-----------------------------------------------------------------------------
(* ------------------------------ the policy ----------------------------- *)
(* An owner is [kind |-> "user", login |-> u]; a team, an email or a bare  *)
(* word is another kind.                                                   *)

\* parseCodeowners refuses the file for one line it cannot act on.
CodeownersParse(rules) ==
  \A i \in DOMAIN rules :
    /\ rules[i].owners # {}
    /\ rules[i].pattern.supported
    /\ \A o \in rules[i].owners : o.kind = "user"

OwnersFor(rules, path) ==
  LET last == LastMatch(rules, path)
  IN IF last = 0 THEN {} ELSE {o.login : o \in rules[last].owners}

\* parseGithubReviews: an entry without a login is skipped.
ParsedReviews(listing) == {i \in DOMAIN listing : listing[i].user # NoUser}

\* A comment does not take an approval back; a request for changes does.
Decisive(review) == review.state \in {"APPROVED", "CHANGES_REQUESTED"}
DecisiveOf(listing, user) ==
  {i \in ParsedReviews(listing) : listing[i].user = user /\ Decisive(listing[i])}

\* Mutant: the first decisive review of a user is the one that counts.
FirstDecisive(listing, user) ==
  LET own == DecisiveOf(listing, user)
  IN IF own = {} THEN 0 ELSE CHOOSE i \in own : \A j \in own : i <= j

\* latestDecisiveReviewByUser, as the position of the review; 0 for none.
LatestDecisive(listing, user) ==
  LET own == DecisiveOf(listing, user)
  IN IF own = {} THEN 0 ELSE CHOOSE i \in own : \A j \in own : j <= i

OwnerApprovedHead(owners, listing, author, head) ==
  \E o \in owners \ {author} :
    LET last == LatestDecisive(listing, o)
    IN last # 0 /\ listing[last].state = "APPROVED" /\ listing[last].commit = head

\* enforcePolicy asks for the reviews only when a guarded path differs and the
\* base has a CODEOWNERS it can act on.
NeedsReviews(trusted, head) ==
  /\ ListDiverged(trusted, head) # {}
  /\ Show(trusted, CodeownersPath) \notin {Absent, <<>>}
  /\ CodeownersParse(Show(trusted, CodeownersPath))

\* The exit code of `usabl enforce policy`, over a Result that is no crash.
EnforcePolicy(trusted, head, pr, listing) ==
  LET rules == Show(trusted, CodeownersPath)
  IN IF ListDiverged(trusted, head) = {} THEN 0
     ELSE IF /\ NeedsReviews(trusted, head)
             /\ \A p \in ListDiverged(trusted, head) :
                  OwnerApprovedHead(OwnersFor(rules, p), listing, pr.author, pr.head)
          THEN 0 ELSE 2

\* collectReviews: a page that is not full is the last; a full last page means
\* that not every review was seen, and the run fails.
PageOf(listing, page) == SubSeq(listing, (page - 1) * PageSize + 1, IF page * PageSize < Len(listing) THEN page * PageSize ELSE Len(listing))
LastPage(items) == Len(items) < PageSize
Truncated(page, items) == page = PageCap /\ ~LastPage(items)
=============================================================================
