---------------------------- MODULE BranchRule ------------------------------
(***************************************************************************)
(* `usabl install --branch-rule` and doctor's branch-rule report           *)
(* (src/install/branch-rule.ts): reading classic protection and rulesets   *)
(* over an API that may not answer, and saying verified only when every    *)
(* part is confirmed.                                                      *)
(*                                                                         *)
(* Classic protection is [st, checks, reviews], reviews the set of its     *)
(* pull request settings (none or one); a ruleset has the targets its      *)
(* conditions include and exclude, and the same two kinds of rule.         *)
(***************************************************************************)
EXTENDS Naturals, Sequences, FiniteSets, SequencesExt

CONSTANTS
    RulesetPage,  \* bound: rulesets on a page of GitHub's answer
    RulesetCap    \* bound: pages usabl reads

ASSUME RulesetAssumption == RulesetPage \in Nat \ {0} /\ RulesetCap \in Nat \ {0}

Answer(b) == IF b THEN "yes" ELSE "no"
NotANumber == 99

\* isRequiredCheckPresent, isCodeOwnerReviewRequired, isApprovalRequired and
\* isStaleReviewDismissed, over the settings either source may hold: no
\* settings is a no, a field of another type is unknown.
ApprovalCount(review) == IF review.count = NotANumber THEN "unknown" ELSE Answer(review.count >= 1)
Part(part, review) ==
  CASE part = "owners"   -> Answer(review.owners)
    [] part = "approval" -> ApprovalCount(review)
    [] part = "stale"    -> review.dismiss

\* One that confirms is enough; one that cannot be read leaves the rest unknown.
OfAny(answers) ==
  IF "yes" \in answers THEN "yes" ELSE IF "unknown" \in answers THEN "unknown" ELSE "no"

Requires(part, rules) ==
  IF part = "check" THEN Answer(rules.checks) ELSE OfAny({Part(part, r) : r \in rules.reviews})

Parts == {"check", "owners", "approval", "stale"}

-----------------------------------------------------------------------------
(* ------------------------- classic protection -------------------------- *)

\* readClassicProtection: GitHub's own "Branch not protected" is an absence,
\* any other answer that is not the settings is no answer.
ReadClassic(settings, fails) ==
  IF "classic" \in fails THEN "unreadable" ELSE settings.classic.st

ClassicState(settings, fails, part) ==
  LET st == ReadClassic(settings, fails)
      answer == Requires(part, settings.classic)
  IN IF st # "read" THEN st
     ELSE CASE answer = "unknown" -> "unreadable"
            [] answer = "yes"     -> "present"
            [] OTHER              -> "absent"

-----------------------------------------------------------------------------
(* ------------------------------- rulesets ------------------------------ *)

\* refTargetMatchesProtected: a glob is not replicated, so it is unknown.
TargetMatch(token, defaultIsMain) ==
  CASE token \in {"~ALL", "main"}   -> "covers"
    [] token = "~DEFAULT_BRANCH"    -> IF defaultIsMain = "unknown" THEN "unknown"
                                       ELSE IF defaultIsMain = "yes" THEN "covers" ELSE "no"
    [] token = "glob"               -> "unknown"
    [] OTHER                        -> "no"

\* Mutant: the include list decides first.
ConditionIncludeFirst(ruleset, defaultIsMain) ==
  LET match(tokens) == {TargetMatch(t, defaultIsMain) : t \in tokens}
  IN IF ~ruleset.conditionsRead THEN "ambiguous"
     ELSE IF "covers" \in match(ruleset.include) THEN "covers"
     ELSE IF "covers" \in match(ruleset.exclude) THEN "no"
     ELSE "ambiguous"

\* conditionCoverage: exclusions first.
ConditionCoverage(ruleset, defaultIsMain) ==
  LET match(tokens) == {TargetMatch(t, defaultIsMain) : t \in tokens}
  IN IF ~ruleset.conditionsRead THEN "ambiguous"
     ELSE IF "covers" \in match(ruleset.exclude) THEN "no"
     ELSE IF "unknown" \in match(ruleset.exclude) THEN "ambiguous"
     ELSE IF "covers" \in match(ruleset.include) THEN "covers"
     ELSE IF "unknown" \in match(ruleset.include) THEN "ambiguous"
     ELSE "no"

\* isRulesetShape, and the enforcement and target both the list and the body name.
Active(ruleset) == ruleset.enforcement = "active" /\ ruleset.target = "branch"

RulesetCoverage(ruleset, part, defaultIsMain) ==
  LET required == Requires(part, ruleset)
      coverage == ConditionCoverage(ruleset, defaultIsMain)
  IN IF ~Active(ruleset) \/ required = "no" THEN "no"
     ELSE IF required = "unknown" /\ coverage # "no" THEN "ambiguous"
     ELSE coverage

\* listAllRulesets and readActiveRulesetBodies: every page to a short one, and
\* the body of every active branch ruleset; anything unread is not an absence.
Listed(settings, fails) ==
  "list" \notin fails /\ Len(settings.rulesets) < RulesetPage * RulesetCap
BodiesRead(settings, fails) ==
  \A i \in DOMAIN settings.rulesets :
    LET r == settings.rulesets[i]
    IN Active(r) => "detail" \notin fails /\ r.shaped

\* readDefaultIsMain, only when some ruleset names the default branch.
DefaultIsMain(settings, fails) ==
  LET asked == \E i \in DOMAIN settings.rulesets :
                 /\ Active(settings.rulesets[i])
                 /\ "~DEFAULT_BRANCH" \in settings.rulesets[i].include \cup settings.rulesets[i].exclude
  IN IF asked /\ "repo" \notin fails THEN Answer(settings.defaultIsMain) ELSE "unknown"

FindRuleset(settings, fails, part) ==
  LET coverages == {RulesetCoverage(r, part, DefaultIsMain(settings, fails)) : r \in ToSet(settings.rulesets)}
  IN IF ~Listed(settings, fails) \/ ~BodiesRead(settings, fails) THEN "unreadable"
     ELSE IF "covers" \in coverages THEN "present"
     ELSE IF "ambiguous" \in coverages THEN "ambiguous"
     ELSE "absent"

-----------------------------------------------------------------------------
(* ------------------------------ the verdict ---------------------------- *)

RequirementState(classic, ruleset) ==
  IF "present" \in {classic, ruleset} THEN "present"
  ELSE IF "unreadable" \in {classic, ruleset} THEN "unreadable"
  ELSE ruleset

\* Rulesets are not read when classic protection confirms every part.
VerifyBranchRule(settings, fails) ==
  LET classic == [p \in Parts |-> ClassicState(settings, fails, p)]
      state == [p \in Parts |->
                  IF classic[p] = "present" THEN "present"
                  ELSE RequirementState(classic[p], FindRuleset(settings, fails, p))]
  IN CASE \A p \in Parts : state[p] = "present" -> "verified"
       [] \E p \in Parts : state[p] = "absent"  -> "not-applied"
       [] OTHER                                 -> "cannot-verify"
=============================================================================
