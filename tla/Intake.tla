------------------------------- MODULE Intake -------------------------------
(***************************************************************************)
(* Design requirements: how intake reads them (intake/load.ts and the      *)
(* units under it), how a run and a page check wire them into providers    *)
(* (providers/core-stack.ts), and what a verdict then says of them.        *)
(*                                                                         *)
(* A run reads the requirements twice: buildDeps loads the bundle its      *)
(* providers are made from, and run() loads it again to decide whether to  *)
(* scan at all.  Between the two, and between either and the guard, the    *)
(* working tree may be edited, and a read may fail.  checkPage reads the   *)
(* working tree on its own.  A run and a page check share no state, and a  *)
(* behaviour has one of them.                                              *)
(*                                                                         *)
(* The core providers are left out: every barrier here is a requirement's. *)
(***************************************************************************)
EXTENDS Naturals, FiniteSets, Sequences

CONSTANTS
    Ids,          \* the ids of surfaces and requirements
    Asks,         \* what an assertion asks of a screen
    Repos,        \* what a commit or a working tree may hold
    Apps,         \* the applications checked: how each assertion comes out
    Routes,       \* the screens of the route manifest
    DocsPages,    \* the pages of the docs manifest
    Labels,       \* the ids a caller may give checkPage
    Unlabeled,    \* a page check without screenId
    NoConfig,     \* no usabl.config.json
    Garbled,      \* a usabl.config.json of the wrong shape
    MaxTroubles   \* bound: edits of the tree and failed reads

\* validateId.  An id is its text, as a reader sees it spelled, and what the grammar
\* finds in it: plain, empty, with a character that does not show, or not in
\* normal form.
UsableId(id) == id.form = "plain"

Kinds == {"content", "flow", "doc"}

Entry == [id : Ids, surface : Ids, kind : Kinds, asserts : Kinds, asks : Asks]

Config == [root : {"none", "unanchored", "dir"}, surfaces : Seq(Ids)]

Excuse == [id : Ids, surface : Ids]

Repository == [config  : Config \cup {NoConfig, Garbled},
               files   : Seq([shaped : BOOLEAN, entries : Seq(Entry)]),
               excused : SUBSET Excuse]

ASSUME IntakeAssumption ==
    /\ \A a, b \in Ids : UsableId(a) /\ UsableId(b) /\ a.text = b.text => a = b
    /\ Repos \subseteq Repository
    /\ NoConfig \notin Config /\ Garbled \notin Config
    /\ Apps \subseteq [Asks -> {"met", "unmet", "unsure", "thrown"}]
    /\ Routes \subseteq Ids /\ DocsPages \subseteq Ids
    /\ Unlabeled \notin Ids
    /\ MaxTroubles \in Nat

VARIABLES
    tree,       \* the working tree: config, requirement files and excuses
    trusted,    \* the same at the commit the run compares with
    app,        \* how each assertion comes out on the built application
    run,        \* one usabl run
    page,       \* one call of checkPage
    troubles    \* how many edits and failed reads there were

intakeVars == <<tree, trusted, app, run, page, troubles>>

-----------------------------------------------------------------------------
(* What the parsers accept.                                                *)

IsDocument(config) == config \notin {NoConfig, Garbled}

\* parseUsablConfig, with assertSurfaceIds over the whole list.
ConfigParses(config) ==
    /\ IsDocument(config)
    /\ \A i \in DOMAIN config.surfaces :
          /\ UsableId(config.surfaces[i])
          /\ \A j \in 1..(i - 1) : config.surfaces[i] # config.surfaces[j]

SurfaceIds(config) == {config.surfaces[i] : i \in DOMAIN config.surfaces}

\* requirementSchema: the id and the surface answer to the grammar, and the kind
\* is the assertion's.
EntryParses(r) == UsableId(r.id) /\ UsableId(r.surface) /\ r.kind = r.asserts

\* normalize and parseBundle on one YAML file.
FileParses(file) ==
    /\ file.shaped
    /\ file.entries # <<>>
    /\ \A i \in DOMAIN file.entries : EntryParses(file.entries[i])

\* Where an entry stands: the file, and the position in its list.
Sites(files) ==
    UNION {{f} \X (DOMAIN files[f].entries) : f \in DOMAIN files}

EntryAt(files, site) == files[site[1]].entries[site[2]]

\* Mutant: ids are compared within one file only.
RepeatsInFile(files) ==
    \E s, t \in Sites(files) : /\ s # t /\ s[1] = t[1]
                               /\ EntryAt(files, s).id = EntryAt(files, t).id

\* findDuplicateRequirementId, over every file at once.
RepeatsAnId(files) ==
    \E s, t \in Sites(files) : /\ s # t
                               /\ EntryAt(files, s).id = EntryAt(files, t).id

Refused == [ok |-> FALSE, entries |-> {}]

\* loadRequirements.  One bad file refuses the whole set.
LoadRequirements(root, files) ==
    IF root = "none"
    THEN [ok |-> TRUE, entries |-> {}]
    ELSE IF \/ root = "unanchored"
            \/ files = <<>>
            \/ \E f \in DOMAIN files : ~FileParses(files[f])
            \/ RepeatsAnId(files)
         THEN Refused
         ELSE [ok |-> TRUE, entries |-> {EntryAt(files, s) : s \in Sites(files)}]

\* The requirements a provider is made of; doc requirements are not checks.
Runtime(entries) == {r \in entries : r.asserts \in {"content", "flow"}}

\* knownSurfaceIds
KnownSurfaces(config) == SurfaceIds(config) \cup Routes

\* unknownSurfaceRequirementGaps
UnknownSurface(entries, known) == {r \in Runtime(entries) : r.surface \notin known}

\* What the providers of these entries say of one screen.  A flow whose
\* announcement cannot be judged is unsure; a provider that throws is a gap.
Outcomes(entries, screen, outcome) ==
    {r \in Runtime(entries) : r.surface = screen /\ app[r.asks] = outcome}

\* decideAccessibilityVerdict, the one precedence of the gate and of checkPage.
Decide(failure, unverified) ==
    IF failure THEN "regression" ELSE IF unverified THEN "not_covered" ELSE "verified"

-----------------------------------------------------------------------------
(* The run.                                                                *)

Active == run.step \notin {"start", "done"}

\* overlayRequirementsFs: with a trusted ref, the files are the ones it holds.
FilesRead == IF run.trusting THEN trusted.files ELSE tree.files

\* resolveIntakeConfig: a trusted config that cannot be read lends no root.
IntakeConfig ==
    IF ~run.trusting THEN run.config
    ELSE IF ConfigParses(trusted.config) THEN trusted.config
    ELSE [run.config EXCEPT !.root = "none"]

\* A load gives what the files say, or a read fails.  Without a root none is made.
Loads(root, bundle) ==
    \/ /\ bundle = LoadRequirements(root, FilesRead)
       /\ UNCHANGED troubles
    \/ /\ root # "none"
       /\ bundle = Refused
       /\ troubles < MaxTroubles
       /\ troubles' = troubles + 1

\* The command parses the config of the tree.  One that does not parse starts
\* no run.
RunStarts(trusting) ==
    /\ run.step = "start" /\ page.step = "start"
    /\ ConfigParses(tree.config)
    /\ run' = [run EXCEPT !.step = "parsed",
                          !.trusting = trusting,
                          !.config = tree.config]
    /\ UNCHANGED <<tree, trusted, app, page, troubles>>

\* buildDeps: the first load, and the providers made of it.
Builds ==
    /\ run.step = "parsed"
    /\ \E bundle \in {LoadRequirements(IntakeConfig.root, FilesRead), Refused} :
          /\ Loads(IntakeConfig.root, bundle)
          /\ run' = [run EXCEPT !.step = "built",
                                !.wired = bundle,
                                !.disturbed = @ \/ troubles' # troubles]
    /\ UNCHANGED <<tree, trusted, app, page>>

\* checkGuard.  The scope is the trusted config's, and a config that is no
\* document in both places counts as diverged.
DivergedPaths ==
    {p \in {"config", "files", "ledger"} :
        \/ p = "config" /\ (tree.config # trusted.config \/ ~IsDocument(tree.config))
        \/ /\ p = "files" /\ tree.files # trusted.files
           /\ IsDocument(trusted.config) /\ trusted.config.root # "none"
        \/ p = "ledger" /\ tree.excused # trusted.excused}

Guards ==
    /\ run.step = "built"
    /\ run' = [run EXCEPT !.step = "guarded", !.diverged = DivergedPaths]
    /\ UNCHANGED <<tree, trusted, app, page, troubles>>

\* scanConfigForCoverage
TrustsOwnConfig == "config" \notin run.diverged \/ ~run.trusting

Readable == TrustsOwnConfig \/ ConfigParses(trusted.config)

ScanConfig ==
    IF TrustsOwnConfig THEN run.config
    ELSE IF ConfigParses(trusted.config) THEN trusted.config
    ELSE [run.config EXCEPT !.surfaces = <<>>]

\* A config that could not be read plans no screen of the application.
Plannable ==
    IF Readable THEN KnownSurfaces(ScanConfig) \cup DocsPages ELSE DocsPages

\* run() up to the scan: the plan, then the second load.
Plans ==
    /\ run.step = "guarded"
    /\ \E bundle \in {LoadRequirements(ScanConfig.root, FilesRead), Refused},
          affected \in SUBSET Plannable :
          /\ Loads(ScanConfig.root, bundle)
          /\ run' = [run EXCEPT !.step = "planned",
                                !.loaded = bundle,
                                !.affected = affected,
                                !.disturbed = @ \/ troubles' # troubles]
    /\ UNCHANGED <<tree, trusted, app, page>>

Idle == Readable /\ run.affected = {}

CanScan == run.loaded.ok /\ ~Idle

\* checkRunner.scan on every affected screen, and markUnseenScreens.  A screen
\* that never rendered keeps no draft.
Scans ==
    /\ run.step = "planned"
    /\ \E seen \in IF CanScan THEN SUBSET run.affected ELSE {{}} :
          run' = [run EXCEPT !.step = "scanned", !.seen = seen]
    /\ UNCHANGED <<tree, trusted, app, page, troubles>>

PolicyUntrusted == run.diverged # {} \/ ~run.loaded.ok

\* readTrustFile: what the floor and the waivers excuse.
Ledger ==
    IF run.trusting THEN trusted.excused
    ELSE IF PolicyUntrusted THEN {} ELSE tree.excused

\* parseWaiver and parseEvidenceFloor on the surface of each entry.
LedgerParses == \A e \in Ledger : UsableId(e.surface)

\* readFloorOrEmpty, readWaiversOrEmpty
Excuses == IF LedgerParses THEN Ledger ELSE {}

Excused(r) == [id |-> r.id, surface |-> r.surface] \in Excuses

SeenWith(outcome) ==
    UNION {Outcomes(run.wired.entries, screen, outcome) : screen \in run.seen}

\* unknownSurfaceGapsForRun, on the bundle of the second load.
RunGaps ==
    IF CanScan
    THEN UnknownSurface(run.loaded.entries, KnownSurfaces(ScanConfig) \cup DocsPages)
    ELSE {}

Covered ==
    /\ Readable
    /\ run.loaded.ok
    /\ CanScan => run.seen = run.affected
    /\ SeenWith("thrown") = {}
    /\ RunGaps = {}

Accessibility ==
    IF Idle THEN "null"
    ELSE Decide(\E r \in SeenWith("unmet") : ~Excused(r),
                ~Covered \/ \E r \in SeenWith("unsure") : ~Excused(r))

\* The end of run(): a ledger that cannot be read and a run that saw no screen
\* at all give no verdict; else the gate does.
Judges ==
    /\ run.step = "scanned"
    /\ LET lost == CanScan /\ run.affected # {} /\ run.seen = {}
           fell == ~LedgerParses /\ ~PolicyUntrusted
           said == IF lost \/ fell THEN "null" ELSE Accessibility
       IN  run' = [run EXCEPT
               !.step = "done",
               !.accessibility = said,
               !.verdict = IF lost \/ fell THEN "null"
                           ELSE IF PolicyUntrusted THEN "approval_required"
                           ELSE said]
    /\ UNCHANGED <<tree, trusted, app, page, troubles>>

-----------------------------------------------------------------------------
(* The page check.                                                         *)

\* loadProjectIntake.  Without a config in it, a root is a gap only when the
\* caller named it.
ProjectIntake(repo, rootPassed, manifestReads) ==
    LET bundle == LoadRequirements(repo.config.root, repo.files)
        routes == IF manifestReads THEN Routes ELSE {}
    IN  IF repo.config = NoConfig
        THEN [ok |-> TRUE, entries |-> {}, gap |-> rootPassed, known |-> {}]
        ELSE IF ~ConfigParses(repo.config)
        THEN [ok |-> FALSE, entries |-> {}, gap |-> TRUE, known |-> {}]
        ELSE [ok      |-> bundle.ok,
              entries |-> bundle.entries,
              gap     |-> ~bundle.ok,
              known   |-> SurfaceIds(repo.config) \cup routes]

\* checkPage up to its first look at the page.  A label the grammar refuses
\* throws before anything is read.
PageReads(label, rootPassed, manifestReads) ==
    /\ page.step = "start" /\ run.step = "start"
    /\ label # Unlabeled => UsableId(label)
    /\ page' = [page EXCEPT
            !.step = "read",
            !.label = label,
            !.intake = ProjectIntake(tree, rootPassed, manifestReads)]
    /\ UNCHANGED <<tree, trusted, app, run, troubles>>

\* Mutant: a label nothing names puts every requirement out of scope.
LabelIsKnown(intake, label) == label # Unlabeled

\* A page is known when the project or a requirement names its label.
PageIsKnown(intake, label) ==
    /\ label # Unlabeled
    /\ \/ label \in intake.known
       \/ \E r \in Runtime(intake.entries) : r.surface = label

\* requirementGapsForPage
PageGaps(intake, label) ==
    IF PageIsKnown(intake, label)
    THEN UnknownSurface(intake.entries, intake.known \cup {label})
    ELSE Runtime(intake.entries)

\* Mutant: checkPage is given no provider for a flow.
ContentOnly(intake, label, outcome) ==
    IF label = Unlabeled THEN {}
    ELSE {r \in Outcomes(intake.entries, label, outcome) : r.asserts = "content"}

\* Providers are made only for a labeled page.
PageOutcomes(intake, label, outcome) ==
    IF label = Unlabeled THEN {} ELSE Outcomes(intake.entries, label, outcome)

\* summarizePageCheck
PageVerdict(intake, label, shown) ==
    Decide(shown /\ PageOutcomes(intake, label, "unmet") # {},
           \/ intake.gap
           \/ PageGaps(intake, label) # {}
           \/ ~shown
           \/ PageOutcomes(intake, label, "thrown") # {}
           \/ PageOutcomes(intake, label, "unsure") # {})

\* checkPage from the adopted page on.  The declared signal of a labeled screen
\* is measured before and after the checks; where it does not hold both times
\* the page was not seen and keeps no draft.
PageChecks(shown) ==
    /\ page.step = "read"
    /\ page.label = Unlabeled => shown
    /\ page' = [page EXCEPT
            !.step = "done",
            !.verdict = PageVerdict(page.intake, page.label, shown)]
    /\ UNCHANGED <<tree, trusted, app, run, troubles>>

-----------------------------------------------------------------------------
\* Someone edits the working tree.  A run with a trusted ref takes only the
\* config from there.
Edits(repo) ==
    /\ troubles < MaxTroubles
    /\ repo # tree
    /\ page.step = "start"
    /\ tree' = repo
    /\ troubles' = troubles + 1
    /\ run' = [run EXCEPT !.disturbed =
            @ \/ (Active /\ (run.trusting => repo.config # tree.config))]
    /\ UNCHANGED <<trusted, app, page>>

EmptyBundle == [ok |-> TRUE, entries |-> {}]

IntakeInit ==
    /\ tree \in Repos
    /\ trusted \in Repos
    /\ app \in Apps
    /\ run = [step |-> "start", trusting |-> FALSE, config |-> NoConfig,
              wired |-> EmptyBundle, diverged |-> {}, loaded |-> EmptyBundle,
              affected |-> {}, seen |-> {}, disturbed |-> FALSE,
              accessibility |-> "null", verdict |-> "null"]
    /\ page = [step |-> "start", label |-> Unlabeled,
               intake |-> [ok |-> TRUE, entries |-> {}, gap |-> FALSE, known |-> {}],
               verdict |-> "null"]
    /\ troubles = 0

IntakeNext ==
    \/ \E trusting \in BOOLEAN : RunStarts(trusting)
    \/ Builds \/ Guards \/ Plans \/ Scans \/ Judges
    \/ \E label \in Labels \cup {Unlabeled}, rootPassed, manifestReads \in BOOLEAN :
          PageReads(label, rootPassed, manifestReads)
    \/ \E shown \in BOOLEAN : PageChecks(shown)
    \/ \E repo \in Repos : Edits(repo)

IntakeSpec == IntakeInit /\ [][IntakeNext]_intakeVars

-----------------------------------------------------------------------------
Bundle == [ok : BOOLEAN, entries : SUBSET Entry]

RunVerdicts == {"null", "verified", "regression", "not_covered", "approval_required"}

\* Where a run and a page check stand, what each has read, and what each says.
IntakeTypeOK ==
    /\ tree \in Repos
    /\ trusted \in Repos
    /\ app \in Apps
    /\ run \in [step          : {"start", "parsed", "built", "guarded", "planned",
                                 "scanned", "done"},
                trusting      : BOOLEAN,
                config        : Config \cup {NoConfig, Garbled},
                wired         : Bundle,
                diverged      : SUBSET {"config", "files", "ledger"},
                loaded        : Bundle,
                affected      : SUBSET Ids,
                seen          : SUBSET Ids,
                disturbed     : BOOLEAN,
                accessibility : RunVerdicts,
                verdict       : RunVerdicts]
    /\ page \in [step    : {"start", "read", "done"},
                 label   : Labels \cup {Unlabeled},
                 intake  : [ok : BOOLEAN, entries : SUBSET Entry,
                            gap : BOOLEAN, known : SUBSET Ids],
                 verdict : RunVerdicts]
    /\ troubles \in Nat

TrustedBundle == LoadRequirements(trusted.config.root, trusted.files)

\* A run that nothing disturbed says verified only of the committed policy, and
\* only when that policy is met: its config parses and its requirements load,
\* each of them names a screen some run plans, no two read as one identity, and
\* on every screen this run planned each holds or is excused at the trusted
\* commit.  A branch can therefore not pass by editing what it is judged by
\* (the headers of intake/load.ts, requirement-ids.ts and trusted-config.ts).
VerifiedMeansMet ==
    run.verdict = "verified" /\ ~run.disturbed =>
        /\ ConfigParses(trusted.config)
        /\ TrustedBundle.ok
        /\ \A r \in Runtime(TrustedBundle.entries) :
              /\ r.surface \in KnownSurfaces(trusted.config) \cup DocsPages
              /\ \A s \in TrustedBundle.entries : s.id.text = r.id.text => s = r
              /\ r.surface \in run.affected =>
                    \/ app[r.asks] = "met"
                    \/ /\ app[r.asks] \in {"unmet", "unsure"}
                       /\ [id |-> r.id, surface |-> r.surface] \in trusted.excused

\* The page check never says verified of a requirement nothing checked
\* (surfaces/playwright-helper.ts: "so the helper cannot return verified for a
\* requirement it never checked"): the project it read loads whole, and each
\* requirement is met on this page or is about another screen the project names.
PageAccountsForAll ==
    page.verdict = "verified" /\ tree.config # NoConfig =>
        LET bundle == LoadRequirements(tree.config.root, tree.files) IN
        /\ ConfigParses(tree.config)
        /\ bundle.ok
        /\ \A r \in Runtime(bundle.entries) :
              /\ page.label # Unlabeled
              /\ IF r.surface = page.label
                 THEN app[r.asks] = "met"
                 ELSE /\ r.surface \in KnownSurfaces(tree.config)
                      /\ \/ page.label \in KnownSurfaces(tree.config)
                         \/ \E s \in Runtime(bundle.entries) : s.surface = page.label

\* A page cannot pass checkPage and regress in a run, or the reverse, over the
\* same policy (providers/core-stack.ts): on a screen the run saw the same
\* requirements fail, and what the run could not match to a screen the page
\* check cannot either, whether or not it can read the route manifest.
PageAgreesWithRun ==
    run.step = "done" /\ ~run.disturbed /\ run.diverged = {} =>
        \A label \in run.seen, manifestReads \in BOOLEAN :
            LET intake == ProjectIntake(trusted, TRUE, manifestReads) IN
            /\ PageOutcomes(intake, label, "unmet") =
                   {r \in SeenWith("unmet") : r.surface = label}
            /\ RunGaps \subseteq PageGaps(intake, label)

\* docs/ground-truth.md: "Any loader failure stops every scan", so that "the
\* accessibility half of the Result reads not_covered rather than verified".
LoaderFailureIsNotVerified ==
    ~run.wired.ok \/ ~run.loaded.ok => run.accessibility # "verified"
=============================================================================
