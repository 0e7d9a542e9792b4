# usabl: TLA+ models, checks and proofs

usabl scans the screens a change affects for accessibility barriers and answers
`verified`, `unverified` or `regression`. It compares what it finds with a
committed *evidence floor* (the debt a team has accepted), so its value rests on
one thing: a green answer must mean what it says, through stale floors, late
history records, edited policies, half-rendered pages, racing sessions and
browsers that die. The modules here state that and check it.

Source paths below are relative to `src/src/` unless they start with `src/docs`.

## 1. The system

| Component | State it keeps | Operations | Correct when |
|---|---|---|---|
| gate (`gate/`) | none, a pure function | drafts, floor, waivers, coverage to a verdict | finding more never gives a greener answer; advice decides nothing |
| identity (`primitives/identity.ts`) | the version of the floor picks the scheme | key of a draft | a floor is compared with the keys it was written with |
| floor writers (`baseline/`, `floor/`) | `.usabl-evidence.json` | `baseline`, `floor prune` | nothing is accepted that nobody accepted; accepted debt does not block; writing and judging agree |
| debt tracking (`history/track.ts`) | none, a fold over records | follow one identity | accepted debt falls only on two agreeing scans, never rises above the floor |
| debt history (`history/`) | records on a branch | record, append, read, apply | only scans of the base and older lower what a run accepts |
| history branch (`install/history-ci.ts`, `history/append.ts`, `history/git.ts`) | `usabl/history` | fetch, append, push, retry | an append-only log; success means recorded |
| run (`run.ts`) | none | coverage, scan, policy, gate, receipt | what it reads at different moments is consistent |
| guard (`trust/guard.ts`) | none | compare guarded files with a ref, pin them | policy edits are never judged by themselves |
| receipt (`evidence/receipt.ts`) | `.usabl/receipt.json` | mint, verify | a receipt answers only for what a run judged |
| Stop hook (`surfaces/stop-hook*.ts`, `session-pin-store.ts`) | pins per session, bypass file | one process per stop | blocks once, never traps, verifies under the pinned policy |
| overlay (`surfaces/overlay-*.ts`, bundler plugins) | result cache, wave, panels | read, invalidate, push, render | readers see the save they ask about; panels catch up and never go back |
| shared browser (`deps/real.ts`) | one Chromium process | open, launch, discard, close | no orphan, no wrong sandbox, every open settles |
| screen scan (`providers/check-runner.ts`, `reachability.ts`, `redirected.ts`) | one page | open, settle, walk, check, re-read, close | a page that was not the screen leaves no evidence |
| coverage planner (`coverage/`) | none; the committed sidecar `usabl.routes.json` | router, sidecar, imports, aliases, workspaces to screens and gaps | every screen a change can alter is scanned or named as a gap |
| docs coverage (`coverage/docs-*.ts`, `asciidoc-include-graph.ts`) | `usabl.docs.json` | includes to pages and gaps | every page a change is part of is scanned or named |
| init and drift (`init/`, `drift/`) | the drafts they write | draft config, routes and docs; compare sidecar and router | a draft invents nothing; exit 0 means the list is whole |
| gate workflow (`install/ci.ts`, `build-run.ts`, `artifact-fetch.ts`) | job outputs, artifacts | six jobs per run, on pushes and reviews | green is about this pull request, whatever was lost or run again |
| judge (`judge/`) | the unpacked build | fetch, unpack, serve, filter | the pages scanned are the build's, and nothing gets out unreported |
| policy enforcement (`surfaces/policy-enforce.ts`) | none | reviews to an exit code | an owner approved this head, and still does |
| branch rule and doctor (`install/branch-rule.ts`, `doctor/`) | none | GitHub's settings, CODEOWNERS and the workflow to a state | `wired` means a pull request cannot merge around the gate |
| sign-in (`session/`, `deps/session.ts`) | `.usabl/session/storage-state.json` | sign in, look at the ignore rules, write and rename; resolve, open | what is saved is whole and cannot be committed; nobody scans with a session the code under review left; doctor and the run agree |
| intake (`intake/`, `surfaces/playwright-helper.ts`) | none; the requirement files and `usabl.config.json` | parse, load, wire into providers, load again, judge; a page check | verified is about every requirement of the committed policy; a page check and a run agree |
| output, installers of hooks and overlay, voicing, measurement | files and text | one-shot | see `PROJECT.json` for why each is left out |

How they interact. A **run** plans coverage, opens each screen in a **browser**,
reads the **floor** and waivers (the working tree's, or the trusted ref's in
CI), lets the **history** lower the floor, asks the **gate**, and on `verified`
mints a **receipt**. The **Stop hook** wraps a run with the bypass, the
**guard**, the session **pins** and the stored receipt. The **overlay** wraps
runs with a cache and a warm browser. **Baseline** and **prune** use the same
run to write the next floor. On a pull request the **gate workflow** builds the
app, the **judge** serves that build to a run in an isolated browser, **policy
enforcement** asks the reviews, and one required job decides. CI scans of main become **records** on the history
**branch**, which later runs read back.

What is hard: two hooks or two CI jobs beside each other; state read before an
`await` and used after it (bypass, receipt, pins, current browser); records that
arrive late, twice or never; a page drawn only in part, or one that
redirects while it is read; floor versions with other keys; a close in the
middle of a launch; sources whose shape a reader was not written for; a review
judged on a build another run made. `PROJECT.json` lists each hazard at its
line with the properties aimed at it.

## 2. The modules

| Module | Models | State and actions |
|---|---|---|
| `AcceptedDebt` | what tracking promises of one identity | `level`, `revoked`; `LowerTo`, `Revoke` |
| `DebtFold` | `follow` of `history/track.ts` as operators | none |
| `DebtTrack` | the fold as a state machine | `obs` (the history), `track`; `Observe` |
| `DebtHistory` | records of main scans and the floor a base is judged by | `main`, scans, branch; merges, baseline, prune, `ScanMain`, `AppendRecord`, `AppendAgain` |
| `RecordLog` | what the branch promises its readers | `log`, `acked`; `Deliver`, `Close` |
| `HistoryBranch` | append job, push loop, git refs | one step per command of the shell loop, and the faults |
| `DebtRecord_proofs` | proofs about `DebtTrack` and `HistoryBranch`, the two ends of debt tracking | |
| `Gate` | `gate/index.ts`, identity schemes, verdict ranking, as operators | none |
| `GateOrder` | what `runCore` makes of its scans for the gate, and how the answer moves when a run sees more, or less | `report`, what the scans of one run found, met and lost; one action per thing that can happen around it; `Input` is the gate's input of it |
| `Intake` | requirements from their files to a verdict, in a run and in a page check | `tree`, `trusted`, `app`, `run`, `page`; `RunStarts`, `Builds`, `Guards`, `Plans`, `Scans`, `Judges`, `PageReads`, `PageChecks`, and edits |
| `Verdict_proofs` | proofs about `GateOrder`, `DebtHistory` and `Intake`, what a verdict is made of | |
| `FloorRatchet` | floor over time: application, tree, trusted ref | `standing`, `tree`, `committed`, `dirty`; `FloorPrune`, `Baseline`, `PartialBaseline`, and what people do |
| `FloorRatchet_proofs` | proofs | |
| `StopHook` | stops of several sessions | repository, receipt, pins, bypass, a program counter per hook; one action per await of `runStopHook` |
| `StopHook_proofs` | proofs | |
| `OverlayRefresh` | cache, wave, warm browser, panels | server state, `runs`, `panel`; one action per callback |
| `SharedBrowser` | `makeSharedBrowser` | `process`, `current`, `launching`, `closing`, `open`; one action per continuation |
| `Overlay_proofs` | proofs about `OverlayRefresh` and `SharedBrowser`, the two halves of `usabl dev` | |
| `PageReadiness` | a page that goes on changing and the wait that decides it has rendered | `dom`, `net`, `wait`; the application's requests, navigations and workers, and one action per sample |
| `AxeFrames` | an axe run over frames that come and go | `tree`, `axe` |
| `KeyboardWalk` | the Tab walk over a focus order | `keys` |
| `JudgedPage` | the traffic of a page in the judge's browser and what the browser reports of it | `judged` |
| `SignIn` | `usabl session`, the choice of a run's session, doctor's report of it | `saved`, `named`, `git`, `signing`, `use`; one action per await of `runSession`, `Resolve`, and what people, time and the head's code do |
| `SignedScan` | a run that resolves its session and then scans; composes `SignIn` and `ScreenScan` | `BeginRun`, `BeginFails`, `BeginPage` |
| `SignedScan_proofs` | proofs about the session and about the scan it is used for | |
| `ScreenScan` | one screen from `openPage` to the record the gate gets; composes the four above | `scan`, with one action per read of the page |
| `RouteBook` | the route reader of `coverage/router-parse.ts` and what React Router serves from the same source, both as descents over positions; sidecar, manifest, `drift routes`, the draft of `init` | none |
| `ImportGraph` | imports and aliases, and what a bundler loads; workspace packages and dependency changes, and what the package manager links | none |
| `DocsPlan` | includes, docs manifest, pages of a change, and what AsciiDoc composes | none |
| `Coverage` | a repository over edits, drafts, drift and a merge; composes the three above | `base`, `tree`, `touched`, `plan`, `drift`; one action per command and per kind of edit |
| `Coverage_proofs` | proofs about the planner, the route reader and the import graph | |
| `PolicyRule` | guard at two commits, CODEOWNERS, reviews, the decision | none |
| `BranchRule` | what `verifyBranchRule` concludes | none |
| `BuildArchive` | fetcher, tar reader, static server | none |
| `GateRun` | one run of the gate workflow, as functions on a run | none |
| `PullRequest` | pull requests, reviews and runs beside each other; composes the gate's parts | `prs`, `main`, `reviews`, `events`, `runs`; one action per job step, and per fault |
| `Wiring` | what has to be set up, what doctor says of it, and a merge under GitHub's rules | `site`, `report`, `change`, `approvals`, `check` |
| `PullRequest_proofs` | proofs about both | |
| `MC*` | instances for TLC | |

`DebtHistory` and `DebtTrack` extend `DebtFold`; `GateOrder` and `FloorRatchet`
extend `Gate`. `DebtTrack` is shown to implement `AcceptedDebt` (`PromiseKept`)
and `HistoryBranch` to implement `RecordLog` (`LogKept`), both by
`INSTANCE ... WITH` a refinement mapping. `ScreenScan` extends the four parts of
a page, `SignedScan` extends it and `SignIn`, `Coverage` the three readers, `MCGateOrder` puts the gate beside the two parts that feed it (`DebtHistory`, `Intake`), `PullRequest` extends `GateRun` (which
extends `PolicyRule` and `BuildArchive`), and `Wiring` extends `PolicyRule` and
`BranchRule`.

Abstractions, and why they keep what matters:

- **Counts and keys.** A barrier is a *spot*; its identities are constant
  functions (`LegacyKey`, `RowKey`), so collapsing and splitting keys is modelled
  and text is not. A floor entry has a count; `spots` in `FloorRatchet` is a
  history variable, the barriers a person accepted, used by properties only.
- **Views.** A run is what it met: per screen *whole*, *shell* (rendered without
  its content), *gapped*, *unseen* or *out* of the plan, and which flickering
  spots were missing. Runs change nothing, so properties quantify over views.
- **Policies.** All guarded files are one value in `StopHook`; *diverged* is a
  comparison of values, as `checkGuard` compares bytes.
- **Commits of the branch** are the chains of entries they hold, so a fast
  forward is a prefix test, and an entry names job, run and attempt because a
  commit made again is another commit.
- **Results of the overlay** are the number of the last save the run measured.
- **Sources are trees.** A router module is a tree of nodes, each at its position
  (`nodes` is a function on positions, so a reader is one function on the prefixes of
  a position and not a recursion over children); `WellFormed` says which modules an
  author can write. A document is a sequence of lines, an import a kind and a base. A reader is judged against what
  the framework makes of the same tree (`Serves`, `Loads`, `LinkedOn`,
  `Composes`: external definitions). Tokens, comments and the syntax that a
  reader refuses whole are one shape each.
- **A page** shows one of a few things (the declared screen, something else, a
  sign-in form), and its requests, frames, focus order and workers move one part
  at a time (`world.restless`), which is what each rule reads.
- **A storage state** is whether its cookies are live, past or undated and what
  else it holds; a file is that, what kind of file it is, who may read it and who
  left it. A clock is the step in which live cookies become past. Once a screen is
  open nothing reads the session files again, so the model forgets them there.
- **Bytes are who built them.** A build is the pull request, head and base it was
  made of, so a page judged says whose it is, and two builds of one commit
  differ.
- **GitHub's settings** keep what `verifyBranchRule` reads; what they do
  (`InForce`, `Merge`) is GitHub's documented behaviour, external.
- **`deps/git`, GitHub, Chromium, the watcher and people** are not the code; their
  actions are marked external in the map.

Atomicity follows the event loop: code between two awaits is one action, and
each shell command of the append job is one action. `baseline` and `prune` are
one action each (they run by hand and alone); that hides an edit of the floor
file during the minutes they scan, a hazard listed without a property.

## 3. The runs

What differs between the situations of a component (a concurrency group or not,
a quiet repository or a busy one, a mortal browser or not, which part of a page
or of a repository moves) is a variable chosen once by `Init` (`world`, `quiet`,
`hot`, `mortal`, `area`, `moves`, the start of `PullRequest`), and a property that needs
one of them says so. One run then covers them all. Deadlock checking is off
where the bounds of the model end a behaviour (histories, saves, commits, merged
pull requests) and on where the system may always go on.

| Run | Instance | Shows |
|---|---|---|
| `debt_record` | the fold: floor count 2, counts to 3, two trees, 5 observations; the branch: 2 jobs, 2 turns of the loop, 2 starts, inside the concurrency group or not, with faults or not, with hand pushes or not | `IntermittentExactly`: the fold concludes exactly what the observations support; `PromiseKept`: it implements `AcceptedDebt`; `LogKept`: the branch implements `RecordLog`, so success means recorded; without faults `EveryRacerSucceeds` |
| `gate_order` | the gate: 3 spots and 3 keys on 2 screens, one with a readiness signal, counts to 2, versions 1-3, one waiver, two days, two losses (a screen unseen, a scan failed, a provider failed); the history: 3 versions of the code, 2 commits, 3 scans, pages that draw less than the code has or not, records appended twice or not; intake: 12 repositories, 5 applications, 4 page labels, one edit or failed read | `NothingTurnsGreen`: no step makes a run verified that was not, and a regression goes only with the screen it stood on; `StepsDoNoMore`: advice moves no verdict and at most confirms a fix, a fix the history confirmed only takes away; `TwoScansConfirm`, `UnfixedDebtIsKept`; `VerifiedMeansMet`, `PageAccountsForAll`, `PageAgreesWithRun` |
| `intake_load` | the same | a counterexample of `LoaderFailureIsNotVerified` |
| `floor_ratchet` | a row control, two look-alikes and a counted control on two screens; the first declares a readiness signal; a first floor of version 1, 2 or 3; a control some scans of an unchanged page miss, or none | `DebtIsAccepted`, `AcceptedNeverBlocks`, `FixedMeansGone`, `LocalGreenIsReal`; `WrittenFloorSettles`: prune drops only what the gate calls paid down, baseline leaves a scan no room |
| `floor_migration` | the same, and no screen declares a signal | a counterexample of `AcceptedNeverBlocks` |
| `stop_hook` | 1 session, 1 screen, 2 policies, history moves once; a repository that is quiet while a hook runs or busy | quiet: `VerifiedWasJudged`, `VerifiedUnderPins`; both: `PinsAreTheBaseline` |
| `overlay` | 2 panels, 1 save, 1 "Check again", either channel, a shutdown at any moment | `ReaderSeesTheSave`, `PanelNeverGoesBack`; on the bundler's channel `PanelCatchesUp` |
| `browser` | an open of each sandbox policy, 3 processes; processes that may die or not, a close at any moment | `NoOrphan`, `HealthyIsKept`, `EveryOpenSettles` |
| `screen_scan` | 2 sign-ins, 2 edits, 6 files to find at the saved path and 5 the variable names, a desk or a runner; then 1 screen, 3 providers, 2 data addresses, 3 frames, 2 controls, 2 moves of the part of the page that is restless | `SessionIsVouched`, `DoctorAgrees`; `CleanIsWhole`, `ExpiredMeasuresNothing`, `KeptWasThere`, `ScanEnds` |
| `coverage` | every router of two levels over 7 paths, and pairs of routers; 6 files and one the author adds, imports of 4 kinds and 6 written forms, names with a dot; 2 packages; 3 documents; 2 edits and a merge | `RouterIsRead`: each route is read or named, and none invented; `DriftZeroIsWhole`, `ImportersAreSeen`, `ShellReachesEveryScreen`, `NothingUnlinked`, `PagesAreSeen` |
| `pull_request` | 2 pull requests, 2 heads, 2 bases, 3 runs, one review to a page; two that share a head, a base that moves, one with a fault and a re-run, three reviewed in other ways; a branch under some thirty settings, 6 CODEOWNERS and 3 workflows | `PassIsOfThisPullRequest`, `GreenFollowsReviews`, `WiredMeansGuarded` |

Type invariants are stated in every module with a machine of its own (`TypeOK`);
those of `DebtTrack`, `GateOrder`, `Intake` and `StopHook` are theorems, and the proofs about
the other machines state the types they need.

Why the bounds are enough. The fold's shortest interesting history is a reading,
a contradiction on the same tree after a release, and a recovery (4
observations; 5 are checked, and the proofs cover every length). Racing writers
interact in pairs: a job loses a turn to one other job's push, so two jobs need
two turns and each further racer one more. For the debt history a base and one newer
commit are enough for a record that is too new, and three scans for a release
and a contradiction after it. The gate's rules involve at most two spots under
one key and one key next to it; only the key two controls share starts with a
floor count other than one, for the other two tally one barrier at most. Two
losses are what it takes to lose both screens, and so the run its answer. The two loads of a run differ after one edit or one
failed read, and the repositories hold each shape a parser tells apart, alone: a
second one in the same repository is refused for the first. In `stop_hook` the hook of one session meets its
own earlier receipts and pins, which is what another session would leave there;
that the properties hold with any number of hooks at one moment is proved
(section 4). In
`overlay` one save is enough for a run, a cached result and a panel's request
from before it to meet a reader from after it, and two panels for two runs of
different generations at once. An open of the browser interacts with one process
it lost, one that replaced it and one after that. Every bound is a named constant
or definition of its module; the history of a busy repository stays where it is
(`HistoryBound`).

In `screen_scan` a redirect, a refusal or a lost frame needs one move to come and
one to go; the sample window is two samples, so settling and unsettling both
happen, and the cap is reached. A sign-in is disturbed by one edit before its
second look and one after it, or by another sign-in's rename; a saved file goes
stale by time and is replaced, two edits. In `coverage` the second edit is the one that
meets what the first left behind (a sidecar drafted before a route was added, a
package unlinked in the change that edits it); five of its six
properties are proved for routers, graphs and packages of any size. In `pull_request` a review run
needs one finished push run to find and one that is not its own, hence three
runs; one review to a page makes the second review a second page.

Three runs end in a counterexample, a disagreement between a statement of the
repository and its code:

- `browser_close`. "Once closed, stays closed" (`deps/real.ts:2529`), but an open
  awaiting `discard` launches a process after close.
- `floor_migration`. "A floor is compared with the keys it was written with"
  (`src/docs/ground-truth.md:1980`), but `usabl baseline` carries the entries it
  could not confirm into version 3 with the keys they had (`baseline/index.ts:457`).
  A version 2 floor holds one collapsed key for the rows of a table; if every scan
  draws that screen as a shell, the entry is carried, and in CI the row barrier it
  accepted is looked up under its row key and blocks as new. A screen that
  declares `reachedWhen` is a gap when it is only a shell, and then nothing goes
  wrong: the proofs name that hypothesis (`KeyedRowsSignalled`), which the docs ask
  of screens with keyed tables without saying that this depends on it.

- `intake_load`. "Any loader failure stops every scan", so that the accessibility
  half reads `not_covered` rather than `verified` (`src/docs/ground-truth.md:3366`).
  `buildDeps` loads the requirements to make the providers (`deps/build.ts:262`) and
  `run()` loads them again to say whether they can be trusted (`run.ts:130`). When
  only the first load fails, the providers are the core stack's and nobody is told:
  the counterexample is a failed read, a good one, and `verified` with a requirement
  that was never checked. `VerifiedMeansMet` therefore speaks of runs nothing disturbed.

Further disagreements were met, and the models show where they come from without
a run of their own:

- a record appended again after a lost push answer counts as a second scan
  (`TwoScansConfirm` asks for no redelivery);
- a floor that returns to an earlier content takes up that content's records
  (`Applies` compares floors by content, as `floorHashOf` does, while
  `history/track.ts:22` speaks of a new history);
- a requirement on a docs page is in scope of a run and a gap in a page check, which
  never reads the docs manifest, while `src/docs/ground-truth.md:3343` says that
  `checkPage` applies the same rule (`PageAgreesWithRun` asks for one direction);
- `requirements: ""` loads as a failure that names no path, so the run is
  `not_covered` and never `approval_required` (not modelled);
- a receipt minted after a scan binds a tree edited meanwhile (`run.ts:271`;
  `VerifiedWasJudged` is about a quiet repository);
- an overlay run that starts after close makes a browser nobody closes
  (`surfaces/overlay-host.ts:802`);
- prune with a walked control that flickers drops accepted debt
  (`AcceptedNeverBlocks` asks for a page that stands still);
- `coverage/workspace-packages.ts:361` says a link cannot be removed in the change
  that edits the package; a `!folder` pattern or a deleted package.json does
  (`NothingUnlinked` asks that the tree still lists the app and every package of the
  link, with a package.json and the name it had);
- the import reader takes one line of `import ... from`, and `import(...)`. An import
  over several lines, an `export ... from` and an import for its effect are not read
  (`coverage/import-graph.ts:37` says so of the first and calls it safer), and a name
  with a dot stands for that very file only (`:110`), so `./part.js` written for
  part.ts and `./part.utils` for part.utils.ts come to nothing. A screen that renders
  a changed file through such an import is passed over in silence when another
  screen owns the file, although `:132` says that an import "never leaves out one
  that does" render it, of the ambiguous ones; with no owner the file is a gap
  (`ImportersAreSeen` asks just for that of imports that are not read);
- an alias that does not start with `@/` or `~/` and is in neither config as usabl
  reads it "stays unresolved (disclosed)" (`coverage/alias-config.ts:254`), but
  `buildImportGraph` takes it for a package and says nothing
  (`coverage/import-graph.ts:204`);
- an import in a comment is followed, while `src/docs/ground-truth.md:1225` speaks of
  comments being stripped: it only adds screens;
- "Preview and model-judgment findings stay on the Result for humans" and cannot move
  the verdict (`gate/index.ts:6`). They cannot, but `renderEvidenceOf` takes the
  elements of every draft (`gate/index.ts:437`), so advice about an element can turn
  a floored barrier that was absent and unconfirmed into `fixed`, which prune may then
  drop (`StepsDoNoMore` says that this is all it can do);
- a screen that is not seen takes its failures with it, on purpose
  (`coverage/unseen.ts:28`): a run that was a regression is `not_covered`, or has no
  verdict when it saw no screen at all (`run.ts:210`), never `verified`
  (`NothingTurnsGreen`);
- `drift routes` answers 0 though the router serves a route whose id it cannot
  use (`DriftZeroIsWhole` leaves `Unusable` out);
- `asciidoc-include-graph.ts` says it over-approximates, but an attribute set
  twice drops the earlier include, and a comment block is closed by a delimiter
  of another length (`PagesAreSeen` asks for `OneValue` and `OneDelimiter`);
- `init` drafts two routes with one id ("/a/b" and "/a-b"), which
  `parseRouteManifest` then refuses;
- the JSX reader takes the `element` of a route a spread may replace, and drops
  `index={...}` and spread children without naming them; two attributes with the
  same text share the id an acknowledgement names, and an acknowledged constant
  keeps its id when its list changes; the spreads of the instances are over
  paths only, and none of the rest occurs in them;
- in the planner, an override's URL is lost when its screen is already queued; a
  surface's file that is also a route's leaves the surface out; and imports that
  did not resolve are not reported for a file that maps to another route;
- doctor reads `/docs/` in `guardedPaths` as covering `docs`, while the guard asks
  git for `/docs`; entries that are not strings are dropped by doctor and refuse
  the config in the guard;
- re-running only the failed jobs keeps a policy answer given before later
  reviews (`GreenFollowsReviews` leaves such a run out), and a review submitted
  while the head's build is still running fails closed, its red check the newest
  until somebody runs it again;
- a review that was dismissed is ignored, so an older approval by the same person
  counts again; two pull requests with one head share the check GitHub shows;
- doctor calls a session drifted when others can read the file, or when git could
  take the file the variable names, and the next run accepts both, the first with
  a warning, while `doctor/index.ts:258` says it must "never call one drifted that
  the next run will accept" (`DoctorAgrees` leaves these two out);
- `usabl session` refuses a state that holds only stored credentials as no
  session (`session/index.ts:137`), though `isStorageStateExpired` counts them as
  something that could sign in; JSON that is no storage state passes `resolve` and
  doctor, and becomes a gap when the browser refuses it;
- `verifyBranchRule` asks neither for branches that are up to date nor for rules
  that bind administrators: a check that passed before the gate workflow was
  changed on main still counts (`Wiring` sets the gate up before the first run).

### Fairness

- `HistoryBranch` (in `MCDebtRecord`): a job that has a runner goes on. People who re-run
  jobs or push by hand are not fair. `EveryRacerSucceeds` is stated for networks
  without faults, and there it needs no luck: a turn is lost only to another's
  success.
- `OverlayRefresh!FairSpec`: the watcher reports, the debounce timer fires, an
  engine run ends or throws, requests are answered. All are callbacks the event
  loop runs, or bounded waits of the engine. Saving and pressing "Check again"
  are not fair.
- `SharedBrowser!BrowserFairSpec`: Chromium launches come up, crash or are refused, and
  the continuations of opens and of close run. Deaths are not fair, and they are
  bounded by the number of processes.

- `SignedScan!Spec`: the scanner takes its next step, and what the browser has to
  report reaches it. Nothing is asked of the page or of people: `ScanEnds` holds because every
  wait has a budget.

`Coverage` and `PullRequest` have no liveness property: their steps are commands
people and GitHub start, and nothing in the repository says they come.

The Stop hook has no liveness property: each process runs to its end or dies,
and a continued stop is never blocked by definition (`Decision`, `PinsDrift`).

The concurrency group of the history workflow ("one scan and one append at a
time") is `world.group`. Without it, the push loop stands on its own: a person with a clone and a second workflow are not in
the group, and the loop's comment promises to survive them.

## 4. The proofs

Every theorem is checked by `tlapm` to the last leaf, with no assumption beyond
the named ASSUMEs on constants.

**`DebtRecord_proofs`, the fold**, for every floor count, bound, set of trees and
history. The invariant `TrackInv` says what the three locals of `follow` know
about the observations they consumed: a pending reading is the last one and is
below the accepted count (`PendingIsLast`), a revoked identity keeps its floor
count (`RevokedIsFinal`), an open one too (`OpenIsFloor`). `TypeOK` and
`NeverAboveFloor` alone are not inductive. That an intermittent verdict is exact
needs more: the remembered counts per tree are exactly those observed
(`CountsExact`). From them follow `TrackTyped`,
`NeverGreener`, `ReleaseTakesTwo`, `IntermittentIsExact` and `KeepsThePromise`,
the refinement of `AcceptedDebt` (initial state to initial state, every step to
a step or a stutter). `NeverAboveFloor` and `LowersOnTwoReadings`, which
`NeverGreener` and `ReleaseTakesTwo` state, are proved and in no run:
`PromiseKept` would break with them.

**`DebtRecord_proofs`, the branch**, for any number of jobs, turns, starts and
faults, inside the concurrency group or not. `BranchInv` says what a job holds
between its commands: what it fetched is where the branch begins
(`TrackingIsBehind`), what it pushes is one record on top of that (`OneOnTop`),
its entries on the branch are of earlier turns than the one it is in
(`EntriesAreEarlier`), and a job that exits 0 has its record there
(`DoneIsHeld`, the theorem `SuccessIsHeld`). The third is what makes the record
of a turn new, and so makes an accepted push one `Deliver` of `RecordLog`;
`KeepsTheLog` is that refinement. The loop's re-run of a job whose push was taken
and whose answer was lost is a second delivery, as the abstract log allows.

**`Verdict_proofs`, the gate**, for every application, floor, ledger and set of drafts.
A report is what the scans of a run found and lost, and `InputOf` says what the gate
is handed for it. `NoBetter(i, j)` orders inputs: more drafts, a lower floor of the
same version and scheme, the same ledger on a later day, more missing. A step that
loses no screen moves the input along that order (`StepDown`; `GateTyped` gives the
types). `BlockingGrows` shows that blocking findings only grow along it: tallies grow
with drafts, and what was new against a higher count is new against a lower one;
`VerdictSinks` draws the verdicts from it. A loss is not in that order, because the
drafts of a lost screen are dropped: `LossIsLocal` says that it leaves a gap and
leaves the drafts of the other screens, and `LossKeepsOthers` that a failing key
there fails on, since every barrier under a key is on the key's screen. From the two
cases follows `GateNothingTurnsGreen`. `AdviceShowsAnElement` says all that one
advisory draft changes: the render evidence, by the keys whose element it shows.
`GateAdvisoryInert` follows from it and `GateFixOnlyTakes` from
`LoweringTouchesTheFloor`; `GateStepsDoNoMore` is the two together, as the run
checks them.

**`Verdict_proofs`, the debt history**, for any number of commits, scans and records, in
any order of arrival. What a run accepts is a fold over a log, so the properties
speak of a log of any length. `HistoryInv` says what the log is made of: a record is
of a commit of main and carries that commit's floor (`ScansAreOfMain`); where pages
draw all they have, a reading below its floor is what the code has
(`LowCountsAreFixes`); the branch holds records of scans, and each once unless one is
redelivered (`BranchHoldsScans`). The fold itself is taken record by record:
`FoldIsShown(t, n, b)` says of the state after `n` records that whatever is pending
has a record that reads it, and that an accepted count below the floor has two
records at or below it, both of that floor and of the base or earlier. `FoldStep`
keeps it. `FoldShown` then holds of the whole log by the least record that would
break it, since an induction principle over an operator is not available
(`EveryNumber`, from the well-foundedness of `<` on the naturals). From it
`HistoryTwoScansConfirm` and `HistoryKeepsUnfixedDebt`: accepted debt falls only on two
scans of main, and a barrier that was never fixed at or before the base is accepted
still.

**`Verdict_proofs`, intake**, for any repositories, applications, manifests and
labels, and any number of edits and failed reads. `VerifiedMeansMet` relates a
verdict to the trusted commit, and a run sees that commit only through what it
reads at four moments. `RunInv` follows the reads while nothing disturbs the run: the
config is the one the run began with (`SteadyConfig`), the providers are made of the
bundle the files say (`WiredAsRead`); once the guard found nothing, config and
providers are those of the commit (`Committed`) and so is what is still to be read
(`HeldStill`; with a trusted ref it is the commit by definition), hence the second load too
(`LoadedCommitted`); a screen is scanned only if it was planned, and planned only if
somebody names it (`InReach`). `TextsApart` shows that in a bundle that loads two requirements which
read the same are one: the id grammar and the search for duplicates give it
together, neither alone. `IntakeVerifiedMeansMet` follows. `PageInv` does the same
for a page check (`IntakePageAccounts`), and `IntakePageAgrees` compares the two
from `RunInv`. What is assumed of ids is `IntakeAssumption`: two plain ids with one
text are one id, which is what the grammar is for.

**`StopHook_proofs`**, for every set of sessions, screens, policies and every
history. None of the three properties is inductive: each speaks of an answer or
a file, and is decided by what a hook read several steps earlier. `IInv` follows
a hook through them. `AnswersLast`: an answer is given once, at the end, and a
decision has a result. `ReplacesWithBase`: a hook about to replace a pin file
holds the session's first pins, though the file may have been deleted or spoiled
since it compared them. `QuietInv`, where nobody edits beside a hook: what each
hook has read so far is what is there (`ReadIsCurrent`), what it saves and what
is stored is proof of what it binds (`MintedIsProof`, `Judged`), and past the
pins a hook with nothing to disclose has pins that hold what HEAD commits
(`PinsCompared`). The developer's steps keep the last because no hook is under
way then; a step of another session's hook because it changes neither the
repository nor this session's hook and pins (`OneHookSteps`), and saves a receipt
only if it is proof. `StopTyped`, `StopPinsAreTheBaseline`,
`StopVerifiedWasJudged` and `StopVerifiedUnderPins` follow. What the proofs ask
of the constants is `StopHookAssumption` and that the mark for "no receipt" is
not a receipt (`ReceiptAssumption`).

**`SignedScan_proofs`**, for any number of sign-ins at once, any files and any
number of edits. `SessionIsVouched` is not inductive: the file a rename leaves is
what a process has carried since its browser closed. `IInv` adds who can have left
the saved file (`LeftBy`: at a desk never the head) and what a sign-in under way
knows (`Holding`: past the browser it holds a session, which a cookie that expires
does not take away, `AgedKeeps`; past its second look the rules are those it saw,
or somebody changed them since). Every action of the page leaves the session alone,
so `Invariance` needs nothing of `ScreenScan`. `SessionVouched` follows;
`DoctorAndRunAgree` needs only the types, and compares two procedures the source
keeps apart.

**`SignedScan_proofs`, the scan**, for every page that changes under it, every list
of providers and every session. Each of the three properties speaks of a record
that is finished, and is decided where a read of the page was made. `ScanInv`
carries it there. `Kept`: from the landing on, a declared selector held when the
walk began, and until the screens are marked a part that was not seen stands
beside the drafts. `Expired`: a session the server refuses gets no data but at an
address it was refused, so what was refused ends as a gap or an unseen part.
`Whole`: a frame that axe did not run in is a gap or about to be one, a walk that
ended elsewhere than at the end of the page is unsure, each provider has ended, is
still to run or is named in a gap, and what left the page is caught or a report of
it is on its way. `KeptFindingsWereThere` and `ExpiredSessionMeasuresNothing` ask
nothing of the constants but that the providers are a sequence.
`CleanScansAreWhole` asks that the configuration names every provider
(`EveryProviderRuns`: one that names fewer runs fewer, as it says) and that a
browser process answers when its frame tree is read (`TreesAnswer`).

**`FloorRatchet_proofs`**, for any application, identities, floor and flicker. Three
properties follow from the types or from one step: `LocalGreenHolds`,
`BaselineIsTight` and `PruneAgrees` (the last compares `floor/prune.ts` with
`gate/index.ts`, which decide apart what is paid down); `WrittenFloorHolds` is the
last two together. The others need to know
what a floor is worth. `SoundInv`: the keys of a floor are of the scheme of its
version, and an entry accepts no more barriers than a person accepted under its
key (`Covered`). `FloorInv` adds that it accepts no fewer where everything is
always drawn (`Tight`), and that a barrier that stands and is always drawn keeps
its entry (`Rooted`). Neither holds of every application, and that is how
`floor_migration` was found: `KeyedRowsSignalled` (a screen with keyed rows
declares a readiness signal, as `src/docs/ground-truth.md:1967` asks) keeps
collapsed keys out of a version 3 floor. `AcceptedDebtBoundsGreen` needs only
that; `AcceptedDebtPasses` and `FixedIsGone` also need `KeyedRowsStill`: what
comes and goes on an unchanged page are controls outside keyed rows, since a
flickering row may drop out of the floor while its barrier stands.

**`Overlay_proofs`, the refresh**, for any number of panels, saves and presses. `IInv`
orders numbers that are kept in different places: a reader's generation is at most
its run's (`ReadersFollowTheirRun`), a run's at most what it measured
(`RunsSeeTheirGeneration`), and a panel's newest request was handled after the
refresh it last heard (`NewestIsAfterHeard`). `ReadersSeeTheSave` and
`NoPanelGoesBack`, an action property, follow.

**`Overlay_proofs`, the browser**, for any number of opens, processes and refusals in a
row, and deaths and a close at any moment. `NoOrphan` is inductive only with what
each continuation may find when it runs (`BrowserInv`): a launch is under way only while no
process is in use (`LaunchIsNeeded`), a call names a process that was launched
(`OnLaunched`), and the count kept beside a process is the number of refusals in a
row it had (`CountIsStreak`, which `HealthyBrowserIsKept` needs).

**`Coverage_proofs`**, for router modules, import graphs and package graphs of any size, and any
number of edits, drafts and merges. `CoverageInv` is short: the repository is one
whose router an author can write (`TreeIsWhole`), shell files are UI files on both
sides of the change (`WideIsUi`), and what the last plan and the last drift check said
is what they would say now (`PlanIsOfNow`, `DriftIsOfNow`), since every edit takes
them back. The work is in the readers.

*Routes.* usabl and React Router descend the same module in different ways, the
first ready to stop at whatever it cannot read. `Beside(f, p)` relates the two
descents at a position: both arrive with parents that agree (`Agree`: an unknown
parent agrees with any), or the reader stopped above and named the place
(`StopIsNamed`), or the app stopped and the reader, which went on, says that it
assumed something (`GuessIsNamed`). `BesideFirst` and `BesideNext` give it at every
position (`BesideEverywhere`, by the least depth at which it could fail). A route
served is then read with its true path or named (`NodeIsNamed`), a path read is
served or under a named assumption (`NodeIsServed`), and `FileIsRead` is the two for a
module, also for one that is refused whole, for routes outside every router and
for a factory the reader does not know. `CoverageRouterIsRead`,
`CoverageDriftZeroIsWhole` and `CoverageShellReachesEveryScreen` follow.

*Graphs.* Imports and package links are walked by rounds, as many as there are
nodes, by usabl and by what it is judged against. `WalkGrows` shows that with more
neighbours a walk comes as far, so what a page loads through imports usabl reads
lies in the closure usabl computes (`LoadedIsClosed`) and what the app is linked to lies in the packages it
follows (`LinkedIsReached`, with `WalkStays`). The
planner's reading of the touched files, one after the other with a queue, is taken
file by file (`EveryFileHasItsTurn`), which gives `CoverageSays`, the planner in closed
form, a gap for a file that no screen owns included. `CoverageImportersAreSeen` and `CoverageNothingUnlinked` follow.

What is assumed: modules are `WellFormed` (`RoutersAssumption`), the router is one of
finitely many files (`FilesAssumption`), a start has the parts of a repository
(`StartsAssumption`), and the packages are finitely many folders other than the root
and the app (`PackagesAssumption`).

**`PullRequest_proofs`, the gate**, for any number of pull requests, runs, reviews and pages,
any commits, faults and re-runs. A pass is decided in four jobs from artifacts of
perhaps another run. `PassInv` follows it: each build a run uploads is its own,
whole or cut short (`OwnBuilds`); the run the judge finds is of the same pull
request, head and base (`FoundItsOwn`), so what it unpacks and serves is that
build (`ServesItsOwn`); a verdict of pass is about those pages
(`PassIsOfItsPages`); a policy that passed had nothing to ask or found the
approvals in what it saw, and what it saw people wrote (`PolicyOfWhatItSaw`,
`SawReviews`); the required job passed on both (`PassedOnAll`). Nothing of it
outlives a re-run by mistake: a job that is run again loses its outputs, one that
is not keeps them for the same payload. From it follows
`PassIsOfItsPullRequest`. `GreenFollows` needs a second invariant: a run of the
head all of whose jobs ran together has read whole pages that are what the
reviews begin with (`SawTheReviews`), or a delivery or a later run of that head
will answer for what came since (`Superseded`). When the check a pull request shows
is green and no delivery is outstanding, the second is impossible, so the policy
saw every review there is. Assumed: outputs are never confused with an output
never set (`OutputAssumption`), and a screen asked for by a name with an extension
is the script the build has (`ScreensAreServed`; another such request is a 404,
which is no page of a build).

**`PullRequest_proofs`, the branch**, for any settings, rulesets, CODEOWNERS,
guarded paths and changes, and whichever reads of doctor fail. `WiringInv` carries
three things from where they are decided to the merge: doctor's report is of the
site as it is (`ReportIsOfTheSite`); a green check of an honest gate means that
each guarded file the head changes was approved at that head (`CheckHolds`, from
`PolicyApproved`); where a push dismisses reviews, those there are of the last
push (`ApprovalsAreFresh`). Four lemmas then turn doctor's words into GitHub's.
`VerifiedProtects`: each part of a `verified` branch rule is asked for by
protection that really targets main (`PartInForce`). `WiredOwners`: the rule that
decides a name no literal pattern can hold decides every workflow file
(`EveryNewMatches`), and each later rule that could decide one was looked at
(`MatchIsSomeNew`), so every workflow file, of today or to come, has an owner.
`ScopeDiverges`: a pattern without a wildcard owns only what lies under the path
it names (`PlainMatchIsUnder`), so with a wired policy scope the guard sees every
change to an owned file. `WiredGuards` follows. `WiringAssumption` says what
patterns and paths are: a name on its own is not anchored, a supported pattern
holds no range, a pushed file differs from main's.

Model-checked only:

- liveness (`EveryRacerSucceeds`, `PanelCatchesUp`, `EveryOpenSettles`,
  `ScanEnds`), since the prover has no ENABLED;
- `PagesAreSeen` of `Coverage`. It compares two readings of a docs tree: usabl's, a
  fixed point over sets of attribute values, and AsciiDoc's, which renders line by line
  with the values of the moment and includes a file inside another. Its proof is an
  induction over the rendering with two pieces of state, attributes and open
  conditions, and over the fixed point at once; the checked documents are the small ones
  in which an attribute, a condition or a comment comes between the two.

The library's induction theorems take an operator as a parameter, which the
provers cannot instantiate. Where a proof needs induction over a log, a walk or a
depth it takes the set of numbers for which the claim holds and its least member
outside (`LeastNumber`, `EveryNumber`), and a fold or a recursive function is shown to
exist and unrolled first (`RunExists`, `TracksUnroll`, `WalkExists`, `DescentExists`).

## 5. Not modelled

See the notes in `PROJECT.json`. In short: rules evaluated inside the browser;
tokens, regular expressions, tar and zip headers, address ranges and everything
that formats; the installers of the hooks and the overlay (one-shot,
no state to meet again); the inspector of the overlay, its origin check and its source transform; the reports over finished
results.

Inside modelled components: in `Intake` the core providers (every barrier is a
requirement's), how an assertion is measured (`Apps`), two flow providers that
disturb each other on one page, manifests that change during a run, the moments
between the reads of a page check, the `approved` field, which nothing reads, and
the difference between floor and waivers (`excused`); the temporary file a killed sign-in leaves beside the
saved one; a run that opens several screens with one session; the directory
checks of the pin store; scanner and runner versions of a receipt (they never change while the model runs); globs of
the guard; the panel's early return when a page has no inspector; a browser
process that does not answer when its frame tree is read (`TreesAnswer` is TRUE
in the instance); a pull request that changes no UI file, whose run scans nothing
and passes; the HTTP status of a page the judge is served, which nothing reads (a
build always has an index page in the instance); merges of `Coverage` in other
worlds than the one of the routes. A pin file that is deleted starts new pins, as
the code says it does; `base` in `StopHook` follows. GitHub is taken to match
CODEOWNERS as `primitives/match-codeowners.ts` does, and to combine classic
protection and rulesets part by part, the stricter winning.

## 6. Plan

Done first, because everything else leans on it: the gate, the floor and the
debt history; then the concurrent parts: the history branch, the Stop hook, the
overlay, the browser; then what a run looks at (the scan of a screen, the
coverage of a change) and what a merge looks at (the gate workflow, the policy,
the settings).

Next modules, in order:

1. `FloorWrite`: the read and the write of `baseline` and `prune` apart, with a
   `FloorRatchet` refinement.
2. `PinStore` (`surfaces/session-pin-store.ts`): exclusive create, replace by
   rename, refusal, crash between the two; refines the pin steps of `StopHook`.
3. `CheckRun`: coverage, scan, history, gate and mint as one sequence, composing
   `Gate`, `DebtFold` and `ScreenScan`.

Next proof: `PagesAreSeen`, beginning with the include graph alone (no attributes):
that its fixed point is closed can be shown as `LoadedIsClosed` is.
