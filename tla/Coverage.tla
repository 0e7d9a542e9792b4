------------------------------ MODULE Coverage ------------------------------
(***************************************************************************)
(* Which screens a change is checked on (src/coverage/planner.ts, with the *)
(* manifests in force as run.ts overlays them), while authors edit the     *)
(* router, the imports, the packages and the docs, draft and maintain the  *)
(* lists usabl goes by, and ask `usabl drift routes` whether those are     *)
(* whole.  base is the trusted ref, tree the working tree, and touched the *)
(* files that differ.                                                      *)
(***************************************************************************)
EXTENDS RouteBook, ImportGraph, DocsPlan

CONSTANTS
    Starts,      \* the trees a behaviour may start from
    Routers,     \* what the router module may be edited to
    Specs,       \* what the imports of a file may be edited to
    Sides,       \* what the manifests may be edited to
    DocTexts,    \* what a doc may be edited to
    Shown,       \* the file a component is imported from, as init resolves it
    Titles,      \* the roots of the docs, with the id derived for each
    FileOrder,   \* the UI files in the order git lists them
    MaxEdits     \* bound: edits between two merges

VARIABLES
    area,      \* bound: the one part of the repository that is edited
    tree, base, touched,
    drafting,  \* the routes a running `usabl init` has still to write
    drift,     \* the exit code of the last drift check, until an edit
    plan       \* the last plan, until an edit

vars == <<area, tree, base, touched, drafting, drift, plan>>

RouterFile == <<<<"app", "routes">>, "file", "tsx">>
IsTest(file) == file[1][1] = "test"
IsUi(file, config) == ~IsTest(file) /\ file[1][1] \in config.globs

TreeParts == {"router", "sidecar", "config", "code", "side", "docs", "book"}
\* The shell files of a config are among the UI files it points at.
WideIsUi(config) == \A f \in config.wide : f \in ToSet(FileOrder) /\ IsUi(f, config)

ASSUME RoutersAssumption == \A f \in Routers : WellFormed(f)
ASSUME FilesAssumption == FileOrder \in Seq(ToSet(FileOrder)) /\ RouterFile \in ToSet(FileOrder)
ASSUME StartsAssumption ==
  \A s \in Starts :
    /\ DOMAIN s.tree = TreeParts
    /\ WellFormed(s.tree.router)
    /\ "imports" \in DOMAIN s.tree.code /\ DOMAIN s.tree.code.imports \subseteq ToSet(FileOrder)
    /\ WideIsUi(s.tree.config)

NoDraft == {Entry(<<>>, <<"pending">>)}
NoDrift == 9
NoPlan == [st |-> "none", affected |-> <<>>, pages |-> {}, gaps |-> {}, book |-> <<>>, docsBook |-> NoBook, config |-> <<>>]
Untouched == [ui |-> {}, other |-> {}, docs |-> {}]

-----------------------------------------------------------------------------
(* ------------------------------ the planner ---------------------------- *)

AppUrl(path) == <<"app">> \o path

\* addAffected: the first to add a screen decides its url.
AddAffected(affected, urls) ==
  [id \in DOMAIN affected \cup DOMAIN urls |-> IF id \in DOMAIN affected THEN affected[id] ELSE urls[id]]
Queue(affected, surfaces) ==
  AddAffected(affected, [id \in {s.id : s \in surfaces} |-> (CHOOSE s \in surfaces : s.id = id).url])
HasUrl(affected, url) == \E id \in DOMAIN affected : affected[id] = url

\* assertSurfaceIds and assertScreenIdsAreUnambiguous
Ambiguous(config, book, pages) ==
  LET surfaces == ToSet(config.surfaces)
      routeIds == {ScreenId(r.url) : r \in book.routes}
  IN \/ \E i, j \in DOMAIN config.surfaces : i # j /\ config.surfaces[i].id = config.surfaces[j].id
     \/ \E s \in surfaces : s.id \in routeIds /\ ~s.overrides
     \/ \E s \in surfaces : s.id \notin routeIds /\ s.overrides /\ book.source = "sidecar"
     \/ \E p \in pages : p.id \in routeIds \cup {s.id : s \in surfaces}

\* A shell file or a dependency can change any route: every route is queued,
\* and a route that cannot be is a gap.
BlastRadius(book) == [id \in {ScreenId(r.url) : r \in book.routes} |->
                        AppUrl((CHOOSE r \in book.routes : ScreenId(r.url) = id).url)]
\* Mutant: a route no id can be made from is left out in silence.
BlastGapsUnread(book) == {<<"unreadable", g.at>> : g \in book.unreadable}
BlastGaps(book) == {<<"unusable", p>> : p \in book.unusable} \cup {<<"unreadable", g.at>> : g \in book.unreadable}

\* The surfaces a file or a dependency adds, but for a url already queued, by a
\* route or by an earlier surface whose screen it was the first to add.
AddSurfaces(affected, surfaces) ==
  LET adds(i) == /\ ~HasUrl(affected, surfaces[i].url)
                 /\ \A j \in 1 .. i - 1 : surfaces[j].url = surfaces[i].url => surfaces[j].id \in DOMAIN affected
  IN Queue(affected, {surfaces[i] : i \in {j \in DOMAIN surfaces : adds(j)}})
Listing(config, file) == SelectSeq(config.surfaces, LAMBDA s : file \in s.files)

\* manualUrlOverride
UrlFor(config, file, route) ==
  LET own == SelectSeq(Listing(config, file), LAMBDA s : s.id = ScreenId(route.url))
  IN IF own = <<>> THEN AppUrl(route.url) ELSE own[1].url

\* Mutant: a changed file that no screen is known for is passed over.
UnmappedUnsaid(state, file) == state

\* A changed file that no screen is known for is a gap.
Unmapped(state, file) == [state EXCEPT !.gaps = @ \cup {<<"unresolved", file>>}]

\* One UI file: the surfaces when the blast has queued the routes already, else
\* the routes whose files import it, else the surfaces that list it.
Attribute(state, file, config, book, code, blasted) ==
  LET routes == {r \in book.routes : r.entry # NoFile /\ file \in Closure(r.entry, code.imports, code.files, code.aliases)}
      listing == Listing(config, file)
  IN IF file \in config.wide /\ blasted
     THEN [state EXCEPT !.affected = AddSurfaces(@, listing)]
     ELSE IF routes # {}
     THEN [state EXCEPT !.affected =
             AddAffected(@, [id \in {ScreenId(r.url) : r \in routes} |->
                               UrlFor(config, file, CHOOSE r \in routes : ScreenId(r.url) = id)])]
     ELSE IF ToSet(listing) # {}
     THEN [state EXCEPT !.affected = Queue(@, ToSet(listing))]
     ELSE Unmapped(state, file)

\* The changed UI files, one after the other.
AttributeAll(start, ui, config, book, code, blasted) ==
  LET after[n \in 0..Len(FileOrder)] ==
        IF n = 0 THEN start
        ELSE IF FileOrder[n] \in ui THEN Attribute(after[n - 1], FileOrder[n], config, book, code, blasted)
        ELSE after[n - 1]
  IN after[Len(FileOrder)]

\* computeCoverage
AppCoverage(book, config, now, was, changed) ==
  LET ui == {f \in changed.ui : IsUi(f, config)}
      packages == WorkspaceGaps(changed.other, now.side, was.side)
      dependencies == DependencyChanges(changed.other, now.side, was.side)
      wide == dependencies # {} \/ ui \cap config.wide # {}
      blast == IF wide THEN BlastRadius(book) ELSE <<>>
      queued == IF dependencies # {} THEN AddSurfaces(blast, config.surfaces) ELSE blast
      start == [affected |-> queued,
                gaps |-> {<<"package", f>> : f \in packages}
                         \cup (IF wide THEN BlastGaps(book) ELSE {})
                         \cup (IF queued = <<>> THEN {<<"dependency", f>> : f \in dependencies} ELSE {})]
  IN IF ui = {} /\ dependencies = {} THEN [affected |-> <<>>, gaps |-> {<<"package", f>> : f \in packages}]
     ELSE AttributeAll(start, ui, config, book, now.code, blast # <<>>)

(***************************************************************************)
(* What is in force (scanConfigForCoverage, overlayUntrustedManifests): a  *)
(* list or config edited since the trusted ref is read from that ref when  *)
(* one is named, as in CI; without one an edited list is as good as none,  *)
(* and an edited config is used as it is.                                  *)
(***************************************************************************)
InForce(mine, theirs, none, ref) ==
  IF mine = theirs THEN mine ELSE IF ref THEN theirs ELSE none

PlanOf(now, was, changed, ref) ==
  LET book == Manifest(InForce(now.sidecar, was.sidecar, NoSidecar, ref), now.router)
      docsBook == InForce(now.book, was.book, NoBook, ref)
      config == IF now.config # was.config /\ ref THEN was.config ELSE now.config
      app == AppCoverage(book, config, now, was, changed)
      docs == DocsCoverage(docsBook, changed.docs, DOMAIN now.docs \cup DOMAIN was.docs)
  IN IF book.source = "refused" \/ Ambiguous(config, book, docsBook.pages) THEN [NoPlan EXCEPT !.st = "refused"]
     ELSE [st |-> "planned", affected |-> app.affected, pages |-> {p.root : p \in docs.pages},
           gaps |-> app.gaps \cup {<<"docs", f>> : f \in docs.gaps}
                    \cup (IF config.there THEN {} ELSE {<<"config", "unreadable">>}),
           book |-> book, docsBook |-> docsBook, config |-> config]

-----------------------------------------------------------------------------
Init ==
  /\ \E s \in Starts : area = s.area /\ tree = s.tree /\ base = s.tree
  /\ touched = Untouched /\ drafting = NoDraft
  /\ drift = NoDrift /\ plan = NoPlan

\* Every edit outdates what was said of the tree before it.
Edited(t, kind, files) ==
  /\ tree' = t
  /\ touched' = [touched EXCEPT ![kind] = @ \cup files]
  /\ Cardinality(touched'.ui) + Cardinality(touched'.other) + Cardinality(touched'.docs) <= MaxEdits
  /\ drift' = NoDrift /\ plan' = NoPlan
  /\ UNCHANGED <<area, base, drafting>>

\* Only "read" starts from many routers, and it edits none.
InRoutes == area \in {"read", "routes"}

\* A comment in the router file is an edit too.
EditRouter(f) ==
  /\ InRoutes /\ (area = "read" => f = tree.router)
  /\ Edited([tree EXCEPT !.router = f], "ui", {RouterFile})

EditUi(file, specs) ==
  /\ area = "imports" /\ file \in DOMAIN tree.code.imports /\ specs \in Specs \cup {tree.code.imports[file]}
  /\ Edited([tree EXCEPT !.code.imports[file] = specs], "ui", {file})

EditPackage(file) ==
  /\ area = "packages" /\ file.kind \in {"source", "lock"}
  /\ Edited(tree, "other", {file})

EditManifests(side) ==
  /\ area = "packages" /\ side # tree.side
  /\ Edited([tree EXCEPT !.side = side], "other",
            {[dir |-> d, kind |-> "manifest"] : d \in {e \in Folders : side.manifests[e] # tree.side.manifests[e]}})

EditDoc(file, text) ==
  /\ area = "docs" /\ file \in DOMAIN tree.docs
  /\ Edited([tree EXCEPT !.docs[file] = text], "docs", {file})

(* -------------------- the lists usabl goes by, by hand ----------------- *)

Kept == UNCHANGED <<area, base, touched, drafting>>

\* The author lists a route at the file its component comes from.
ListRoute(url, entry) ==
  /\ InRoutes /\ tree.sidecar.there
  /\ tree' = [tree EXCEPT !.sidecar.routes = @ \cup {Entry(url, entry)}]
  /\ drift' = NoDrift /\ plan' = NoPlan /\ Kept

DropRoute(route) ==
  /\ InRoutes /\ route \in tree.sidecar.routes
  /\ tree' = [tree EXCEPT !.sidecar.routes = @ \ {route}]
  /\ drift' = NoDrift /\ plan' = NoPlan /\ Kept

\* acknowledgedUnreadable: the id a refusal printed.
Acknowledge(id) ==
  /\ InRoutes /\ drift = 2 /\ tree.sidecar.there
  /\ id \in PrintedIds(tree.sidecar, tree.router)
  /\ tree' = [tree EXCEPT !.sidecar.acks = @ \cup {id}]
  /\ drift' = NoDrift /\ plan' = NoPlan /\ Kept

(* ---------------------------- usabl init ------------------------------- *)

\* The config a draft holds: one surface for each route, over its own file.
DraftConfig(routes) ==
  [there |-> TRUE, globs |-> {"app"}, wide |-> {RouterFile},
   surfaces |-> SetToSeq({[id |-> ScreenId(r.url), url |-> AppUrl(r.url), files |-> {r.entry} \ {NoFile},
                           overrides |-> TRUE] : r \in routes})]

InitRefused(force) ==
  WriteRefused(Draft(tree.router, Shown), tree.sidecar, tree.config.there, force)

\* writeInitDrafts: the config first, the routes after it; a config drafted
\* without routes stands alone.
WriteConfig(force) ==
  /\ area = "routes" /\ drafting = NoDraft /\ ~InitRefused(force)
  /\ LET draft == Draft(tree.router, Shown)
     IN /\ tree' = [tree EXCEPT !.config = DraftConfig(draft.routes)]
        /\ drafting' = IF draft.routes = {} THEN NoDraft ELSE draft.routes
  /\ drift' = NoDrift /\ plan' = NoPlan
  /\ UNCHANGED <<area, base, touched>>

WriteRoutes ==
  /\ drafting # NoDraft
  /\ tree' = [tree EXCEPT !.sidecar = Sidecar(drafting, {})]
  /\ drafting' = NoDraft
  /\ drift' = NoDrift /\ plan' = NoPlan
  /\ UNCHANGED <<area, base, touched>>

\* The command is stopped between its two writes.
InitStops ==
  /\ drafting # NoDraft
  /\ drafting' = NoDraft
  /\ UNCHANGED <<area, tree, base, touched, drift, plan>>

\* usabl init --docs, forced: a draft the parser would refuse is not written.
DraftDocs ==
  /\ area = "docs"
  /\ LET draft == DocsDraft(Titles, tree.book.shared, tree.docs)
     IN draft.there /\ tree' = [tree EXCEPT !.book = draft]
  /\ drift' = NoDrift /\ plan' = NoPlan /\ Kept

(* ------------------------- drift, check, merge ------------------------- *)

Drift ==
  /\ InRoutes
  /\ drift' = DriftExit(tree.sidecar, tree.router)
  /\ UNCHANGED <<area, tree, base, touched, drafting, plan>>

Check(ref) ==
  /\ plan' = PlanOf(tree, base, touched, ref)
  /\ UNCHANGED <<area, tree, base, touched, drafting, drift>>

\* Bound: only the lists of routes are merged; elsewhere every trusted ref is
\* a start.
Merge ==
  /\ area = "routes"
  /\ base' = tree /\ touched' = Untouched
  /\ plan' = NoPlan
  /\ UNCHANGED <<area, tree, drafting, drift>>

Next ==
  \/ \E f \in Routers \cup {tree.router} : EditRouter(f)
  \/ \E file \in DOMAIN tree.code.imports : \E specs \in Specs \cup {tree.code.imports[file]} : EditUi(file, specs)
  \/ \E file \in [dir : Folders, kind : {"source", "lock"}] : EditPackage(file)
  \/ \E side \in Sides : EditManifests(side)
  \/ \E file \in DOMAIN tree.docs, text \in DocTexts : EditDoc(file, text)
  \/ \E s \in ServedBy(tree.router) : s.path # Unknown /\ s.shows \in DOMAIN Shown /\ ListRoute(s.path, Shown[s.shows])
  \/ \E route \in tree.sidecar.routes : DropRoute(route)
  \/ \E id \in PrintedIds(tree.sidecar, tree.router) : Acknowledge(id)
  \/ \E force \in BOOLEAN : WriteConfig(force)
  \/ WriteRoutes
  \/ InitStops
  \/ DraftDocs
  \/ Drift
  \/ \E ref \in BOOLEAN : Check(ref)
  \/ Merge

Spec == Init /\ [][Next]_vars

-----------------------------------------------------------------------------
(* ------------------------------ properties ----------------------------- *)

NamedIn(s, gaps) == \E g \in gaps : NamedBy(s, g)

\* A route the app serves is read where it is, with the path it is served at,
\* or something it stands in is named as unread: the reader drops no route in
\* silence (router-parse.ts:1368).
ReadOrNamed ==
  InRoutes =>
    LET read == ReadFile(tree.router)
    IN \A s \in ServedBy(tree.router) : ReadAsServed(s, read) \/ NamedIn(s, Unreadable(read))

\* A path read is one the app serves there, unless the list it stands in is
\* named as assumed: init never drafts a screen that is not one
\* (router-parse.ts:729).
NothingInvented ==
  InRoutes =>
    LET read == ReadFile(tree.router)
    IN \A t \in read.sites :
         \/ \E s \in ServedBy(tree.router) : s.at = t.at /\ s.path = t.path
         \/ \E g \in read.assumed : IsPrefix(g.at, t.at)

\* The reader takes from a router what the app serves: nothing dropped in
\* silence, nothing added (router-parse.ts:1368, 729).
RouterIsRead == ReadOrNamed /\ NothingInvented

\* When drift says the list is whole, every route served is listed, or the
\* author has acknowledged the entry that names it as it now is; and nothing
\* listed is gone (drift/routes.ts:93).
DriftZeroIsWhole ==
  drift = 0 =>
    LET read == ReadFile(tree.router)
        acked == {g \in Unreadable(read) : g.id \in tree.sidecar.acks}
    IN /\ \A s \in ServedBy(tree.router) : s.path \in UrlsOf(tree.sidecar.routes) \/ Unusable(s.path) \/ NamedIn(s, acked)
       /\ \A u \in UrlsOf(tree.sidecar.routes) : \E t \in read.sites : t.path = u

\* The screens a plan leaves nothing said about.
Unseen(id) == plan.st = "planned" /\ plan.gaps = {} /\ id \notin DOMAIN plan.affected

\* Of a touched file, the screens that usabl knows it is part of.
Owners(file, book, config, code) ==
  {ScreenId(r.url) : r \in {q \in book.routes :
     \/ file \in config.wide
     \/ q.entry # NoFile /\ file \in Closure(q.entry, code.imports, code.files, code.aliases)}}
  \cup {s.id : s \in ToSet(Listing(config, file))}

\* A screen whose listed entry file is its own is checked, or the plan has a
\* gap, when a file its page loads through imports usabl reads is touched:
\* whatever the candidates of an import, the surfaces and the other screens are
\* (import-graph.ts:135).  An import that is not read may pass a screen over
\* (import-graph.ts:37), but only where another screen is checked for the file:
\* with no owner it is a gap (planner.ts:331).
ImportersAreSeen ==
  plan.st = "planned" =>
    \A f \in {g \in touched.ui : IsUi(g, plan.config)} :
      /\ plan.gaps # {} \/ Owners(f, plan.book, plan.config, tree.code) \cap DOMAIN plan.affected # {}
      /\ \A r \in plan.book.routes :
           /\ r.entry # NoFile
           /\ f \in LoadedAsRead(r.entry, tree.code.imports, tree.code.files, tree.code.aliases, tree.code.prefers)
           => ~Unseen(ScreenId(r.url))

\* A touched shell file reaches every screen the app serves: when the router
\* is read as text, and when the list in force is the one drift has passed.
\* Without a gap, each is queued or acknowledged by the author
\* (planner.ts:199).
ShellReachesEveryScreen ==
  /\ plan.st = "planned" /\ touched.ui \cap plan.config.wide # {}
  /\ plan.book.source = "router" \/ (drift = 0 /\ plan.book.routes = tree.sidecar.routes)
  => \A s \in ServedBy(tree.router) :
       \/ ~Unseen(ScreenId(s.path))
       \/ NamedIn(s, {g \in Unreadable(ReadFile(tree.router)) : g.id \in tree.sidecar.acks})
       \/ plan.book.source = "sidecar" /\ Unusable(s.path)

\* A touched package the app is linked to, by its code or by the manifests of
\* either side of the change, is never passed over: it is a gap, or a dependency
\* reaches every screen.  Held while the tree lists the app and every package of
\* the link, has their package.json and gives them the names they had
\* (workspace-packages.ts:347).
Saw(file) ==
  <<"package", file>> \in plan.gaps \/ DOMAIN plan.affected # {} \/ \E g \in plan.gaps : g[1] = "dependency"
DeclaredOn(side) == [manifests |-> side.manifests, mentions |-> tree.side.mentions, aliased |-> tree.side.aliased]
Listed(side) == WorkspaceDirs(Patterns(side), side)
StillListed == WorkspaceDirs(Patterns(tree.side) \o Patterns(base.side), tree.side)
KeepsItsName(d) == base.side.manifests[d].there => base.side.manifests[d].name = tree.side.manifests[d].name
NothingUnlinked ==
  plan.st = "planned" /\ "app" \in StillListed =>
    \A f \in touched.other, side \in {tree.side, DeclaredOn(base.side)} :
      LET still == {d \in Listed(side) \cap StillListed : KeepsItsName(d)}
      IN f.kind = "source" /\ f.dir \in LinkedFrom({"app"}, side, still) \ {"app"} => Saw(f)

\* A page whose text a touched doc is part of, on either side of the change, is
\* checked, or the plan has a gap, when the manifest in force was drafted from
\* the docs of the trusted ref: whatever the include graph was then and is now
\* (docs-planner.ts:53).
FreshBook == plan.docsBook.there /\ plan.docsBook = DocsDraft(Titles, plan.docsBook.shared, base.docs)
OneValue(docs, root) ==
  \A name \in {l.name : l \in UNION {ToSet(docs[f]) : f \in DOMAIN docs}} :
    Cardinality(Values(name, Sources(root, docs), docs)) <= 1
OneDelimiter(docs) ==
  \A f \in DOMAIN docs : Cardinality({l \in ToSet(docs[f]) : l.op = "comment"}) <= 1
PagesAreSeen ==
  /\ plan.st = "planned" /\ area = "docs" /\ FreshBook
  => \A i \in DOMAIN Titles :
       LET root == Titles[i].root
       IN /\ touched.docs \cap (Composes(root, tree.docs) \cup Composes(root, base.docs)) # {}
          /\ OneValue(base.docs, root) /\ OneDelimiter(base.docs)
          => root \in plan.pages \/ plan.gaps # {}
=============================================================================
