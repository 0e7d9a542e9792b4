---------------------------- MODULE ImportGraph -----------------------------
(***************************************************************************)
(* What the app is made of, as usabl reads it.  First the import graph it  *)
(* builds from the entry files of the routes                               *)
(* (src/coverage/import-graph.ts) through the path aliases it can read     *)
(* (src/coverage/alias-config.ts), and what a bundler loads for the same   *)
(* sources.  A file is <<base, tier, extension>>, a base <<folder, name>>. *)
(* An import is [kind, base, dot, written]:                                *)
(*   kind     relative; alias, under @/ or ~/; prefixed, under an alias of *)
(*            another name; or bare, a package                             *)
(*   base     the path it names, less what follows a dot                   *)
(*   dot      what follows a dot in its last part, or NoDot                *)
(*   written  line: import ... from on one line; lines: over several;      *)
(*            dynamic: import(...); export: export ... from; effect:       *)
(*            import '...'; erased: in a comment, or a type                *)
(*                                                                         *)
(* Then changes outside the app's own UI files, in a monorepo: files of    *)
(* the workspace packages the app depends on                               *)
(* (src/coverage/workspace-packages.ts), and lockfiles and package.json    *)
(* files that can change every screen                                      *)
(* (src/coverage/dependency-changes.ts).  Both read the tree and the       *)
(* trusted ref.  The folders are "" (the root), "app" (what the config     *)
(* points into) and the members of Packages.                               *)
(***************************************************************************)
EXTENDS Naturals, Sequences, FiniteSets, SequencesExt

NoDot == ""
Relative(folder, name) ==
  [kind |-> "relative", base |-> <<folder, name>>, dot |-> NoDot, written |-> "line"]
Aliased(name) == [kind |-> "alias", base |-> <<"@", name>>, dot |-> NoDot, written |-> "line"]
Bare(name)    == [kind |-> "bare", base |-> <<"npm", name>>, dot |-> NoDot, written |-> "line"]

\* extractSpecifiers matches text, FROM_IMPORT_RE on one line: the other ways to
\* write an import are not seen, and an import in a comment is.
ReadForms == {"line", "dynamic", "erased"}
Extracted(file, imports) == {s \in imports[file] : s.written \in ReadForms}

\* An alias table: the target folder of the prefix in the bundler's config and
\* in the paths of tsconfig.json, as far as usabl reads them, and the target the
\* bundler has where it does not (hidden).
\* mergeMappings: vite first, tsconfig fills in what vite leaves out.
NoAlias == "none"
AliasTarget(aliases) == IF aliases.vite # NoAlias THEN aliases.vite ELSE aliases.tsconfig

\* What a specifier stands for, or NoBase when no mapping has its prefix or the
\* prefix is not one isAliasLikeSpecifier takes for an alias.
NoBase == <<>>
BaseOf(spec, aliases) ==
  CASE spec.kind = "relative" -> spec.base
    [] spec.kind = "alias" /\ AliasTarget(aliases) # NoAlias -> <<AliasTarget(aliases), spec.base[2]>>
    [] OTHER -> NoBase

\* EXTENSIONS
Extensions == {"mjs", "js", "mts", "ts", "jsx", "tsx", "vue", "svelte"}

Exactly(base, dot, files) == {f \in files : f = <<base, "file", dot>>}
Tier(base, tier, files) == {f \in files : f[1] = base /\ f[2] = tier /\ f[3] \in Extensions}

\* Mutant: one candidate is followed, as if the bundler's order were known.
FirstCandidate(base, dot, files) ==
  LET typed == {f \in Tier(base, "file", files) : f[3] = "ts"}
  IN IF dot # NoDot THEN Exactly(base, dot, files)
     ELSE IF typed # {} THEN typed
     ELSE IF Tier(base, "file", files) # {} THEN Tier(base, "file", files) ELSE Tier(base, "index", files)

\* resolveFileAtPath: that very file when the name has a dot; else the file tier
\* before the index tier, and within a tier every candidate, for the bundler's
\* own order is not known.
Candidates(base, dot, files) ==
  IF dot # NoDot THEN Exactly(base, dot, files)
  ELSE IF Tier(base, "file", files) # {} THEN Tier(base, "file", files) ELSE Tier(base, "index", files)

Edges(file, imports, files, aliases) ==
  UNION {Candidates(BaseOf(s, aliases), s.dot, files) : s \in Extracted(file, imports)}

\* One round of a walk of a graph, and the walk itself: next has the neighbours
\* of each node that has any, and no node is further than there are such nodes.
Wider(seen, next) == seen \cup UNION {next[x] : x \in seen \cap DOMAIN next}
Walk(from, next) ==
  LET seen[n \in 0..Cardinality(DOMAIN next)] == IF n = 0 THEN from ELSE Wider(seen[n - 1], next)
  IN seen[Cardinality(DOMAIN next)]

\* importClosure, over the files buildImportGraph has visited.
Closure(entry, imports, files, aliases) ==
  Walk({entry}, [f \in DOMAIN imports |-> Edges(f, imports, files, aliases)])

(* ----------------------- what the bundler loads (external) ------------- *)

LoadedForms == {"line", "lines", "dynamic", "export", "effect"}

\* The bundler knows every alias, also one of another name.
BundlerTarget(aliases) == IF aliases.hidden # NoAlias THEN aliases.hidden ELSE AliasTarget(aliases)
Bundled(spec, aliases) ==
  CASE spec.kind = "relative" -> spec.base
    [] spec.kind \in {"alias", "prefixed"} /\ BundlerTarget(aliases) # NoAlias -> <<BundlerTarget(aliases), spec.base[2]>>
    [] OTHER -> NoBase

\* A name with a dot that is no file: ./part.js may be part.ts, and ./part.utils
\* part.utils.ts.
Instead(dot) == CASE dot = "js" -> {"ts", "tsx"} [] dot = "utils" -> {"utils.ts"} [] OTHER -> {}

MayTake(base, dot, files) ==
  LET named == {f \in files : f[1] = base /\ f[2] = "file" /\ f[3] \in Instead(dot)}
  IN IF dot # NoDot THEN IF Exactly(base, dot, files) # {} THEN Exactly(base, dot, files) ELSE named
     ELSE IF Tier(base, "file", files) # {} THEN Tier(base, "file", files) ELSE Tier(base, "index", files)

\* It takes one of them, in an order usabl cannot read.  prefers: the extension
\* it tries first.
Loads(spec, files, aliases, prefers) ==
  LET all == MayTake(Bundled(spec, aliases), spec.dot, files)
      first == {f \in all : f[3] = prefers}
  IN IF spec.written \notin LoadedForms \/ all = {} THEN {}
     ELSE IF first # {} THEN first ELSE {CHOOSE f \in all : TRUE}

Loaded(entry, imports, files, aliases, prefers) ==
  Walk({entry}, [f \in DOMAIN imports |-> UNION {Loads(s, files, aliases, prefers) : s \in imports[f]}])

\* The imports usabl finds in the text and takes for the path the bundler does.
ReadAsLoaded(spec, files, aliases) ==
  /\ spec.written \in ReadForms
  /\ BaseOf(spec, aliases) = Bundled(spec, aliases)
  /\ spec.dot # NoDot => Exactly(BaseOf(spec, aliases), spec.dot, files) # {}

LoadedAsRead(entry, imports, files, aliases, prefers) ==
  Loaded(entry, [f \in DOMAIN imports |-> {s \in imports[f] : ReadAsLoaded(s, files, aliases)}],
         files, aliases, prefers)

(* ------------------------- workspace packages -------------------------- *)

CONSTANT Packages   \* the folders that may be workspace packages

ASSUME PackagesAssumption == IsFiniteSet(Packages) /\ "" \notin Packages /\ "app" \notin Packages

Folders == Packages \cup {"", "app"}

(***************************************************************************)
(* A manifest: whether the file is there and parses, the name, the names   *)
(* depended on (the real name of an alias included), the folders a path    *)
(* dependency points at, and the rest of the file.  The root's manifest    *)
(* also lists the workspace patterns, a pattern being <<sign, folder>>.    *)
(***************************************************************************)
Absent == [there |-> FALSE, parses |-> TRUE, name |-> "", deps |-> {}, dirs |-> {},
           version |-> 0, workspaces |-> <<>>]

\* workspacePatterns: a root that is there and does not parse is unknown.
RootReads(side) == ~side.manifests[""].there \/ side.manifests[""].parses
Patterns(side) == side.manifests[""].workspaces

\* workspaceDirs: the folders named and there, less the folders a ! names.
Named(patterns, sign) == {patterns[i][2] : i \in {j \in DOMAIN patterns : patterns[j][1] = sign}}
WorkspaceDirs(patterns, tree) ==
  {d \in Named(patterns, "+") \ Named(patterns, "-") : tree.manifests[d].there}

\* readManifest, readManifestBoth: the dependencies of either version count.
DepsKnown(m) == m.there /\ m.parses
BothKnown(tree, base, d) ==
  DepsKnown(tree.manifests[d]) /\ (base.manifests[d].there => base.manifests[d].parses)
NameOf(tree, base, d) ==
  IF DepsKnown(tree.manifests[d]) /\ tree.manifests[d].name # "" THEN tree.manifests[d].name
  ELSE IF DepsKnown(base.manifests[d]) THEN base.manifests[d].name ELSE ""
\* Mutant: the dependencies are those of the tree alone.
TreeDeps(tree, base, d) == tree.manifests[d].deps

DepsOf(tree, base, d)    == tree.manifests[d].deps \cup base.manifests[d].deps
DepDirsOf(tree, base, d) == tree.manifests[d].dirs \cup base.manifests[d].dirs

(***************************************************************************)
(* dependsOn, with the source scan of undeclaredLinks: the names the       *)
(* sources of a package mention and the folders its aliases point into,    *)
(* which only the tree has.                                                *)
(***************************************************************************)
DependsOn(d, e, tree, base) ==
  \/ ~BothKnown(tree, base, d)
  \/ NameOf(tree, base, e) = ""
  \/ NameOf(tree, base, e) \in DepsOf(tree, base, d) \cup tree.mentions[d]
  \/ e \in DepDirsOf(tree, base, d) \cup tree.aliased[d]

\* linkedPackages: the packages linked to from, through packages of dirs.
Reached(from, dirs, tree, base) ==
  Walk(from, [d \in Folders |-> {e \in dirs : d # e /\ DependsOn(d, e, tree, base)}])

\* appPackages: the nearest package of what the config points into.
AppPackage(dirs) == IF "app" \in dirs THEN "app" ELSE ""

\* ownerOf: files of a folder that is no workspace package are the root's.
\* A file is [dir, kind]: kind is source, test, doc, manifest or lock.
Owned(file, dirs) == file.dir \in dirs

\* workspaceDependencyGaps: the changed files no screen can be named for.
WorkspaceGaps(files, tree, base) ==
  LET candidates == {f \in files : f.kind # "doc"}
      dirs == WorkspaceDirs(Patterns(tree) \o Patterns(base), tree)
      app == AppPackage(dirs)
  IN IF candidates = {} THEN {}
     ELSE IF ~RootReads(tree) \/ ~RootReads(base) THEN candidates
     ELSE {f \in candidates : Owned(f, dirs) /\ f.dir # app /\ f.dir \in Reached({app}, dirs, tree, base)}

(* -------------------------- dependency changes ------------------------- *)

\* appDirs: every folder from the app up to the root with a package.json on
\* either side.
AppDirs(tree, base) == {d \in {"", "app"} : tree.manifests[d].there \/ base.manifests[d].there}

\* dependencyFields: unreadable on either side counts as changed.
FieldsDiffer(d, tree, base) ==
  \/ ~tree.manifests[d].parses \/ ~base.manifests[d].parses
  \/ tree.manifests[d].deps # base.manifests[d].deps
  \/ tree.manifests[d].dirs # base.manifests[d].dirs
  \/ tree.manifests[d].version # base.manifests[d].version

\* dependencyChanges.  version stands for the versions the fields ask for.
DependencyChanges(files, tree, base) ==
  {f \in files : \/ f.kind = "lock" /\ f.dir \in AppDirs(tree, base) \cup {""}
                 \/ f.kind = "manifest" /\ f.dir \in AppDirs(tree, base) /\ FieldsDiffer(f.dir, tree, base)}

(* ----------------- what the app really renders (external) -------------- *)

\* A package is linked when either side declares it, by name or by path, or
\* the tree's code names it or points into it; links go through packages.
LinkedOn(side, d, e) ==
  \/ side.manifests[e].name # "" /\ side.manifests[e].name \in side.manifests[d].deps \cup side.mentions[d]
  \/ e \in side.manifests[d].dirs \cup side.aliased[d]

LinkedFrom(from, side, dirs) == Walk(from, [d \in Folders |-> {e \in dirs : LinkedOn(side, d, e)}])
=============================================================================
