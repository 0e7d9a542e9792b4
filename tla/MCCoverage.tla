----------------------------- MODULE MCCoverage -----------------------------
(***************************************************************************)
(* Small repositories: one part of each is edited.                         *)
(***************************************************************************)
EXTENDS Coverage, TLC

\* A module as its author writes it: a node and its children.
Tree(node, kids)   == [node |-> node, kids |-> kids]
Page(path, shows)  == Tree([Plain EXCEPT !.path = path, !.shows = shows], <<>>)
Group(kids)        == Tree([Plain EXCEPT !.k = "group"], kids)
Parent(path, kids) == Tree([Plain EXCEPT !.path = path], kids)
Const(how, kids)   == Tree([Plain EXCEPT !.k = "name", !.how = how], kids)
Mapped(list, how, via) == Tree([Plain EXCEPT !.k = "map", !.how = how, !.via = via], <<list>>)
Router(kind, kids) == [kind |-> kind, kids |-> kids]

RECURSIVE Below(_, _)
Below(n, at) ==
  (at :> n.node) @@ FoldLeftDomain(LAMBDA m, i : m @@ Below(n.kids[i], Append(at, i)), <<>>, n.kids)
Source(routers, loose, strange) ==
  File([i \in DOMAIN routers |-> routers[i].kind],
       FoldLeftDomain(LAMBDA m, i : m @@ FoldLeftDomain(LAMBDA l, j : l @@ Below(routers[i].kids[j], <<i, j>>),
                                                        <<>>, routers[i].kids),
                      <<>>, routers),
       loose, strange)

Paths == {Rel(<<"a">>), Abs(<<"a">>), Rel(<<"a", "b">>), Rel(<<"odd">>), Rel(<<"*">>), Rel(<<"a", "*">>), CodePath}

\* Only an object can have a computed key.
Leaves(kind) ==
  {Page(p, "A") : p \in Paths}
  \cup {[Page(p, "A") EXCEPT !.node.spread = s] : p \in {Rel(<<"a">>), NoPath}, s \in {"first", "last"}}
  \cup {[Page(NoPath, "A") EXCEPT !.node.index = TRUE]}
  \cup {[Page(Rel(<<"a">>), "A") EXCEPT !.node.how = IF kind \in {"data", "hook"} THEN "computed" ELSE "once"]}
  \cup {Tree([Plain EXCEPT !.k = k], <<>>) : k \in {"code", "other", "redirect"}}

InB == Page(Rel(<<"b">>), "B")
Nodes(kind) ==
  Leaves(kind)
  \cup {Parent(p, <<l>>) : p \in {Rel(<<"c">>), NoPath, CodePath}, l \in Leaves(kind)}
  \cup {[Parent(Rel(<<"c">>), <<InB>>) EXCEPT !.node.spread = s] : s \in {"first", "last"}}
  \cup {Tree([Plain EXCEPT !.k = k], <<l, InB>>) : k \in {"group", "pick"}, l \in Leaves(kind)}
  \cup {Const(h, <<l>>) : h \in {"once", "twice", "mutated"}, l \in {Page(Rel(<<"a">>), "A"), Page(CodePath, "A")}}
  \cup {Mapped(list, how, via) : list \in {Group(<<Parent(Rel(<<"c">>), <<InB>>), Page(Rel(<<"a">>), "A")>>),
                                           Const("once", <<InB>>), Const("mutated", <<InB>>)},
                                 how \in {"once", "wrapped", "odd"},
                                 via \in {{}, {"filter"}, {"flatMap"}, {"slice"}}}
  \cup {Parent(Rel(<<"c">>), <<Mapped(Group(<<InB>>), "once", {})>>)}

Kinds == {"data", "elements", "hook", "jsx"}
OneRouter == UNION {{Source(<<Router(k, <<n>>)>>, <<>>, FALSE) : n \in Nodes(k)} : k \in Kinds}
OddFiles ==
  {Broken, Source(<<Router("jsx", <<Page(Rel(<<"a", "*">>), "A"), Page(Rel(<<"b", "*">>), "B")>>)>>, <<>>, FALSE),
   Source(<<>>, <<InB.node>>, FALSE), Source(<<>>, <<>>, TRUE), Source(<<Router("data", <<InB>>)>>, <<InB.node>>, TRUE)}
  \cup {Source(<<Router(k, <<InB>>), Router(j, <<Page(p, "A")>>)>>, <<>>, FALSE) :
          k \in Kinds, j \in Kinds, p \in {Abs(<<"a">>), Rel(<<"a">>)}}

MCRouters ==
  {Source(<<Router("jsx", <<Page(Rel(<<"a">>), "A"), InB>>)>>, <<>>, FALSE),
   Source(<<Router("jsx", <<Const("mutated", <<InB>>), Page(Rel(<<"a">>), "A")>>)>>, <<>>, FALSE),
   Source(<<Router("jsx", <<Page(Rel(<<"odd">>), "A"), InB>>)>>, <<>>, FALSE)}

\* ------------------------------ the UI code

FileA == <<<<"app", "A">>, "file", "tsx">>
FileB == <<<<"app", "B">>, "file", "tsx">>
Part  == <<<<"app", "part">>, "file", "ts">>
PartX == <<<<"app", "part">>, "file", "tsx">>
PartI == <<<<"app", "part">>, "index", "ts">>
PartU == <<<<"app", "part">>, "file", "utils.ts">>
Lib   == <<<<"lib", "part">>, "file", "ts">>
MCShown == [A |-> FileA, B |-> FileB, Both |-> Several]
MCFileOrder == <<FileA, FileB, Lib, Part, PartI, PartU, PartX, RouterFile>>

ToPart == Relative("app", "part")
Written(how) == [ToPart EXCEPT !.written = how]
Dotted(dot) == [ToPart EXCEPT !.dot = dot]
Prefixed(name) == [Aliased(name) EXCEPT !.kind = "prefixed"]
MCSpecs == {{}, {ToPart, Bare("part")}, {Relative("app", "B"), Written("export")}}

Code(files, specs, aliases, prefers) ==
  LET all == files \cup {FileA, FileB}
  IN [imports |-> [f \in all |-> IF f \in DOMAIN specs THEN {specs[f]} ELSE {}], files |-> all \cup {RouterFile},
      aliases |-> aliases, prefers |-> prefers]
Alias(vite, tsconfig, hidden) == [vite |-> vite, tsconfig |-> tsconfig, hidden |-> hidden]
Unaliased == Alias(NoAlias, NoAlias, NoAlias)

\* A's import in every form, and B's or none; and A's through an alias.
Codes ==
  {Code({Part, PartX, PartI, PartU}, m, Unaliased, p) :
     m \in {(FileA :> s) : s \in {ToPart, Dotted("ts"), Dotted("utils")}}
           \cup {(FileA :> s) @@ (FileB :> ToPart) :
                   s \in {Written(h) : h \in {"lines", "dynamic", "erased"}} \cup {Dotted("js")}},
     p \in {"ts", "tsx"}}
  \cup {Code({PartI, Lib}, FileA :> s, a, "ts") :
          s \in {ToPart, Aliased("part"), Prefixed("part")},
          a \in {Alias("app", "lib", NoAlias), Alias(NoAlias, "lib", NoAlias), Alias(NoAlias, "app", "lib")}}

Surface(id, url, files, overrides) == [id |-> id, url |-> url, files |-> files, overrides |-> overrides]
Config(surfaces, wide) == [there |-> TRUE, surfaces |-> surfaces, globs |-> {"app"}, wide |-> wide]
BareConfig == Config(<<>>, {RouterFile})
NoConfig == [BareConfig EXCEPT !.there = FALSE]
Configs == {Config(s, w) :
              s \in {<<>>, <<Surface(<<"a">>, <<"app", "a", "?q">>, {FileA, PartI}, TRUE)>>,
                     <<Surface(<<"extra">>, <<"app", "b">>, {PartX, FileB}, FALSE)>>,
                     <<Surface(<<"b">>, <<"app", "x">>, {Part}, FALSE)>>},
              w \in {{}, {RouterFile, FileB}}}

\* ------------------------------ the packages

MCPackages == {"ui", "core"}
Manifest1(name, deps, dirs, workspaces) ==
  [Absent EXCEPT !.there = TRUE, !.name = name, !.deps = deps, !.dirs = dirs, !.workspaces = workspaces]
Members == <<<<"+", "app">>, <<"+", "ui">>, <<"+", "core">>>>
Side(root, app, ui, core, mentions, aliased) ==
  [manifests |-> (("" :> root) @@ ("app" :> app) @@ ("ui" :> ui) @@ ("core" :> core)),
   mentions |-> [d \in Folders |-> IF d = "app" THEN mentions ELSE {}],
   aliased |-> [d \in Folders |-> IF d = "app" THEN aliased ELSE {}]]
MCSides ==
  {Side(root, app, ui, core, m, al) :
     root \in {Manifest1("root", {}, {}, Members), Manifest1("root", {}, {}, Append(Members, <<"-", "core">>)),
               [Manifest1("root", {}, {}, Members) EXCEPT !.parses = FALSE]},
     app \in {Manifest1("app", {"ui"}, {}, <<>>), Manifest1("app", {}, {"core"}, <<>>), Manifest1("app", {}, {}, <<>>)},
     ui \in {Manifest1("ui", {"core"}, {}, <<>>), Manifest1("ui", {}, {}, <<>>), Absent},
     core \in {Manifest1("core", {}, {}, <<>>)},
     m \in {{}, {"ui"}}, al \in {{}}}

\* ------------------------------ the docs

MCTitles == <<[root |-> "p", id |-> "guide"], [root |-> "q", id |-> "guide"]>>
MCDocTexts ==
  {<<>>, <<Include("s")>>, <<Include("t")>>, <<Set("dir", "t"), IncludeOf("dir")>>,
   <<Delimiter("verbatim", 4), Delimiter("verbatim", 5), Include("t"), Delimiter("verbatim", 4), Include("s")>>,
   <<Delimiter("comment", 4), Include("t"), Delimiter("comment", 4), Include("s"), IncludeOf("dir")>>}
Docs == {("p" :> p) @@ ("q" :> q) @@ ("s" :> s) @@ ("t" :> t) :
           p \in MCDocTexts, q \in {<<Include("s"), Include("t")>>}, s \in {<<IncludeOf("dir")>>}, t \in {<<>>, <<Set("dir", "t")>>}}

\* ------------------------------ the starts

PlainRouter == Source(<<Router("jsx", <<Page(Rel(<<"a">>), "A"), InB>>)>>, <<>>, FALSE)
PlainSide == Side(Manifest1("root", {}, {}, Members), Manifest1("app", {"ui"}, {}, <<>>),
                  Manifest1("ui", {}, {}, <<>>), Manifest1("core", {}, {}, <<>>), {}, {})
Repo == [router |-> PlainRouter, sidecar |-> NoSidecar, config |-> BareConfig,
         code |-> Code({}, <<>>, Unaliased, "ts"), side |-> PlainSide,
         docs |-> <<>>, book |-> NoBook]
BothListed == Sidecar({Entry(<<"a">>, FileA), Entry(<<"b">>, FileB)}, {})

ReadStarts == {[Repo EXCEPT !.router = f, !.sidecar = Sidecar({}, {})] : f \in OneRouter \cup OddFiles}
RouteStarts == {[Repo EXCEPT !.router = f, !.config = NoConfig] : f \in MCRouters}
ImportStarts ==
  {[Repo EXCEPT !.sidecar = s, !.code = c, !.config = g] :
     s \in {BothListed, Sidecar({Entry(<<"a">>, FileA), Entry(<<"b">>, NoFile)}, {})}, c \in Codes, g \in Configs}
PackageStarts == {[Repo EXCEPT !.side = s, !.sidecar = b] : s \in MCSides, b \in {Sidecar({}, {})}}
DocStarts == {[Repo EXCEPT !.docs = d, !.book = DocsDraft(MCTitles, shared, d)] : d \in Docs, shared \in {{}, {"t"}}}

In(part, trees) == {[area |-> part, tree |-> t] : t \in trees}
OnlyPackages == In("packages", PackageStarts)
MCStarts == In("read", ReadStarts) \cup In("routes", RouteStarts) \cup In("imports", ImportStarts)
            \cup OnlyPackages \cup In("docs", DocStarts)
=============================================================================
