----------------------------- MODULE RouteBook ------------------------------
(***************************************************************************)
(* The list of routes usabl goes by.  First how it reads the routes of a   *)
(* router module (src/coverage/router-parse.ts), and what React Router     *)
(* serves from the same source.  Then the list itself: usabl.routes.json   *)
(* when there is one, the router read as text when there is none           *)
(* (src/coverage/route-manifest.ts), what `usabl drift routes` says of the *)
(* two (src/drift/routes.ts), and the draft `usabl init` derives           *)
(* (src/init/index.ts).                                                    *)
(*                                                                         *)
(* The nodes of a module stand by their positions: <<i, j, k>> is the k-th *)
(* child of the j-th node of router i, and 0 after a position is its path. *)
(* A path is a sequence of segments, with << >> for "/".                   *)
(***************************************************************************)
EXTENDS Naturals, Sequences, FiniteSets, SequencesExt

NoPath      == [form |-> "none", abs |-> FALSE, segs |-> <<>>]
CodePath    == [form |-> "code", abs |-> FALSE, segs |-> <<>>]
Abs(segs)   == [form |-> "text", abs |-> TRUE, segs |-> segs]
Rel(segs)   == [form |-> "text", abs |-> FALSE, segs |-> segs]

(***************************************************************************)
(* k: route, group (a fragment or an array), pick (a condition), name (a   *)
(* const), map (a list rendered through map), code (any other call), other *)
(* (an element that is not a Route), redirect.                             *)
(* how: a name is bound once, twice or mutated; a map renders a route, a   *)
(* wrapped element or something odd; an object may have a computed key.    *)
(* spread: "first" stands before everything else, "last" after it.         *)
(* shows: the component rendered; for code, its source text.               *)
(***************************************************************************)
Plain == [k |-> "route", path |-> NoPath, index |-> FALSE, spread |-> "none",
          shows |-> "none", how |-> "once", via |-> {}]

(***************************************************************************)
(* A router module: whether it parses, its routers (data for a factory     *)
(* call, elements for createRoutesFromElements, hook for useRoutes, jsx    *)
(* for <Routes> and <Switch>) and their nodes, the <Route>s outside every  *)
(* one of them, and a call the reader cannot follow (an unknown ...Router  *)
(* or a wrapper).                                                          *)
(***************************************************************************)
File(routers, nodes, loose, strange) ==
  [parses |-> TRUE, routers |-> routers, nodes |-> nodes, loose |-> loose, strange |-> strange]
Broken == [File(<<>>, <<>>, <<>>, FALSE) EXCEPT !.parses = FALSE]

Positions(f) == DOMAIN f.nodes
HasKids(f, p) == \E q \in Positions(f) : Front(q) = p

(***************************************************************************)
(* A module as an author can write it: every node stands in a router, each *)
(* below the one before it; an index route has no children, which React    *)
(* Router refuses; only an object can have a computed key; and no segment  *)
(* of a path is the mark of an unknown one.                                *)
(***************************************************************************)
Path == [form : {"none", "code", "text"}, abs : BOOLEAN, segs : Seq(STRING \ {"?"})]
Node == [k : {"route", "group", "pick", "name", "map", "code", "other", "redirect"}, path : Path, index : BOOLEAN,
         spread : {"none", "first", "last"}, shows : STRING,
         how : {"once", "twice", "mutated", "wrapped", "odd", "computed"}, via : SUBSET STRING]

WellFormed(f) ==
  /\ f.routers \in Seq({"data", "elements", "hook", "jsx"})
  /\ f.loose \in Seq(Node) /\ f.strange \in BOOLEAN /\ f.parses \in BOOLEAN
  /\ \A p \in Positions(f) :
       LET n == f.nodes[p]
       IN /\ p \in Seq(Nat \ {0}) /\ Len(p) >= 2 /\ p[1] \in DOMAIN f.routers
          /\ Len(p) > 2 => Front(p) \in Positions(f)
          /\ n \in Node /\ (n.path.form # "text" => ~n.path.abs /\ n.path.segs = <<>>)
          /\ n.k = "route" /\ n.path.form = "none" /\ n.index => ~HasKids(f, p)
          /\ n.how = "computed" =>
               \/ f.routers[p[1]] \in {"data", "hook"}
               \/ \E q \in Positions(f) : f.nodes[q].k = "map" /\ q # p /\ IsPrefix(q, p)

\* The list a map is called on.
ListAt(p) == Append(p, 1)

(* -------------------------- what the reader keeps ---------------------- *)

Top  == [st |-> "top",  at |-> <<>>]
Lost == [st |-> "lost", at |-> <<>>]
At(p) == [st |-> "at", at |-> p]

Nothing == [sites |-> {}, gaps |-> {}, assumed |-> {}]

\* gap: the entry's id is a hash of the reason and the declaration's own text,
\* which is every node of it, and for a name the name alone.
Gap(at, why, text) == [Nothing EXCEPT !.gaps = {[at |-> at, id |-> <<why, text>>]}]
Site(at, path, shows) == [Nothing EXCEPT !.sites = {[at |-> at, path |-> path, shows |-> shows]}]
TextOf(f, p) ==
  LET under == {q \in Positions(f) : IsPrefix(p, q) /\ (f.nodes[p].k = "name" => q = p)}
  IN [r \in {SubSeq(q, Len(p) + 1, Len(q)) : q \in under} |-> f.nodes[p \o r]]
PathText(n) == [r \in {<<0>>} |-> n.path]
OneNode(n) == [r \in {<<>>} |-> n]

(***************************************************************************)
(* How a node is read: g is jsx, data or map, and unread where the reader  *)
(* does not come; parent is the path of the nearest route above it, Top    *)
(* where there is none and Lost where it was not read; base is what a      *)
(* top-level relative path is relative to, Lost when the reader cannot     *)
(* tell; nested lists are read when the list passes through a flattening   *)
(* method.                                                                 *)
(***************************************************************************)
Mode(g, base) == [g |-> g, parent |-> Top, base |-> base, nested |-> TRUE]
Unread == Mode("unread", Lost)

\* joinPath: the full path, or Lost with the reason.
Base(x) == IF x.parent.st = "top" THEN x.base ELSE x.parent
Joined(path, x) ==
  IF path.abs THEN At(path.segs)
  ELSE IF Base(x).st = "lost" THEN Lost ELSE At(Base(x).at \o path.segs)
WhyLost(x) == IF x.parent.st = "lost" THEN "unknownParent" ELSE "ambiguousBase"

\* Mutant: every path that ends in * is a catch-all.
AnyStar(path) == path.segs # <<>> /\ Last(path.segs) = "*"

CatchAll(path) == ~path.abs /\ path.segs = <<"*">>
EndsInStar(path) == path.segs # <<>> /\ Last(path.segs) = "*"

ConfigListMethods == {"reduce", "flatMap", "flat", "filter"}
FlatteningMethods == {"reduce", "flatMap", "flat"}

\* Mutant: a route whose path is unread passes its own parent on.
PassedAnyway(n, x) ==
  CASE n.path.form \in {"none", "code"} -> x.parent
    [] OTHER -> Joined(n.path, x)

\* What a route passes to its children as their parent.
Passed(n, x) ==
  CASE n.path.form = "none" -> x.parent
    [] n.path.form = "code" -> Lost
    [] OTHER -> Joined(n.path, x)

IsIndex(n) == n.path.form = "none" /\ n.index

\* readJsxRoute: a spread can replace a path before it, or supply a missing one.
ElementHidden(n) == n.spread = "last" \/ (n.spread = "first" /\ n.path.form = "none")

\* readDataEntry: a spread can supply what is written before it or not at all.
ObjectHidden(f, p, x) ==
  LET n == f.nodes[p]
  IN \/ n.how = "computed" \/ n.spread = "last"
     \/ n.spread = "first" /\ (n.path.form = "none" \/ ~HasKids(f, p) \/ x.g = "map")

\* mappedRouteShape: the callback renders a <Route> of the item, bare or
\* wrapped with something else; the second is a guess.
ShapeRead(n) == n.how \in {"once", "wrapped"}

\* traceConfigList: from the methods a list passes through to the list.
MapRead(f, p) ==
  /\ ShapeRead(f.nodes[p]) /\ f.nodes[p].via \subseteq ConfigListMethods
  /\ f.nodes[ListAt(p)].k = "name" => f.nodes[ListAt(p)].how = "once"

\* How the children of a node are read: the descent of readJsxChild,
\* readJsxExpression and readDataRoutes.
Handed(f, p, x) ==
  LET n == f.nodes[p]
  IN CASE n.k = "route" /\ x.g = "jsx" /\ ElementHidden(n) -> [x EXCEPT !.parent = Lost]
       [] n.k = "route" /\ x.g = "jsx" /\ ~ElementHidden(n) /\ ~IsIndex(n) -> [x EXCEPT !.parent = Passed(n, x)]
       [] n.k = "route" /\ x.g \in {"data", "map"} /\ x.nested /\ ~ObjectHidden(f, p, x) ->
            [x EXCEPT !.parent = Passed(n, x)]
       [] n.k = "group" /\ x.g # "unread" -> x
       [] n.k = "pick" /\ x.g = "jsx" -> x
       [] n.k = "name" /\ x.g # "unread" /\ n.how = "once" -> x
       [] n.k = "map" /\ x.g = "jsx" /\ MapRead(f, p) ->
            [g |-> "map", parent |-> x.parent, base |-> x.base, nested |-> n.via \cap FlatteningMethods # {}]
       [] OTHER -> Unread

OnlyRouter(f) == Len(f.routers) = 1 /\ f.routers[1] \in {"hook", "jsx"}

RootMode(f, kind) ==
  CASE kind = "data" -> Mode("data", At(<<>>))
    [] kind = "elements" -> Mode("jsx", At(<<>>))
    [] kind = "hook" -> Mode("data", IF OnlyRouter(f) THEN At(<<>>) ELSE Lost)
    [] kind = "jsx" -> Mode("jsx", IF OnlyRouter(f) THEN At(<<>>) ELSE Lost)

\* How the node at a position is read: from its router down to it.
Context(f, p) ==
  LET down[d \in 2..Len(p)] ==
        IF d = 2 THEN RootMode(f, f.routers[p[1]]) ELSE Handed(f, SubSeq(p, 1, d - 1), down[d - 1])
  IN down[Len(p)]

\* The path attribute of a route, as both readers take it.
PathRead(n, p, x, shows) ==
  IF n.path.form = "code" THEN Gap(Append(p, 0), "unresolvedPath", PathText(n))
  ELSE IF Joined(n.path, x).st = "lost" THEN Gap(Append(p, 0), WhyLost(x), PathText(n))
  ELSE IF ~EndsInStar(n.path) THEN Site(p, Joined(n.path, x).at, shows)
  ELSE IF CatchAll(n.path) THEN Nothing ELSE Gap(Append(p, 0), "splat", PathText(n))

IndexRead(f, p, x, shows) ==
  IF Base(x).st = "lost" THEN Gap(p, WhyLost(x), TextOf(f, p)) ELSE Site(p, Base(x).at, shows)

RouteRead(f, p, x, shows) ==
  LET n == f.nodes[p]
  IN CASE n.path.form # "none" -> PathRead(n, p, x, shows)
       [] IsIndex(n) -> IndexRead(f, p, x, shows)
       [] OTHER -> Nothing

ReadElement(f, p, x) ==
  LET n == f.nodes[p]
  IN IF ElementHidden(n) THEN Gap(p, "spreadRoute", TextOf(f, p))
     ELSE RouteRead(f, p, x, IF IsIndex(n) \/ ~HasKids(f, p) THEN n.shows ELSE "none")

ReadObject(f, p, x) ==
  LET n == f.nodes[p]
  IN IF ObjectHidden(f, p, x) THEN Gap(p, "spreadRoute", TextOf(f, p))
     ELSE RouteRead(f, p, x, IF (x.nested /\ HasKids(f, p)) \/ n.spread # "none" THEN "none" ELSE n.shows)

\* joinedNested, skippedNested: an object of a mapped list whose path was joined
\* to its parent's, or whose nested list was left out.
ObjectGuessed(f, q, x) ==
  LET n == f.nodes[q]
  IN /\ n.k = "route" /\ x.g = "map" /\ ~ObjectHidden(f, q, x)
     /\ \/ n.path.form = "text" /\ ~n.path.abs /\ x.parent.st = "at"
        \/ ~x.nested /\ HasKids(f, q)

\* readConfigMap: a list of objects rendered one <Route> each, read as far as
\* the reader can follow it and named as assumed where it had to guess.
ReadMap(f, p) ==
  LET n == f.nodes[p]
      list == f.nodes[ListAt(p)]
      guessed == \/ n.via # {} \/ n.how = "wrapped"
                 \/ \E q \in Positions(f) : IsPrefix(p, q) /\ ObjectGuessed(f, q, Context(f, q))
  IN CASE MapRead(f, p) ->
            [Nothing EXCEPT !.assumed = IF guessed THEN {[at |-> p, id |-> <<"assumed", TextOf(f, p)>>]} ELSE {}]
       [] ShapeRead(n) /\ n.via \subseteq ConfigListMethods /\ list.k = "name" /\ list.how = "mutated" ->
            Gap(p, "mutatedList", TextOf(f, ListAt(p)))
       [] OTHER -> Gap(p, "computedRoutes", TextOf(f, p))

\* What the reader takes from a node, its children left out.
ReadNode(f, p, x) ==
  LET n == f.nodes[p]
  IN CASE x.g = "unread" -> Nothing
       [] n.k = "route" /\ x.g = "jsx" -> ReadElement(f, p, x)
       [] n.k = "route" /\ x.g \in {"data", "map"} -> ReadObject(f, p, x)
       [] n.k = "group" /\ x.g # "unread" -> Nothing
       [] n.k \in {"pick", "redirect"} /\ x.g = "jsx" -> Nothing
       [] n.k = "name" /\ x.g # "unread" /\ n.how = "once" -> Nothing
       [] n.k = "name" /\ x.g # "unread" /\ n.how = "mutated" -> Gap(p, "mutatedList", TextOf(f, p))
       [] n.k = "map" /\ x.g = "jsx" -> ReadMap(f, p)
       [] n.k = "other" /\ x.g = "jsx" -> Gap(p, "nonRouteChild", TextOf(f, p))
       [] OTHER -> Gap(p, "computedRoutes", TextOf(f, p))
Read(f, p) == ReadNode(f, p, Context(f, p))

WholeFile(why) == [Nothing EXCEPT !.gaps = {[at |-> <<>>, id |-> <<"whole", why>>]}]
IsWhole(gap) == gap.id[1] = "whole"

StrangeRead(f) == IF f.strange THEN Gap(<<0>>, "unknownFactory", OneNode(Plain)) ELSE Nothing
LooseRead(f, i) == Gap(<<Len(f.routers) + i>>, "looseRoute", OneNode(f.loose[i]))

\* readRouterSource
ReadFile(f) ==
  LET read == {Read(f, p) : p \in Positions(f)} \cup {LooseRead(f, i) : i \in DOMAIN f.loose} \cup {StrangeRead(f)}
  IN IF ~f.parses THEN WholeFile("syntax")
     ELSE IF f.routers = <<>> /\ (f.loose # <<>> \/ f.strange) THEN WholeFile("noRouter")
     ELSE [part \in {"sites", "gaps", "assumed"} |-> UNION {r[part] : r \in read}]

\* mergeParsedRoutes: a path keeps a component when exactly one was read for it.
PathsRead(read) == {s.path : s \in read.sites}
ShownAt(read, p) ==
  LET named == {s.shows : s \in {t \in read.sites : t.path = p}} \ {"none"}
  IN IF Cardinality(named) = 1 THEN CHOOSE x \in named : TRUE ELSE "none"

\* parseRouterFallback: at check time nothing confirmed an assumption.
Unreadable(read) == read.gaps \cup read.assumed

(* ----------------- what React Router serves (external) ----------------- *)

Unknown == <<"?">>
Serve(at, path, shows) == {[at |-> at, path |-> path, shows |-> shows]}

\* The true path of a route: base is Unknown where a router may be mounted
\* below a route of another file.
TruePath(parent, path) ==
  CASE path.form = "code" -> Unknown
    [] path.form = "none" -> parent
    [] path.abs -> path.segs
    [] OTHER -> IF parent = Unknown THEN Unknown ELSE parent \o path.segs

\* A const list bound once and never changed is rendered as it is written.
Spelled(n) == n.k = "name" => n.how = "once"

\* A list rendered one <Route> each, as it is written: its objects are routes,
\* and the objects in them are not.
PlainMap(f, p) ==
  f.nodes[p].how = "once" /\ f.nodes[p].via = {} /\ Spelled(f.nodes[ListAt(p)])

\* Where a node is mounted: as a route, as an object of a mapped list, or not
\* at all; and the true path of what it stands in.
Mount(as, parent) == [as |-> as, parent |-> parent]
NotMounted == Mount("nothing", Unknown)

OwnPath(n, parent) == IF n.spread = "last" \/ n.how = "computed" THEN Unknown ELSE TruePath(parent, n.path)

Mounts(f, p, y) ==
  LET n == f.nodes[p]
  IN CASE n.k = "route" /\ y.as = "route" -> Mount("route", OwnPath(n, y.parent))
       [] n.k \in {"group", "pick", "name"} /\ Spelled(n) -> y
       [] n.k = "map" /\ y.as = "route" /\ PlainMap(f, p) -> Mount("object", y.parent)
       [] OTHER -> NotMounted

Mounted(f, p) ==
  LET down[d \in 2..Len(p)] ==
        IF d = 2
        THEN Mount("route", IF f.routers[p[1]] \in {"hook", "jsx"} /\ ~OnlyRouter(f) THEN Unknown ELSE <<>>)
        ELSE Mounts(f, SubSeq(p, 1, d - 1), down[d - 1])
  IN down[Len(p)]

\* What is served at a node: a layout, a redirect and a catch-all are no screen.
IsLayout(n) == n.path.form = "none" /\ n.spread = "none" /\ ~n.index
Shows(f, p, y) ==
  LET n == f.nodes[p]
  IN CASE n.k = "route" -> ~IsLayout(n) /\ (n.path.abs \/ n.path.segs # <<"*">>)
       [] n.k \in {"group", "pick", "name"} -> ~Spelled(n)
       [] n.k = "map" -> ~(y.as = "route" /\ PlainMap(f, p))
       [] OTHER -> n.k # "redirect"
Serves(f, p) ==
  LET n == f.nodes[p]
      y == Mounted(f, p)
  IN IF y.as = "nothing" \/ ~Shows(f, p, y) THEN {}
     ELSE IF n.k = "route" /\ ~EndsInStar(n.path) THEN Serve(p, OwnPath(n, y.parent), n.shows)
     ELSE Serve(p, Unknown, IF n.k = "route" THEN n.shows ELSE "none")

ServedBy(f) ==
  (UNION {Serves(f, p) : p \in Positions(f)})
  \cup (UNION {Serve(<<Len(f.routers) + i>>, Unknown, "none") : i \in DOMAIN f.loose})
  \cup (IF f.strange \/ ~f.parses THEN Serve(<<0>>, Unknown, "none") ELSE {})

\* A served route that was read where it is, and one the reader named itself,
\* by its path, or by what it stands in.
ReadAsServed(s, read) == \E t \in read.sites : t.at = s.at /\ t.path = s.path
NamedBy(s, gap) == IsPrefix(gap.at, s.at) \/ gap.at = Append(s.at, 0)

(* ----------------------- the routes a repository has ------------------- *)

\* An entry file, NoFile where there is none, Several where init will not
\* choose between two.
NoFile == <<>>
Several == <<"several">>
Entry(url, entry) == [url |-> url, entry |-> entry]

\* usabl.routes.json: absent, or its routes and the acknowledged ids.
NoSidecar == [there |-> FALSE, routes |-> {}, acks |-> {}]
Sidecar(routes, acks) == [there |-> TRUE, routes |-> routes, acks |-> acks]

\* screenIdFromUrl: the path with its slashes as hyphens; "/" is root.
Parts(seg) == IF seg = "a-b" THEN <<"a", "b">> ELSE <<seg>>
ScreenId(url) ==
  IF url = <<>> THEN <<"root">> ELSE FoldLeft(LAMBDA id, seg : id \o Parts(seg), <<>>, url)

\* describeIdProblem: a segment that holds a character no id may hold.
Unusable(url) == \E i \in DOMAIN url : url[i] = "odd"

\* routerManifest, of what parseRouterFallback finds
Fallback(f) ==
  LET read == ReadFile(f)
  IN [routes |-> {Entry(p, NoFile) : p \in {q \in PathsRead(read) : ~Unusable(q)}},
      unusable |-> {p \in PathsRead(read) : Unusable(p)},
      unreadable |-> Unreadable(read),
      source |-> "router"]

\* assertUniqueScreenIds
IdsUnique(routes) == \A r, s \in routes : ScreenId(r.url) = ScreenId(s.url) => r = s

\* parseRouteManifest: an authored sidecar wins, even an empty one.  "refused"
\* stands for the error it throws on an id it would use twice.
Manifest(sidecar, f) ==
  LET book == IF sidecar.there
              THEN [routes |-> sidecar.routes, unusable |-> {}, unreadable |-> {}, source |-> "sidecar"]
              ELSE Fallback(f)
  IN IF IdsUnique(book.routes) THEN book ELSE [book EXCEPT !.source = "refused"]

(* ------------------------------- the drift ----------------------------- *)

UrlsOf(routes) == {r.url : r \in routes}

\* Mutant: an entry is acknowledged by its reason alone.
AcknowledgedByReason(sidecar, gap) == \E id \in sidecar.acks : id[1] = gap.id[1]

\* isAcknowledged: by the id of the entry; a whole-file entry has none.
Acknowledged(sidecar, gap) == ~IsWhole(gap) /\ gap.id \in sidecar.acks

\* runRoutesDrift: the exit code.
DriftExit(sidecar, f) ==
  LET found == Fallback(f)
      open == {g \in found.unreadable : ~Acknowledged(sidecar, g)}
  IN IF \/ ~sidecar.there \/ ~IdsUnique(sidecar.routes)
        \/ found.routes = {} /\ sidecar.routes # {}
        \/ open # {}
     THEN 2
     ELSE IF UrlsOf(sidecar.routes) = UrlsOf(found.routes) THEN 0 ELSE 1

\* The entries a refusal prints, each with the id to acknowledge it by.
PrintedIds(sidecar, f) == {g.id : g \in {h \in Fallback(f).unreadable : ~Acknowledged(sidecar, h) /\ ~IsWhole(h)}}

(* ------------------------------- the draft ----------------------------- *)

\* inferInit: the routes read, each with the one file its component comes
\* from.  files: what the import of a component resolves to, Several when
\* init will not choose.  A path no id can be made from refuses the draft.
EntryOf(read, url, files) ==
  LET shown == ShownAt(read, url)
  IN IF shown \in DOMAIN files /\ files[shown] # Several THEN files[shown] ELSE NoFile
Draft(f, files) ==
  LET read == ReadFile(f)
  IN [routes |-> {Entry(p, EntryOf(read, p, files)) : p \in PathsRead(read)},
      refused |-> \E p \in PathsRead(read) : Unusable(p)]

\* writeInitDrafts: what is already there is kept unless init is forced, and
\* a draft without routes never stands beside an old list of routes.
WriteRefused(draft, sidecar, configThere, force) ==
  \/ draft.refused
  \/ ~force /\ (sidecar.there \/ configThere)
  \/ draft.routes = {} /\ sidecar.there
=============================================================================
