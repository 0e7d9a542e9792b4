--------------------------- MODULE Coverage_proofs ---------------------------
(***************************************************************************)
(* Proofs about Coverage: what a plan says of a touched file, package or   *)
(* shell, and what the reader takes from a router module, for every        *)
(* module, import graph, manifest and sequence of edits.                   *)
(***************************************************************************)
EXTENDS Coverage, FiniteSetTheorems, WellFoundedInduction, TLAPS

(* ------------------------------ the numbers ---------------------------- *)

\* A set of numbers that is not empty has a least one.
LEMMA LeastNumber ==
    ASSUME NEW T, T \subseteq Nat, T # {}
    PROVE  \E m \in T : \A k \in T : m <= k
<1> DEFINE R == OpToRel(<, Nat)
<1>1. \E x \in T : \A y \in T : ~ (<<y, x>> \in R)
  <2>1. IsWellFoundedOn(R, Nat)
    BY NatLessThanWellFounded
  <2> HIDE DEF R
  <2> QED BY <2>1, WFMin
<1>2. \A x, y \in Nat : x < y => <<x, y>> \in R
  BY DEF OpToRel
<1> HIDE DEF R
<1>3. PICK x \in T : \A y \in T : ~ (<<y, x>> \in R)
  BY <1>1
<1>4. \A y \in T : ~(y < x)
  BY <1>2, <1>3
<1>5. \A y \in T : x <= y
  BY <1>4
<1> QED BY <1>5

\* A set that holds zero, and with a number the next one, holds every number.
LEMMA EveryNumber ==
    ASSUME NEW T, 0 \in T, \A n \in Nat : n \in T => n + 1 \in T
    PROVE  \A n \in Nat : n \in T
<1> DEFINE U == {n \in Nat : n \notin T}
<1> SUFFICES ASSUME U # {} PROVE FALSE
  OBVIOUS
<1>1. PICK m \in U : \A k \in U : m <= k
  <2>1. U \subseteq Nat
    OBVIOUS
  <2> HIDE DEF U
  <2> QED BY <2>1, LeastNumber
<1>2. m \in Nat /\ m # 0
  OBVIOUS
<1>3. m - 1 \in Nat /\ ~(m <= m - 1) /\ (m - 1) + 1 = m
  BY <1>2
<1>4. m - 1 \in T
  BY <1>1, <1>3
<1>5. m \in T
  BY <1>3, <1>4
<1> QED BY <1>5

-----------------------------------------------------------------------------
(* ------------------------------- the walk ------------------------------ *)

IsWalk(g, from, next, m) ==
  g = [n \in 0..m |-> IF n = 0 THEN from ELSE Wider(g[n - 1], next)]

\* A walk has a value after every number of rounds.
LEMMA WalkExists ==
  ASSUME NEW from, NEW next
  PROVE  \A m \in Nat : \E g : IsWalk(g, from, next, m)
<1> DEFINE T == {m \in Nat : \E g : IsWalk(g, from, next, m)}
<1>1. 0 \in T
  <2> DEFINE g == [n \in 0..0 |-> from]
  <2>1. IsWalk(g, from, next, 0)
    BY DEF IsWalk
  <2> QED BY <2>1
<1>2. ASSUME NEW m \in Nat, m \in T PROVE m + 1 \in T
  <2>1. PICK g : IsWalk(g, from, next, m)
    BY <1>2
  <2> DEFINE last == Wider(g[m], next)
             h == [n \in 0..(m + 1) |-> IF n = m + 1 THEN last ELSE g[n]]
  <2>2. /\ h = [n \in 0..(m + 1) |-> h[n]]
        /\ h[m + 1] = last
        /\ \A n \in 0..m : h[n] = g[n]
    OBVIOUS
  <2>3. h[m + 1] = Wider(h[m], next)
    BY <2>2
  <2>4. \A n \in 0..m : g[n] = IF n = 0 THEN from ELSE Wider(g[n - 1], next)
    BY <2>1 DEF IsWalk
  <2> HIDE DEF h, last
  <2>5. ASSUME NEW n \in 0..(m + 1)
        PROVE  h[n] = IF n = 0 THEN from ELSE Wider(h[n - 1], next)
    <3>1. CASE n = m + 1
      <4>1. n - 1 = m /\ n # 0
        BY <3>1
      <4> QED BY <2>3, <3>1, <4>1
    <3>2. CASE n = 0
      <4>1. n \in 0..m
        BY <3>2
      <4> QED BY <2>2, <2>4, <3>2, <4>1
    <3>3. CASE n \in 1..m
      <4>1. n \in 0..m /\ n - 1 \in 0..m /\ n # 0
        BY <3>3
      <4>2. h[n] = g[n] /\ h[n - 1] = g[n - 1]
        BY <2>2, <4>1
      <4> QED BY <2>4, <4>1, <4>2
    <3> QED BY <3>1, <3>2, <3>3
  <2>6. IsWalk(h, from, next, m + 1)
    BY <2>2, <2>5 DEF IsWalk
  <2> QED BY <2>6
<1> HIDE DEF T
<1>3. \A m \in Nat : m \in T
  BY <1>1, <1>2, EveryNumber
<1> QED BY <1>3 DEF T

LEMMA WalkUnroll ==
  ASSUME NEW from, NEW next, IsFiniteSet(DOMAIN next)
  PROVE  \E g : /\ g[0] = from
                /\ \A n \in 1..Cardinality(DOMAIN next) : g[n] = Wider(g[n - 1], next)
                /\ Walk(from, next) = g[Cardinality(DOMAIN next)]
<1> DEFINE m == Cardinality(DOMAIN next)
           f == CHOOSE g : IsWalk(g, from, next, m)
<1>1. m \in Nat
  BY FS_CardinalityType
<1> HIDE DEF m
<1>2. IsWalk(f, from, next, m)
  BY <1>1, WalkExists
<1>3. Walk(from, next) = f[m]
  BY DEF Walk, IsWalk, m
<1> HIDE DEF f
<1>4. \A n \in 0..m : f[n] = IF n = 0 THEN from ELSE Wider(f[n - 1], next)
  BY <1>2 DEF IsWalk
<1>5. f[0] = from /\ \A n \in 1..m : f[n] = Wider(f[n - 1], next)
  BY <1>1, <1>4
<1> QED BY <1>3, <1>5 DEF m

\* With more neighbours a walk comes as far.
LEMMA WalkGrows ==
  ASSUME NEW from, NEW next, NEW more, IsFiniteSet(DOMAIN next), DOMAIN more = DOMAIN next,
         \A x \in DOMAIN next : next[x] \subseteq more[x] \cup {x}
  PROVE  Walk(from, next) \subseteq Walk(from, more)
<1> DEFINE m == Cardinality(DOMAIN next)
<1>1. m \in Nat
  BY FS_CardinalityType
<1>2. PICK g : /\ g[0] = from
               /\ \A n \in 1..m : g[n] = Wider(g[n - 1], next)
               /\ Walk(from, next) = g[m]
  BY WalkUnroll
<1>3. PICK h : /\ h[0] = from
               /\ \A n \in 1..m : h[n] = Wider(h[n - 1], more)
               /\ Walk(from, more) = h[m]
  BY WalkUnroll
<1> HIDE DEF m
<1> DEFINE T == {n \in Nat : n <= m => g[n] \subseteq h[n]}
<1>4. 0 \in T
  BY <1>1, <1>2, <1>3
<1>5. ASSUME NEW n \in Nat, n \in T PROVE n + 1 \in T
  <2> SUFFICES ASSUME n + 1 <= m PROVE g[n + 1] \subseteq h[n + 1]
    OBVIOUS
  <2>1. n + 1 \in 1..m /\ n <= m /\ (n + 1) - 1 = n
    BY <1>1
  <2>2. g[n] \subseteq h[n]
    BY <1>5, <2>1
  <2>3. g[n + 1] = Wider(g[n], next) /\ h[n + 1] = Wider(h[n], more)
    BY <1>2, <1>3, <2>1
  <2>4. Wider(g[n], next) \subseteq Wider(h[n], more)
    BY <2>2 DEF Wider
  <2> QED BY <2>3, <2>4
<1> HIDE DEF T
<1>6. m \in T
  BY <1>1, <1>4, <1>5, EveryNumber
<1>7. g[m] \subseteq h[m]
  BY <1>1, <1>6 DEF T
<1> QED BY <1>2, <1>3, <1>7

\* A walk stays among where it starts and the neighbours of what has any.
LEMMA WalkStays ==
  ASSUME NEW from, NEW next, NEW all, IsFiniteSet(DOMAIN next), \A x \in DOMAIN next : next[x] \subseteq all
  PROVE  Walk(from, next) \subseteq from \cup all
<1> DEFINE m == Cardinality(DOMAIN next)
<1>1. m \in Nat
  BY FS_CardinalityType
<1>2. PICK g : /\ g[0] = from
               /\ \A n \in 1..m : g[n] = Wider(g[n - 1], next)
               /\ Walk(from, next) = g[m]
  BY WalkUnroll
<1> HIDE DEF m
<1> DEFINE T == {n \in Nat : n <= m => g[n] \subseteq from \cup all}
<1>3. 0 \in T
  BY <1>1, <1>2
<1>4. ASSUME NEW n \in Nat, n \in T PROVE n + 1 \in T
  <2> SUFFICES ASSUME n + 1 <= m PROVE g[n + 1] \subseteq from \cup all
    OBVIOUS
  <2>1. n + 1 \in 1..m /\ n <= m /\ (n + 1) - 1 = n
    BY <1>1
  <2>2. g[n] \subseteq from \cup all
    BY <1>4, <2>1
  <2>3. g[n + 1] = Wider(g[n], next)
    BY <1>2, <2>1
  <2> QED BY <2>2, <2>3 DEF Wider
<1> HIDE DEF T
<1>5. m \in T
  BY <1>1, <1>3, <1>4, EveryNumber
<1>6. g[m] \subseteq from \cup all
  BY <1>1, <1>5 DEF T
<1> QED BY <1>2, <1>6

\* What a page loads through imports usabl reads is in the closure usabl
\* computes for it: it follows every candidate of a tier, so the one the bundler
\* takes as well.
LEMMA LoadedIsClosed ==
  ASSUME NEW entry, NEW imports, NEW files, NEW aliases, NEW prefers, IsFiniteSet(DOMAIN imports)
  PROVE  LoadedAsRead(entry, imports, files, aliases, prefers) \subseteq Closure(entry, imports, files, aliases)
<1> DEFINE read == [f \in DOMAIN imports |-> {s \in imports[f] : ReadAsLoaded(s, files, aliases)}]
           next == [f \in DOMAIN read |-> UNION {Loads(s, files, aliases, prefers) : s \in read[f]}]
           more == [f \in DOMAIN imports |-> Edges(f, imports, files, aliases)]
<1>1. ASSUME NEW s, ReadAsLoaded(s, files, aliases)
      PROVE  Loads(s, files, aliases, prefers) \subseteq Candidates(BaseOf(s, aliases), s.dot, files)
  <2>1. MayTake(BaseOf(s, aliases), s.dot, files) \subseteq Candidates(BaseOf(s, aliases), s.dot, files)
    BY <1>1 DEF ReadAsLoaded, MayTake, Candidates
  <2>2. Loads(s, files, aliases, prefers) \subseteq MayTake(Bundled(s, aliases), s.dot, files)
    BY DEF Loads
  <2> QED BY <1>1, <2>1, <2>2 DEF ReadAsLoaded
<1>2. \A f \in DOMAIN next : next[f] \subseteq more[f] \cup {f}
  <2> SUFFICES ASSUME NEW f \in DOMAIN imports, NEW s \in read[f], NEW g \in Loads(s, files, aliases, prefers)
               PROVE  g \in Edges(f, imports, files, aliases)
    OBVIOUS
  <2>1. s \in Extracted(f, imports) /\ ReadAsLoaded(s, files, aliases)
    BY DEF Extracted, ReadAsLoaded
  <2> QED BY <1>1, <2>1 DEF Edges
<1>3. DOMAIN more = DOMAIN next /\ DOMAIN next = DOMAIN imports
  OBVIOUS
<1>4. LoadedAsRead(entry, imports, files, aliases, prefers) = Walk({entry}, next)
      /\ Closure(entry, imports, files, aliases) = Walk({entry}, more)
  BY DEF LoadedAsRead, Loaded, Closure
<1> HIDE DEF next, more
<1> QED BY <1>2, <1>3, <1>4, WalkGrows

\* A link the app has is one the planner follows, through the packages that
\* keep their names.
LEMMA LinkedIsReached ==
  ASSUME NEW from, NEW side, NEW now, NEW was, NEW some, NEW dirs, some \subseteq dirs,
         \A d \in Folders, e \in some : LinkedOn(side, d, e) => DependsOn(d, e, now, was)
  PROVE  /\ LinkedFrom(from, side, some) \subseteq Reached(from, dirs, now, was)
         /\ LinkedFrom(from, side, some) \subseteq from \cup some
<1> DEFINE next == [d \in Folders |-> {e \in some : LinkedOn(side, d, e)}]
           more == [d \in Folders |-> {e \in dirs : d # e /\ DependsOn(d, e, now, was)}]
<1>1. \A d \in DOMAIN next : next[d] \subseteq more[d] \cup {d} /\ next[d] \subseteq some
  OBVIOUS
<1>2. IsFiniteSet(Folders)
  <2>1. Folders = (Packages \cup {""}) \cup {"app"}
    BY DEF Folders
  <2>2. IsFiniteSet(Packages \cup {""})
    BY PackagesAssumption, FS_AddElement
  <2> QED BY <2>1, <2>2, FS_AddElement
<1>3. DOMAIN more = DOMAIN next /\ DOMAIN next = Folders
  OBVIOUS
<1>4. LinkedFrom(from, side, some) = Walk(from, next) /\ Reached(from, dirs, now, was) = Walk(from, more)
  BY DEF LinkedFrom, Reached
<1> HIDE DEF next, more
<1>5. Walk(from, next) \subseteq Walk(from, more)
  BY <1>1, <1>2, <1>3, WalkGrows
<1>6. Walk(from, next) \subseteq from \cup some
  BY <1>1, <1>2, <1>3, WalkStays
<1> QED BY <1>4, <1>5, <1>6

-----------------------------------------------------------------------------
(* ------------------------------- the plan ------------------------------ *)

\* What is queued and what is a gap, so far.
IsSoFar(s) == s = [affected |-> s.affected, gaps |-> s.gaps]
Grows(s, t) == DOMAIN s.affected \subseteq DOMAIN t.affected /\ s.gaps \subseteq t.gaps

LEMMA QueueGrows ==
  ASSUME NEW affected, NEW surfaces
  PROVE  DOMAIN affected \subseteq DOMAIN Queue(affected, surfaces)
BY DEF Queue, AddAffected

\* A file drops no screen and no gap.
LEMMA AttributeGrows ==
  ASSUME NEW s, IsSoFar(s), NEW file, NEW config, NEW book, NEW code, NEW blasted
  PROVE  LET t == Attribute(s, file, config, book, code, blasted) IN IsSoFar(t) /\ Grows(s, t)
<1> DEFINE routes == {r \in book.routes : r.entry # NoFile /\ file \in Closure(r.entry, code.imports, code.files, code.aliases)}
           listing == Listing(config, file)
           t == Attribute(s, file, config, book, code, blasted)
<1> SUFFICES IsSoFar(t) /\ Grows(s, t)
  OBVIOUS
<1>1. PICK a, g : s = [affected |-> a, gaps |-> g]
  BY DEF IsSoFar
<1>2. CASE file \in config.wide /\ blasted
  <2>1. t = [affected |-> AddSurfaces(a, listing), gaps |-> g]
    BY <1>1, <1>2 DEF Attribute
  <2>2. DOMAIN a \subseteq DOMAIN AddSurfaces(a, listing)
    BY QueueGrows DEF AddSurfaces
  <2> QED BY <1>1, <2>1, <2>2 DEF IsSoFar, Grows
<1>3. CASE ~(file \in config.wide /\ blasted) /\ routes # {}
  <2> DEFINE own == [id \in {ScreenId(r.url) : r \in routes} |->
                       UrlFor(config, file, CHOOSE r \in routes : ScreenId(r.url) = id)]
  <2>1. t = [affected |-> AddAffected(a, own), gaps |-> g]
    BY <1>1, <1>3 DEF Attribute
  <2> HIDE DEF own
  <2>2. DOMAIN a \subseteq DOMAIN (AddAffected(a, own))
    BY DEF AddAffected
  <2> QED BY <1>1, <2>1, <2>2 DEF IsSoFar, Grows
<1>4. CASE ~(file \in config.wide /\ blasted) /\ routes = {} /\ ToSet(listing) # {}
  <2>1. t = [affected |-> Queue(a, ToSet(listing)), gaps |-> g]
    BY <1>1, <1>4 DEF Attribute
  <2> QED BY <1>1, <2>1, QueueGrows DEF IsSoFar, Grows
<1>5. CASE ~(file \in config.wide /\ blasted) /\ routes = {} /\ ToSet(listing) = {}
  <2>1. t = [affected |-> a, gaps |-> g \cup {<<"unresolved", file>>}]
    BY <1>1, <1>5 DEF Attribute, Unmapped
  <2> QED BY <1>1, <2>1 DEF IsSoFar, Grows
<1> QED BY <1>2, <1>3, <1>4, <1>5

\* A file in the closure of a listed route queues its screen, unless the shell
\* did.
LEMMA AttributeQueues ==
  ASSUME NEW s, IsSoFar(s), NEW file, NEW config, NEW book, NEW code, NEW blasted,
         ~(file \in config.wide /\ blasted),
         NEW r \in book.routes, r.entry # NoFile,
         file \in Closure(r.entry, code.imports, code.files, code.aliases)
  PROVE  ScreenId(r.url) \in DOMAIN Attribute(s, file, config, book, code, blasted).affected
<1> DEFINE routes == {q \in book.routes : q.entry # NoFile /\ file \in Closure(q.entry, code.imports, code.files, code.aliases)}
           t == Attribute(s, file, config, book, code, blasted)
           own == [id \in {ScreenId(q.url) : q \in routes} |->
                     UrlFor(config, file, CHOOSE q \in routes : ScreenId(q.url) = id)]
<1>1. PICK a, g : s = [affected |-> a, gaps |-> g]
  BY DEF IsSoFar
<1>2. r \in routes
  OBVIOUS
<1>3. t = [affected |-> AddAffected(a, own), gaps |-> g]
  BY <1>1, <1>2 DEF Attribute
<1>4. ScreenId(r.url) \in DOMAIN own
  BY <1>2
<1> HIDE DEF own, t
<1>5. ScreenId(r.url) \in DOMAIN (AddAffected(a, own))
  BY <1>4 DEF AddAffected
<1>6. ScreenId(r.url) \in DOMAIN t.affected
  BY <1>3, <1>5
<1> QED BY <1>6 DEF t

\* A file that is no shell file has an owner queued, or is a gap.
LEMMA AttributeOwns ==
  ASSUME NEW s, IsSoFar(s), NEW file, NEW config, NEW book, NEW code, NEW blasted,
         ~(file \in config.wide /\ blasted)
  PROVE  LET t == Attribute(s, file, config, book, code, blasted)
         IN t.gaps # {} \/ Owners(file, book, config, code) \cap DOMAIN t.affected # {}
<1> DEFINE routes == {q \in book.routes : q.entry # NoFile /\ file \in Closure(q.entry, code.imports, code.files, code.aliases)}
           listing == Listing(config, file)
           t == Attribute(s, file, config, book, code, blasted)
<1> SUFFICES t.gaps # {} \/ Owners(file, book, config, code) \cap DOMAIN t.affected # {}
  OBVIOUS
<1>1. PICK a, g : s = [affected |-> a, gaps |-> g]
  BY DEF IsSoFar
<1>2. CASE routes # {}
  <2>1. PICK r \in routes : TRUE
    BY <1>2
  <2>2. ScreenId(r.url) \in DOMAIN t.affected
    BY <2>1, AttributeQueues
  <2>3. ScreenId(r.url) \in Owners(file, book, config, code)
    BY <2>1 DEF Owners
  <2> QED BY <2>2, <2>3
<1>3. CASE routes = {} /\ ToSet(listing) # {}
  <2>1. t = [affected |-> Queue(a, ToSet(listing)), gaps |-> g]
    BY <1>1, <1>3 DEF Attribute
  <2>2. PICK x \in ToSet(listing) : TRUE
    BY <1>3
  <2>3. x.id \in DOMAIN (Queue(a, ToSet(listing)))
    BY <2>2 DEF Queue, AddAffected
  <2>4. x.id \in Owners(file, book, config, code)
    BY <2>2 DEF Owners
  <2> QED BY <2>1, <2>3, <2>4
<1>4. CASE routes = {} /\ ToSet(listing) = {}
  <2>1. t = [affected |-> a, gaps |-> g \cup {<<"unresolved", file>>}]
    BY <1>1, <1>4 DEF Attribute, Unmapped
  <2>2. <<"unresolved", file>> \in t.gaps
    BY <2>1
  <2> QED BY <2>2
<1> QED BY <1>2, <1>3, <1>4

-----------------------------------------------------------------------------
\* The files, one after the other, have a reading after each.
AttributeNext(s, file, ui, config, book, code, blasted) ==
  IF file \in ui THEN Attribute(s, file, config, book, code, blasted) ELSE s

IsReading(g, start, ui, config, book, code, blasted, m) ==
  g = [n \in 0..m |-> IF n = 0 THEN start
                      ELSE IF FileOrder[n] \in ui THEN Attribute(g[n - 1], FileOrder[n], config, book, code, blasted)
                      ELSE g[n - 1]]

LEMMA ReadingExists ==
  ASSUME NEW start, NEW ui, NEW config, NEW book, NEW code, NEW blasted
  PROVE  \A m \in Nat : \E g : IsReading(g, start, ui, config, book, code, blasted, m)
<1> DEFINE Is(g, m) == IsReading(g, start, ui, config, book, code, blasted, m)
           T == {m \in Nat : \E g : Is(g, m)}
           Then(s, n) == AttributeNext(s, FileOrder[n], ui, config, book, code, blasted)
<1>1. 0 \in T
  <2> DEFINE g == [n \in 0..0 |-> start]
  <2>1. Is(g, 0)
    BY DEF IsReading
  <2> QED BY <2>1
<1>2. ASSUME NEW g, NEW m \in Nat
      PROVE  Is(g, m) <=> g = [n \in 0..m |-> IF n = 0 THEN start ELSE Then(g[n - 1], n)]
  BY DEF IsReading, AttributeNext
<1> HIDE DEF Is, Then
<1>3. ASSUME NEW m \in Nat, m \in T PROVE m + 1 \in T
  <2>1. PICK g : Is(g, m)
    BY <1>3
  <2> DEFINE last == Then(g[m], m + 1)
             h == [n \in 0..(m + 1) |-> IF n = m + 1 THEN last ELSE g[n]]
  <2>2. /\ h = [n \in 0..(m + 1) |-> h[n]]
        /\ h[m + 1] = last
        /\ \A n \in 0..m : h[n] = g[n]
    OBVIOUS
  <2>3. h[m + 1] = Then(h[m], m + 1)
    BY <2>2
  <2>4. \A n \in 0..m : g[n] = IF n = 0 THEN start ELSE Then(g[n - 1], n)
    BY <1>2, <2>1
  <2> HIDE DEF h, last
  <2>5. ASSUME NEW n \in 0..(m + 1)
        PROVE  h[n] = IF n = 0 THEN start ELSE Then(h[n - 1], n)
    <3>1. CASE n = m + 1
      <4>1. n - 1 = m /\ n # 0
        BY <3>1
      <4> QED BY <2>3, <3>1, <4>1
    <3>2. CASE n = 0
      <4>1. n \in 0..m
        BY <3>2
      <4> QED BY <2>2, <2>4, <3>2, <4>1
    <3>3. CASE n \in 1..m
      <4>1. n \in 0..m /\ n - 1 \in 0..m /\ n # 0
        BY <3>3
      <4>2. h[n] = g[n] /\ h[n - 1] = g[n - 1]
        BY <2>2, <4>1
      <4> QED BY <2>4, <4>1, <4>2
    <3> QED BY <3>1, <3>2, <3>3
  <2>6. h = [n \in 0..(m + 1) |-> IF n = 0 THEN start ELSE Then(h[n - 1], n)]
    BY <2>2, <2>5
  <2>7. Is(h, m + 1)
    BY <1>2, <2>6
  <2> QED BY <2>7
<1> HIDE DEF T
<1>4. \A m \in Nat : m \in T
  BY <1>1, <1>3, EveryNumber
<1> QED BY <1>4 DEF T, Is

LEMMA ReadingUnroll ==
  ASSUME NEW start, NEW ui, NEW config, NEW book, NEW code, NEW blasted
  PROVE  \E g : /\ g[0] = start
                /\ \A n \in 1..Len(FileOrder) :
                     g[n] = AttributeNext(g[n - 1], FileOrder[n], ui, config, book, code, blasted)
                /\ AttributeAll(start, ui, config, book, code, blasted) = g[Len(FileOrder)]
<1> DEFINE m == Len(FileOrder)
           Is(g) == IsReading(g, start, ui, config, book, code, blasted, m)
           f == CHOOSE g : Is(g)
<1>1. m \in Nat
  BY FilesAssumption
<1>2. Is(f)
  BY <1>1, ReadingExists
<1>3. AttributeAll(start, ui, config, book, code, blasted) = f[m]
  BY DEF AttributeAll, IsReading
<1> HIDE DEF f, m
<1>4. \A n \in 0..m : f[n] = IF n = 0 THEN start
                             ELSE IF FileOrder[n] \in ui THEN Attribute(f[n - 1], FileOrder[n], config, book, code, blasted)
                             ELSE f[n - 1]
  BY <1>2 DEF IsReading
<1>5. f[0] = start
  BY <1>1, <1>4
<1>6. \A n \in 1..m : f[n] = AttributeNext(f[n - 1], FileOrder[n], ui, config, book, code, blasted)
  BY <1>1, <1>4 DEF AttributeNext
<1> QED BY <1>3, <1>5, <1>6 DEF m

\* Every changed file has its turn, and what it says stays said.
LEMMA EveryFileHasItsTurn ==
  ASSUME NEW start, IsSoFar(start), NEW ui, NEW config, NEW book, NEW code, NEW blasted
  PROVE  LET t == AttributeAll(start, ui, config, book, code, blasted)
         IN /\ Grows(start, t)
            /\ \A file \in ui \cap ToSet(FileOrder) :
                 \E s : IsSoFar(s) /\ Grows(start, s) /\ Grows(Attribute(s, file, config, book, code, blasted), t)
<1> DEFINE m == Len(FileOrder)
           Then(s, file) == AttributeNext(s, file, ui, config, book, code, blasted)
           t == AttributeAll(start, ui, config, book, code, blasted)
<1>1. m \in Nat /\ DOMAIN FileOrder = 1..m
  BY FilesAssumption
<1>2. PICK g : g[0] = start /\ (\A n \in 1..m : g[n] = Then(g[n - 1], FileOrder[n])) /\ t = g[m]
  BY ReadingUnroll
<1>3. \A s, file : IsSoFar(s) => IsSoFar(Then(s, file)) /\ Grows(s, Then(s, file))
  BY AttributeGrows DEF AttributeNext, Grows
<1>4. \A s, file : file \in ui => Then(s, file) = Attribute(s, file, config, book, code, blasted)
  BY DEF AttributeNext
<1> HIDE DEF m, Then, t
<1> DEFINE T == {n \in Nat : n <= m => IsSoFar(g[n])}
           U == {d \in Nat : \A i \in Nat : i + d <= m => Grows(g[i], g[i + d])}
<1>5. \A n \in Nat : n \in T
  <2>1. 0 \in T
    BY <1>2
  <2>2. ASSUME NEW n \in Nat, n \in T PROVE n + 1 \in T
    <3> SUFFICES ASSUME n + 1 <= m PROVE IsSoFar(g[n + 1])
      OBVIOUS
    <3>1. n + 1 \in 1..m /\ n <= m /\ (n + 1) - 1 = n
      BY <1>1
    <3>2. IsSoFar(g[n]) /\ g[n + 1] = Then(g[n], FileOrder[n + 1])
      BY <1>2, <2>2, <3>1
    <3> QED BY <1>3, <3>2
  <2> HIDE DEF T
  <2> QED BY <2>1, <2>2, EveryNumber
<1>6. \A d \in Nat : d \in U
  <2>1. 0 \in U
    BY DEF Grows
  <2>2. ASSUME NEW d \in Nat, d \in U PROVE d + 1 \in U
    <3> SUFFICES ASSUME NEW i \in Nat, i + (d + 1) <= m PROVE Grows(g[i], g[i + (d + 1)])
      OBVIOUS
    <3>1. /\ i + d \in Nat /\ i + d <= m /\ i + (d + 1) = (i + d) + 1
          /\ (i + d) + 1 \in 1..m /\ ((i + d) + 1) - 1 = i + d
      BY <1>1
    <3>2. Grows(g[i], g[i + d])
      BY <2>2, <3>1
    <3>3. IsSoFar(g[i + d])
      BY <1>5, <3>1
    <3>4. g[(i + d) + 1] = Then(g[i + d], FileOrder[(i + d) + 1])
      BY <1>2, <3>1
    <3>5. Grows(g[i + d], g[(i + d) + 1])
      BY <1>3, <3>3, <3>4
    <3>6. Grows(g[i], g[(i + d) + 1])
      BY <3>2, <3>5 DEF Grows
    <3> QED BY <3>1, <3>6
  <2> HIDE DEF U
  <2> QED BY <2>1, <2>2, EveryNumber
<1>7. Grows(start, t)
  BY <1>1, <1>2, <1>6
<1>8. ASSUME NEW file \in ui \cap ToSet(FileOrder)
      PROVE  \E s : IsSoFar(s) /\ Grows(start, s) /\ Grows(Attribute(s, file, config, book, code, blasted), t)
  <2>1. PICK k \in 1..m : file = FileOrder[k]
    BY <1>1 DEF ToSet
  <2>2. k \in Nat /\ k - 1 \in Nat /\ k - 1 <= m /\ m - k \in Nat /\ k + (m - k) = m /\ k <= m
    BY <1>1
  <2>3. IsSoFar(g[k - 1])
    BY <1>5, <2>2
  <2>4. Grows(start, g[k - 1])
    <3>1. 0 + (k - 1) = k - 1 /\ 0 \in Nat
      BY <2>2
    <3> QED BY <1>2, <1>6, <2>2, <3>1
  <2>5. Grows(g[k], g[m])
    <3>1. m <= m
      BY <1>1
    <3> QED BY <1>6, <2>2, <3>1
  <2>6. g[k] = Attribute(g[k - 1], file, config, book, code, blasted)
    BY <1>2, <1>4, <2>1
  <2> QED BY <1>2, <2>3, <2>4, <2>5, <2>6
<1> QED BY <1>7, <1>8 DEF t

-----------------------------------------------------------------------------
\* The shell or a dependency reaches every route of the list in force.
Reaches(changed, now, was, config) ==
  \/ DependencyChanges(changed.other, now.side, was.side) # {}
  \/ {f \in changed.ui : IsUi(f, config)} \cap config.wide # {}
RouteIds(book) == {ScreenId(r.url) : r \in book.routes}

LEMMA CoverageSays ==
  ASSUME NEW book, NEW config, NEW now, NEW was, NEW changed
  PROVE  LET c == AppCoverage(book, config, now, was, changed)
         IN /\ \A f \in WorkspaceGaps(changed.other, now.side, was.side) : <<"package", f>> \in c.gaps
            /\ Reaches(changed, now, was, config) =>
                 RouteIds(book) \subseteq DOMAIN c.affected /\ BlastGaps(book) \subseteq c.gaps
            /\ \A f \in changed.ui, r \in book.routes :
                 /\ f \in ToSet(FileOrder) /\ IsUi(f, config)
                 /\ r.entry # NoFile /\ f \in Closure(r.entry, now.code.imports, now.code.files, now.code.aliases)
                 => ScreenId(r.url) \in DOMAIN c.affected
            /\ \A f \in changed.ui :
                 f \in ToSet(FileOrder) /\ IsUi(f, config)
                 => c.gaps # {} \/ Owners(f, book, config, now.code) \cap DOMAIN c.affected # {}
<1> DEFINE ui == {f \in changed.ui : IsUi(f, config)}
           packages == WorkspaceGaps(changed.other, now.side, was.side)
           dependencies == DependencyChanges(changed.other, now.side, was.side)
           wide == dependencies # {} \/ ui \cap config.wide # {}
           blast == IF wide THEN BlastRadius(book) ELSE <<>>
           queued == IF dependencies # {} THEN AddSurfaces(blast, config.surfaces) ELSE blast
           said == {<<"package", f>> : f \in packages}
                   \cup (IF wide THEN BlastGaps(book) ELSE {})
                   \cup (IF queued = <<>> THEN {<<"dependency", f>> : f \in dependencies} ELSE {})
           start == [affected |-> queued, gaps |-> said]
           blasted == blast # <<>>
           all == AttributeAll(start, ui, config, book, now.code, blasted)
           c == AppCoverage(book, config, now, was, changed)
<1>1. c = IF ui = {} /\ dependencies = {} THEN [affected |-> <<>>, gaps |-> {<<"package", f>> : f \in packages}] ELSE all
  BY DEF AppCoverage
<1>2. wide <=> Reaches(changed, now, was, config)
  BY DEF Reaches
<1>3. wide => DOMAIN blast = RouteIds(book)
  BY DEF BlastRadius, RouteIds
<1>4. DOMAIN blast \subseteq DOMAIN queued
  BY QueueGrows DEF AddSurfaces
<1>5. blasted => wide
  OBVIOUS
<1>6. \A f \in packages : <<"package", f>> \in said
  OBVIOUS
<1>7. wide => BlastGaps(book) \subseteq said
  OBVIOUS
<1>8. IsSoFar(start) /\ start.affected = queued /\ start.gaps = said
  BY DEF IsSoFar
<1>9. Grows(start, all) /\ \A file \in ui \cap ToSet(FileOrder) :
         \E s : IsSoFar(s) /\ Grows(start, s) /\ Grows(Attribute(s, file, config, book, now.code, blasted), all)
  <2> HIDE DEF start, ui, blasted
  <2> QED BY <1>8, EveryFileHasItsTurn
<1>10. ui = {} /\ dependencies = {} => ~wide
  OBVIOUS
<1>11. \A f \in changed.ui : IsUi(f, config) => f \in ui
  OBVIOUS
<1>16. blasted => RouteIds(book) # {}
  <2> SUFFICES ASSUME RouteIds(book) = {}, wide PROVE BlastRadius(book) = <<>>
    OBVIOUS
  <2> QED BY DEF BlastRadius, RouteIds
<1> HIDE DEF ui, packages, dependencies, wide, blast, queued, said, start, blasted, all, c
<1>12. \A f \in packages : <<"package", f>> \in c.gaps
  BY <1>1, <1>6, <1>8, <1>9 DEF Grows
<1>13. wide => RouteIds(book) \subseteq DOMAIN c.affected /\ BlastGaps(book) \subseteq c.gaps
  BY <1>1, <1>3, <1>4, <1>7, <1>8, <1>9, <1>10 DEF Grows
<1>14. ASSUME NEW f \in changed.ui, NEW r \in book.routes, f \in ToSet(FileOrder), IsUi(f, config),
              r.entry # NoFile, f \in Closure(r.entry, now.code.imports, now.code.files, now.code.aliases)
       PROVE  ScreenId(r.url) \in DOMAIN c.affected
  <2>1. f \in ui /\ c = all
    BY <1>1, <1>11, <1>14
  <2>2. CASE f \in config.wide /\ blasted
    <3>1. wide
      BY <1>5, <2>2
    <3> QED BY <1>13, <3>1 DEF RouteIds
  <2>3. CASE ~(f \in config.wide /\ blasted)
    <3>1. PICK s : IsSoFar(s) /\ Grows(Attribute(s, f, config, book, now.code, blasted), all)
      BY <1>9, <1>14, <2>1
    <3>2. ScreenId(r.url) \in DOMAIN Attribute(s, f, config, book, now.code, blasted).affected
      BY <1>14, <2>3, <3>1, AttributeQueues
    <3> QED BY <2>1, <3>1, <3>2 DEF Grows
  <2> QED BY <2>2, <2>3
<1>15. ASSUME NEW f \in changed.ui, f \in ToSet(FileOrder), IsUi(f, config)
       PROVE  c.gaps # {} \/ Owners(f, book, config, now.code) \cap DOMAIN c.affected # {}
  <2>1. f \in ui /\ c = all
    BY <1>1, <1>11, <1>15
  <2>2. CASE f \in config.wide /\ blasted
    <3>1. wide
      BY <1>5, <2>2
    <3>2. RouteIds(book) # {}
      BY <1>16, <2>2
    <3>3. RouteIds(book) \subseteq Owners(f, book, config, now.code)
      BY <2>2 DEF RouteIds, Owners
    <3> QED BY <1>13, <3>1, <3>2, <3>3
  <2>3. CASE ~(f \in config.wide /\ blasted)
    <3>1. PICK s : IsSoFar(s) /\ Grows(Attribute(s, f, config, book, now.code, blasted), all)
      BY <1>9, <1>15, <2>1
    <3> DEFINE t == Attribute(s, f, config, book, now.code, blasted)
    <3>2. t.gaps # {} \/ Owners(f, book, config, now.code) \cap DOMAIN t.affected # {}
      BY <2>3, <3>1, AttributeOwns
    <3> HIDE DEF t
    <3> QED BY <2>1, <3>1, <3>2 DEF Grows, t
  <2> QED BY <2>2, <2>3
<1> QED BY <1>2, <1>12, <1>13, <1>14, <1>15 DEF packages, c

-----------------------------------------------------------------------------
(* ------------------------------ the positions -------------------------- *)

Place == {p \in Seq(Nat \ {0}) : Len(p) >= 2}

LEMMA PrefixIsPlace ==
  ASSUME NEW p \in Place, NEW d \in 2..Len(p)
  PROVE  /\ SubSeq(p, 1, d) \in Place /\ Len(SubSeq(p, 1, d)) = d
         /\ \A i \in 1..d : SubSeq(p, 1, d)[i] = p[i]
<1>1. p \in Seq(Nat \ {0}) /\ Len(p) \in Nat /\ Len(p) >= 2 /\ DOMAIN p = 1..Len(p)
  BY DEF Place
<1>2. SubSeq(p, 1, d) \in Seq(Nat \ {0}) /\ Len(SubSeq(p, 1, d)) = d
  BY <1>1
<1>3. \A i \in 1..d : SubSeq(p, 1, d)[i] = p[i]
  BY <1>1
<1> QED BY <1>2, <1>3 DEF Place

LEMMA FrontIsPlace ==
  ASSUME NEW p \in Place, Len(p) > 2
  PROVE  /\ Front(p) \in Place /\ Len(Front(p)) = Len(p) - 1 /\ Len(p) \in Nat
         /\ Front(p)[1] = p[1] /\ Front(p) # p /\ IsPrefix(Front(p), p)
         /\ \A d \in 1..(Len(p) - 1) : SubSeq(Front(p), 1, d) = SubSeq(p, 1, d)
<1>1. p \in Seq(Nat \ {0}) /\ Len(p) \in Nat /\ DOMAIN p = 1..Len(p)
  BY DEF Place
<1> DEFINE k == Len(p) - 1
           q == Front(p)
<1>2. k \in 2..Len(p) /\ k \in Nat /\ k # Len(p) /\ k <= Len(p)
  <2>1. \A n \in Nat : n > 2 => n - 1 \in 2..n /\ n - 1 \in Nat /\ n - 1 # n /\ n - 1 <= n
    OBVIOUS
  <2> QED BY <1>1, <2>1
<1>3. q = SubSeq(p, 1, k)
  BY DEF Front
<1>4. q \in Place /\ Len(q) = k /\ \A i \in 1..k : q[i] = p[i]
  BY <1>2, <1>3, PrefixIsPlace
<1>5. q \in Seq(Nat \ {0}) /\ DOMAIN q = 1..k
  BY <1>4 DEF Place
<1> HIDE DEF q, k
<1>6. \A d \in 1..k : SubSeq(q, 1, d) = SubSeq(p, 1, d)
  <2> SUFFICES ASSUME NEW d \in 1..k PROVE SubSeq(q, 1, d) = SubSeq(p, 1, d)
    OBVIOUS
  <2>1. SubSeq(q, 1, d) = [i \in 1..d |-> q[i]]
    BY <1>4, <1>5
  <2>2. SubSeq(p, 1, d) = [i \in 1..d |-> p[i]]
    <3>1. d \in Nat /\ d <= Len(p)
      <4>1. \A a, b \in Nat : \A e \in 1..a : a <= b => e \in Nat /\ e <= b
        OBVIOUS
      <4> QED BY <1>1, <1>2, <4>1
    <3> QED BY <1>1, <3>1
  <2>3. \A i \in 1..d : q[i] = p[i]
    BY <1>2, <1>4
  <2> QED BY <2>1, <2>2, <2>3
<1>7. IsPrefix(q, p)
  <2>1. SubSeq(q, 1, k) = SubSeq(p, 1, k)
    BY <1>2, <1>6
  <2> QED BY <1>2, <1>4, <2>1 DEF IsPrefix
<1>8. 1 \in 1..k
  BY <1>2
<1> QED BY <1>1, <1>2, <1>4, <1>6, <1>7, <1>8 DEF k, q

LEMMA PrefixOfItself ==
  ASSUME NEW p
  PROVE  Len(p) \in Nat => IsPrefix(p, p)
BY DEF IsPrefix

\* Below a position is below what it stands in.
LEMMA PrefixOfFront ==
  ASSUME NEW p \in Place, Len(p) > 2, NEW q, Len(q) \in Nat, IsPrefix(q, Front(p))
  PROVE  IsPrefix(q, p) /\ Len(q) < Len(p)
<1>1. Len(Front(p)) = Len(p) - 1 /\ Len(p) \in Nat
      /\ \A d \in 1..(Len(p) - 1) : SubSeq(Front(p), 1, d) = SubSeq(p, 1, d)
  BY FrontIsPlace
<1>2. Len(q) <= Len(p) - 1 /\ SubSeq(q, 1, Len(q)) = SubSeq(Front(p), 1, Len(q))
  BY <1>1 DEF IsPrefix
<1>3. CASE Len(q) = 0
  <2>1. p \in Seq(Nat \ {0}) /\ Front(p) \in Seq(Nat \ {0})
    BY FrontIsPlace DEF Place
  <2>2. SubSeq(Front(p), 1, 0) = SubSeq(p, 1, 0)
    BY <2>1
  <2> QED BY <1>1, <1>2, <1>3, <2>2 DEF IsPrefix
<1>4. CASE Len(q) # 0
  <2>1. Len(q) \in 1..(Len(p) - 1)
    BY <1>1, <1>2, <1>4
  <2> QED BY <1>1, <1>2, <2>1 DEF IsPrefix
<1> QED BY <1>3, <1>4

LEMMA PrefixIsOfFront ==
  ASSUME NEW p \in Place, NEW q \in Place, q # p, IsPrefix(q, p)
  PROVE  Len(p) > 2 /\ IsPrefix(q, Front(p))
<1>1. p \in Seq(Nat \ {0}) /\ Len(p) \in Nat /\ q \in Seq(Nat \ {0}) /\ Len(q) \in Nat /\ Len(q) >= 2
  BY DEF Place
<1>2. Len(q) <= Len(p) /\ SubSeq(q, 1, Len(q)) = SubSeq(p, 1, Len(q))
  BY DEF IsPrefix
<1>3. Len(q) # Len(p)
  <2>1. SubSeq(q, 1, Len(q)) = q /\ SubSeq(p, 1, Len(p)) = p
    BY <1>1
  <2> QED BY <1>2, <2>1
<1>4. Len(p) > 2 /\ Len(q) \in 1..(Len(p) - 1)
  BY <1>1, <1>2, <1>3
<1>5. SubSeq(Front(p), 1, Len(q)) = SubSeq(p, 1, Len(q)) /\ Len(Front(p)) = Len(p) - 1
  BY <1>4, FrontIsPlace
<1> QED BY <1>2, <1>4, <1>5 DEF IsPrefix

-----------------------------------------------------------------------------
(* ------------------------------ the descent ---------------------------- *)

\* Both readings of a node come down from its router: the reader's and, with
\* what "mounts", the one of React Router.
AtRouter(what, f, p) ==
  IF what = "reads" THEN RootMode(f, f.routers[p[1]])
  ELSE Mount("route", IF f.routers[p[1]] \in {"hook", "jsx"} /\ ~OnlyRouter(f) THEN Unknown ELSE <<>>)
Down(what, f, p, v) == IF what = "reads" THEN Handed(f, p, v) ELSE Mounts(f, p, v)

IsDescent(g, what, f, p, m) ==
  g = [d \in 2..m |-> IF d = 2 THEN AtRouter(what, f, p) ELSE Down(what, f, SubSeq(p, 1, d - 1), g[d - 1])]

LEMMA DescentExists ==
  ASSUME NEW what, NEW f, NEW p
  PROVE  \A m \in Nat : \E g : IsDescent(g, what, f, p, m + 2)
<1> DEFINE Is(g, m) == IsDescent(g, what, f, p, m)
           T == {m \in Nat : \E g : Is(g, m + 2)}
           Start == AtRouter(what, f, p)
           Then(v, d) == Down(what, f, SubSeq(p, 1, d - 1), v)
<1>1. 0 \in T
  <2> DEFINE g == [d \in 2..2 |-> Start]
  <2>1. \A d \in 2..2 : d = 2
    OBVIOUS
  <2>2. g = [d \in 2..2 |-> IF d = 2 THEN Start ELSE Then(g[d - 1], d)]
    BY <2>1
  <2>3. Is(g, 2)
    BY <2>2 DEF IsDescent
  <2> QED BY <2>3
<1>2. ASSUME NEW g, NEW m \in Nat
      PROVE  Is(g, m) <=> g = [d \in 2..m |-> IF d = 2 THEN Start ELSE Then(g[d - 1], d)]
  BY DEF IsDescent
<1> HIDE DEF Is, Then, Start
<1>3. ASSUME NEW m \in Nat, m \in T PROVE m + 1 \in T
  <2> DEFINE k == m + 2
  <2>1. PICK g : Is(g, k)
    BY <1>3
  <2>2. k \in Nat /\ k >= 2 /\ k + 1 = (m + 1) + 2
    OBVIOUS
  <2> HIDE DEF k
  <2> DEFINE last == Then(g[k], k + 1)
             h == [d \in 2..(k + 1) |-> IF d = k + 1 THEN last ELSE g[d]]
  <2>3. /\ h = [d \in 2..(k + 1) |-> h[d]]
        /\ h[k + 1] = last
        /\ \A d \in 2..k : h[d] = g[d]
    BY <2>2
  <2>4. h[k + 1] = Then(h[k], k + 1)
    <3>1. k \in 2..k
      BY <2>2
    <3> QED BY <2>3, <3>1
  <2>5. \A d \in 2..k : g[d] = IF d = 2 THEN Start ELSE Then(g[d - 1], d)
    BY <1>2, <2>1, <2>2
  <2> HIDE DEF h, last
  <2>6. ASSUME NEW d \in 2..(k + 1)
        PROVE  h[d] = IF d = 2 THEN Start ELSE Then(h[d - 1], d)
    <3>1. CASE d = k + 1
      <4>1. d - 1 = k /\ d # 2
        BY <2>2, <3>1
      <4> QED BY <2>4, <3>1, <4>1
    <3>2. CASE d = 2
      <4>1. d \in 2..k
        BY <2>2, <3>2
      <4> QED BY <2>3, <2>5, <3>2, <4>1
    <3>3. CASE d \in 3..k
      <4>1. d \in 2..k /\ d - 1 \in 2..k /\ d # 2
        BY <2>2, <3>3
      <4>2. h[d] = g[d] /\ h[d - 1] = g[d - 1]
        BY <2>3, <4>1
      <4> QED BY <2>5, <4>1, <4>2
    <3>4. d = k + 1 \/ d = 2 \/ d \in 3..k
      BY <2>2
    <3> QED BY <3>1, <3>2, <3>3, <3>4
  <2>7. Is(h, k + 1)
    <3>1. h = [d \in 2..(k + 1) |-> IF d = 2 THEN Start ELSE Then(h[d - 1], d)]
      BY <2>3, <2>6
    <3> QED BY <1>2, <2>2, <3>1
  <2> QED BY <2>2, <2>7
<1> HIDE DEF T
<1>4. \A m \in Nat : m \in T
  BY <1>1, <1>3, EveryNumber
<1> QED BY <1>4 DEF T, Is

Descent(what, f, p) == CHOOSE g : IsDescent(g, what, f, p, Len(p))
ComesTo(what, f, p) == Descent(what, f, p)[Len(p)]

LEMMA DescentUnroll ==
  ASSUME NEW what, NEW f, NEW p \in Place
  PROVE  /\ Descent(what, f, p)[2] = AtRouter(what, f, p)
         /\ \A d \in 3..Len(p) :
              Descent(what, f, p)[d] = Down(what, f, SubSeq(p, 1, d - 1), Descent(what, f, p)[d - 1])
<1> DEFINE m == Len(p)
           g == Descent(what, f, p)
<1>1. m \in Nat /\ m >= 2
  BY DEF Place
<1> HIDE DEF m
<1>2. \E h : IsDescent(h, what, f, p, m)
  <2>1. m - 2 \in Nat /\ (m - 2) + 2 = m
    BY <1>1
  <2> QED BY <2>1, DescentExists
<1>3. IsDescent(g, what, f, p, m)
  BY <1>2 DEF Descent, m
<1> HIDE DEF g
<1>4. \A d \in 2..m : g[d] = IF d = 2 THEN AtRouter(what, f, p) ELSE Down(what, f, SubSeq(p, 1, d - 1), g[d - 1])
  BY <1>3 DEF IsDescent
<1>5. 2 \in 2..m /\ \A d \in 3..m : d \in 2..m /\ d # 2
  BY <1>1
<1> QED BY <1>4, <1>5 DEF g, m

\* What a node is read as comes from what it stands in.
LEMMA DescentNext ==
  ASSUME NEW what, NEW f, NEW p \in Place
  PROVE  IF Len(p) = 2 THEN ComesTo(what, f, p) = AtRouter(what, f, p)
         ELSE ComesTo(what, f, p) = Down(what, f, Front(p), ComesTo(what, f, Front(p)))
<1>1. Len(p) \in Nat /\ Len(p) >= 2
  BY DEF Place
<1>2. CASE Len(p) = 2
  BY <1>2, DescentUnroll DEF ComesTo
<1>3. CASE Len(p) # 2
  <2> DEFINE k == Len(p) - 1
             q == Front(p)
             g == Descent(what, f, p)
             h == Descent(what, f, q)
  <2>1. Len(p) > 2
    <3>1. \A n \in Nat : n >= 2 /\ n # 2 => n > 2
      OBVIOUS
    <3> QED BY <1>1, <1>3, <3>1
  <2>2. q \in Place /\ Len(q) = k /\ q[1] = p[1] /\ (\A d \in 1..k : SubSeq(q, 1, d) = SubSeq(p, 1, d))
    BY <2>1, FrontIsPlace
  <2>3. \A n \in Nat : n > 2 => n - 1 \in Nat /\ n - 1 >= 2 /\ (n - 1) + 1 = n
    OBVIOUS
  <2>4. k \in Nat /\ k >= 2 /\ k + 1 = Len(p)
    BY <1>1, <2>1, <2>3
  <2>5. g[2] = AtRouter(what, f, p) /\ \A d \in 3..(k + 1) : g[d] = Down(what, f, SubSeq(p, 1, d - 1), g[d - 1])
    BY <2>4, DescentUnroll
  <2>6. h[2] = AtRouter(what, f, q) /\ \A d \in 3..k : h[d] = Down(what, f, SubSeq(q, 1, d - 1), h[d - 1])
    BY <2>2, DescentUnroll
  <2>7. AtRouter(what, f, q) = AtRouter(what, f, p)
    BY <2>2 DEF AtRouter
  <2> HIDE DEF g, h, k
  <2> DEFINE T == {n \in Nat : n + 2 <= k => g[n + 2] = h[n + 2]}
  <2>8. 0 \in T
    BY <2>5, <2>6, <2>7
  <2>9. ASSUME NEW n \in Nat, n \in T PROVE n + 1 \in T
    <3> DEFINE d == (n + 1) + 2
    <3> SUFFICES ASSUME d <= k PROVE g[d] = h[d]
      OBVIOUS
    <3>1. d \in 3..k /\ d \in 3..(k + 1) /\ d - 1 = n + 2 /\ n + 2 <= k /\ n + 2 \in 1..k
      BY <2>4
    <3> HIDE DEF d
    <3>2. g[d - 1] = h[d - 1]
      BY <2>9, <3>1
    <3>3. SubSeq(q, 1, d - 1) = SubSeq(p, 1, d - 1)
      BY <2>2, <3>1 DEF k
    <3> QED BY <2>5, <2>6, <3>1, <3>2, <3>3
  <2> HIDE DEF T
  <2>10. k - 2 \in Nat /\ (k - 2) + 2 = k /\ k <= k
    BY <2>4
  <2>11. k - 2 \in T
    BY <2>8, <2>9, <2>10, EveryNumber
  <2>12. g[k] = h[k]
    BY <2>10, <2>11 DEF T
  <2>13. g[k + 1] = Down(what, f, SubSeq(p, 1, k), g[k])
    <3>1. k + 1 \in 3..(k + 1) /\ (k + 1) - 1 = k
      BY <2>4
    <3> QED BY <2>5, <3>1
  <2>14. SubSeq(p, 1, k) = q
    BY DEF Front, k
  <2>15. g[k + 1] = Down(what, f, q, h[k])
    BY <2>12, <2>13, <2>14
  <2>16. ComesTo(what, f, p) = g[k + 1] /\ ComesTo(what, f, q) = h[k]
    BY <2>2, <2>4 DEF ComesTo, g, h, k
  <2> QED BY <1>3, <2>15, <2>16
<1> QED BY <1>2, <1>3

LEMMA ContextIsRead ==
  ASSUME NEW f, NEW p
  PROVE  Context(f, p) = ComesTo("reads", f, p) /\ Mounted(f, p) = ComesTo("mounts", f, p)
BY DEF Context, Mounted, ComesTo, Descent, IsDescent, AtRouter, Down

-----------------------------------------------------------------------------
(* ------------------- the reader beside what is mounted ----------------- *)

Segment == STRING \ {"?"}
Where == [st : {"top", "lost", "at"}, at : Seq(Segment)]
IsMode(x) ==
  /\ x = [g |-> x.g, parent |-> x.parent, base |-> x.base, nested |-> x.nested]
  /\ x.g \in {"jsx", "data", "map", "unread"} /\ x.nested \in BOOLEAN
  /\ x.parent \in Where /\ x.base \in Where /\ x.base.st # "top"
  /\ x.g \in {"jsx", "data"} => x.nested

\* A node read and mounted: the path the reader has for what it stands in is
\* the true one, and the objects of a mapped list are its objects.
Agree(x, y) ==
  /\ y.as = "object" <=> x.g = "map"
  /\ y.as = "object" => ~x.nested
  /\ x.parent.st = "at" => y.parent = x.parent.at
  /\ x.parent.st = "top" /\ x.base.st = "at" => y.parent = x.base.at

Tidy(n) == n \in Node /\ (n.path.form # "text" => ~n.path.abs /\ n.path.segs = <<>>)
IsMount(y) == y = Mount(y.as, y.parent) /\ y.as \in {"route", "object", "nothing"}
Reads(x) == x.g # "unread"
Stands(y) == y.as # "nothing"

LEMMA WhereIsKnown ==
  ASSUME NEW w \in Where
  PROVE  w.at # Unknown /\ w.at \in Seq(Segment)
<1>1. w.at \in Seq(Segment)
  BY DEF Where
<1>2. Unknown \notin Seq(Segment)
  BY DEF Unknown, Segment
<1> QED BY <1>1, <1>2

LEMMA JoinedIsWhere ==
  ASSUME NEW x, IsMode(x), NEW path \in Path
  PROVE  Joined(path, x) \in Where /\ Joined(path, x).st # "top"
<1>1. path.segs \in Seq(Segment)
  BY DEF Path, Segment
<1>2. Lost \in Where /\ At(path.segs) \in Where /\ Lost.st = "lost" /\ At(path.segs).st = "at"
  BY <1>1 DEF Lost, At, Where
<1>3. Base(x) \in Where /\ Base(x).at \in Seq(Segment)
  BY DEF Base, IsMode, Where
<1>4. Base(x).at \o path.segs \in Seq(Segment)
  BY <1>1, <1>3
<1>5. At(Base(x).at \o path.segs) \in Where /\ At(Base(x).at \o path.segs).st = "at"
  BY <1>4 DEF At, Where
<1> QED BY <1>2, <1>5 DEF Joined

LEMMA RootIsMode ==
  ASSUME NEW f, NEW kind \in {"data", "elements", "hook", "jsx"}
  PROVE  IsMode(RootMode(f, kind)) /\ RootMode(f, kind).g # "unread"
<1>1. At(<<>>) \in Where /\ Lost \in Where /\ Top \in Where /\ At(<<>>).st = "at" /\ Lost.st = "lost"
  BY DEF At, Lost, Top, Where
<1> QED BY <1>1 DEF RootMode, Mode, IsMode

LEMMA HandedIsMode ==
  ASSUME NEW f, NEW p, f.nodes[p] \in Node, NEW x, IsMode(x)
  PROVE  IsMode(Handed(f, p, x))
<1> DEFINE n == f.nodes[p]
           z == Handed(f, p, x)
<1>1. n.path \in Path
  BY DEF Node
<1>2. Lost \in Where /\ Top \in Where /\ Lost.st = "lost"
  BY DEF Lost, Top, Where
<1>3. Passed(n, x) \in Where
  BY <1>1, <1>2, JoinedIsWhere DEF Passed, IsMode
<1>4. IsMode(Unread)
  BY <1>2 DEF Unread, Mode, IsMode
<1>5. PICK g, a, b, d : x = [g |-> g, parent |-> a, base |-> b, nested |-> d]
  BY DEF IsMode
<1>6. ASSUME NEW w \in Where PROVE IsMode([x EXCEPT !.parent = w])
  <2>1. [x EXCEPT !.parent = w] = [g |-> g, parent |-> w, base |-> b, nested |-> d]
    BY <1>5
  <2> QED BY <1>5, <1>6, <2>1 DEF IsMode
<1>7. ASSUME NEW t, t \in BOOLEAN PROVE IsMode([g |-> "map", parent |-> x.parent, base |-> x.base, nested |-> t])
  BY <1>7 DEF IsMode
<1>8. \/ z = Unread \/ z = x \/ z = [x EXCEPT !.parent = Lost] \/ z = [x EXCEPT !.parent = Passed(n, x)]
      \/ z = [g |-> "map", parent |-> x.parent, base |-> x.base, nested |-> n.via \cap FlatteningMethods # {}]
  BY DEF Handed
<1>9. (n.via \cap FlatteningMethods # {}) \in BOOLEAN
  OBVIOUS
<1> HIDE DEF z
<1>10. IsMode(z)
  BY <1>2, <1>3, <1>4, <1>6, <1>7, <1>8, <1>9
<1> QED BY <1>10 DEF z

\* A path the reader joins is the true one.
LEMMA JoinedIsTrue ==
  ASSUME NEW x, IsMode(x), NEW y, Agree(x, y), NEW path \in Path
  PROVE  /\ Base(x).st = "at" => y.parent = Base(x).at
         /\ path.form = "text" /\ Joined(path, x).st = "at" => TruePath(y.parent, path) = Joined(path, x).at
<1>1. Base(x).st = "at" => y.parent = Base(x).at
  BY DEF Base, IsMode, Where, Agree
<1>2. Base(x) \in Where
  BY DEF Base, IsMode
<1>3. Base(x).at # Unknown
  BY <1>2, WhereIsKnown
<1>4. Base(x).st \in {"at", "lost"}
  BY DEF Base, IsMode, Where
<1>5. ASSUME path.form = "text", Joined(path, x).st = "at"
      PROVE  TruePath(y.parent, path) = Joined(path, x).at
  <2>1. CASE path.abs
    <3>1. Joined(path, x).at = path.segs
      BY <2>1 DEF Joined, At
    <3>2. path.form # "code" /\ path.form # "none"
      BY <1>5
    <3>3. TruePath(y.parent, path) = path.segs
      BY <2>1, <3>2 DEF TruePath
    <3> QED BY <3>1, <3>3
  <2>2. CASE ~path.abs
    <3>1. Base(x).st # "lost"
      BY <1>5, <2>2 DEF Joined, Lost
    <3>2. y.parent = Base(x).at /\ y.parent # Unknown
      BY <1>1, <1>3, <1>4, <3>1
    <3> DEFINE joined == Base(x).at \o path.segs
    <3>3. Joined(path, x) = At(joined)
      BY <2>2, <3>1 DEF Joined
    <3>4. TruePath(y.parent, path) = y.parent \o path.segs
      BY <1>5, <2>2, <3>2 DEF TruePath
    <3>5. TruePath(y.parent, path) = joined
      BY <3>2, <3>4
    <3> HIDE DEF joined
    <3> QED BY <3>3, <3>5 DEF At
  <2> QED BY <2>1, <2>2
<1> QED BY <1>1, <1>5

\* The parent a node hands down is the true one.
LEMMA HandedAgrees ==
  ASSUME NEW f, NEW p, Tidy(f.nodes[p]), NEW x, IsMode(x), NEW y, IsMount(y), Agree(x, y), Reads(x), Stands(y),
         x.g = "jsx" => f.nodes[p].how # "computed",
         Reads(Handed(f, p, x)), Stands(Mounts(f, p, y))
  PROVE  Agree(Handed(f, p, x), Mounts(f, p, y))
<1> DEFINE n == f.nodes[p]
           z == Handed(f, p, x)
           w == Mounts(f, p, y)
<1> SUFFICES Agree(z, w)
  OBVIOUS
<1>1. n.path \in Path /\ n.path.abs \in BOOLEAN
  BY DEF Node, Path, Tidy
<1>2. PICK g, a, b, d : x = [g |-> g, parent |-> a, base |-> b, nested |-> d]
  BY DEF IsMode
<1>3. CASE n.k = "route"
  <2>1. y.as = "route" /\ w = Mount("route", OwnPath(n, y.parent))
    BY <1>3 DEF Mounts, Stands, NotMounted, Mount
  <2>2. x.g \in {"jsx", "data"} /\ x.nested
    BY <2>1 DEF Agree, IsMode, Reads
  <2>3. CASE x.g = "jsx" /\ ElementHidden(n)
    <3>1. z = [x EXCEPT !.parent = Lost]
      BY <1>3, <2>3 DEF Handed
    <3>2. z = [g |-> g, parent |-> Lost, base |-> b, nested |-> d]
      BY <1>2, <3>1
    <3> HIDE DEF z, w
    <3> QED BY <1>2, <2>1, <2>2, <3>2 DEF Agree, Mount, Lost
  <2>4. CASE ~(x.g = "jsx" /\ ElementHidden(n))
    <3>1. z = [x EXCEPT !.parent = Passed(n, x)] /\ n.spread # "last" /\ n.how # "computed"
      BY <1>3, <2>2, <2>4 DEF Handed, Reads, Unread, Mode, ElementHidden, ObjectHidden
    <3>2. z = [g |-> g, parent |-> Passed(n, x), base |-> b, nested |-> d]
      BY <1>2, <3>1
    <3>3. w = Mount("route", TruePath(y.parent, n.path))
      BY <2>1, <3>1 DEF OwnPath
    <3>4. CASE n.path.form = "none"
      <4>1. Passed(n, x) = x.parent /\ TruePath(y.parent, n.path) = y.parent
        BY <3>4 DEF Passed, TruePath, Tidy
      <4> HIDE DEF z, w
      <4> QED BY <1>2, <2>1, <2>2, <3>2, <3>3, <4>1 DEF Agree, Mount
    <3>5. CASE n.path.form = "code"
      <4>1. Passed(n, x) = Lost
        BY <3>5 DEF Passed
      <4> HIDE DEF z, w
      <4> QED BY <1>2, <2>1, <2>2, <3>2, <3>3, <4>1 DEF Agree, Mount, Lost
    <3>6. CASE n.path.form = "text"
      <4>1. Passed(n, x) = Joined(n.path, x)
        BY <3>6 DEF Passed
      <4>2. Joined(n.path, x).st = "at" => TruePath(y.parent, n.path) = Joined(n.path, x).at
        BY <1>1, <3>6, JoinedIsTrue
      <4>3. Joined(n.path, x).st # "top"
        BY <1>1, JoinedIsWhere
      <4> HIDE DEF z, w
      <4> QED BY <1>2, <2>1, <2>2, <3>2, <3>3, <4>1, <4>2, <4>3 DEF Agree, Mount
    <3>7. n.path.form \in {"none", "code", "text"}
      BY <1>1 DEF Path
    <3> QED BY <3>4, <3>5, <3>6, <3>7
  <2> QED BY <2>3, <2>4
<1>4. CASE n.k \in {"group", "pick", "name"}
  <2>1. w = y
    BY <1>4 DEF Mounts, Stands, NotMounted, Mount
  <2>2. z = x
    BY <1>4 DEF Handed, Reads, Unread, Mode
  <2> QED BY <2>1, <2>2
<1>5. CASE n.k = "map"
  <2>1. y.as = "route" /\ w = Mount("object", y.parent) /\ PlainMap(f, p)
    BY <1>5 DEF Mounts, Stands, NotMounted, Mount
  <2>2. z = [g |-> "map", parent |-> x.parent, base |-> x.base, nested |-> n.via \cap FlatteningMethods # {}]
    BY <1>5 DEF Handed, Reads, Unread, Mode
  <2>3. n.via = {}
    BY <2>1 DEF PlainMap
  <2>4. z = [g |-> "map", parent |-> x.parent, base |-> x.base, nested |-> FALSE]
    BY <2>2, <2>3
  <2> HIDE DEF z, w
  <2> QED BY <2>1, <2>4 DEF Agree, Mount
<1>6. CASE n.k \notin {"route", "group", "pick", "name", "map"}
  <2>1. w = NotMounted
    BY <1>6 DEF Mounts
  <2> QED BY <2>1 DEF Stands, NotMounted, Mount
<1> QED BY <1>3, <1>4, <1>5, <1>6

Names(entries, p) == \E g \in entries : g.at = p

LEMMA GapNames ==
  ASSUME NEW at, NEW why, NEW text
  PROVE  /\ Gap(at, why, text) = [sites |-> {}, gaps |-> {[at |-> at, id |-> <<why, text>>]}, assumed |-> {}]
         /\ Names(Gap(at, why, text).gaps, at)
<1>1. Gap(at, why, text) = [sites |-> {}, gaps |-> {[at |-> at, id |-> <<why, text>>]}, assumed |-> {}]
  BY DEF Gap, Nothing
<1> DEFINE g == [at |-> at, id |-> <<why, text>>]
<1>2. g \in Gap(at, why, text).gaps /\ g.at = at
  BY <1>1
<1> HIDE DEF g
<1> QED BY <1>1, <1>2 DEF Names

\* Where the reader stops and the app goes on, it has named the node.
LEMMA StopIsNamed ==
  ASSUME NEW f, NEW p, Tidy(f.nodes[p]), IsMode(Context(f, p)),
         NEW y, IsMount(y), Agree(Context(f, p), y), Reads(Context(f, p)), Stands(y),
         ~Reads(Handed(f, p, Context(f, p))), Stands(Mounts(f, p, y)),
         HasKids(f, p), f.nodes[p].k = "route" => ~IsIndex(f.nodes[p])
  PROVE  Names(Read(f, p).gaps, p)
<1> DEFINE n == f.nodes[p]
           x == Context(f, p)
           z == Handed(f, p, x)
           w == Mounts(f, p, y)
<1>1. PICK g, a, b, d : x = [g |-> g, parent |-> a, base |-> b, nested |-> d]
  BY DEF IsMode
<1>2. z = x \/ z = [x EXCEPT !.parent = Lost] \/ z = [x EXCEPT !.parent = Passed(n, x)] => Reads(z)
  <2>1. \A v : [x EXCEPT !.parent = v].g = x.g
    BY <1>1
  <2> HIDE DEF x, z
  <2> QED BY <2>1 DEF Reads, x
<1>3. CASE n.k = "route"
  <2>1. y.as = "route"
    BY <1>3 DEF Mounts, Stands, NotMounted, Mount
  <2>2. x.g \in {"jsx", "data"} /\ x.nested
    BY <2>1 DEF Agree, IsMode, Reads
  <2>3. x.g = "data"
    BY <1>2, <1>3, <2>2 DEF Handed
  <2>4. ObjectHidden(f, p, x)
    BY <1>2, <1>3, <2>2, <2>3 DEF Handed
  <2>5. Read(f, p) = Gap(p, "spreadRoute", TextOf(f, p))
    BY <1>3, <2>3, <2>4 DEF Read, ReadNode, ReadObject
  <2> QED BY <2>5, GapNames
<1>4. CASE n.k = "group"
  BY <1>2, <1>4 DEF Handed, Reads
<1>5. CASE n.k = "pick"
  <2>1. x.g # "jsx" /\ x.g # "unread"
    BY <1>2, <1>5 DEF Handed, Reads
  <2>2. Read(f, p) = Gap(p, "computedRoutes", TextOf(f, p))
    BY <1>5, <2>1 DEF Read, ReadNode
  <2> QED BY <2>2, GapNames
<1>6. CASE n.k = "name"
  <2>1. n.how = "once"
    BY <1>6 DEF Mounts, Stands, NotMounted, Mount, Spelled
  <2> QED BY <1>2, <1>6, <2>1 DEF Handed, Reads
<1>7. CASE n.k = "map"
  <2>1. y.as = "route" /\ PlainMap(f, p)
    BY <1>7 DEF Mounts, Stands, NotMounted, Mount
  <2>2. MapRead(f, p)
    BY <2>1 DEF PlainMap, MapRead, ShapeRead, Spelled
  <2>3. x.g # "jsx" /\ x.g # "unread"
    BY <1>7, <2>2 DEF Handed, Reads
  <2>4. Read(f, p) = Gap(p, "computedRoutes", TextOf(f, p))
    BY <1>7, <2>3 DEF Read, ReadNode, Agree
  <2> QED BY <2>4, GapNames
<1>8. CASE n.k \notin {"route", "group", "pick", "name", "map"}
  <2>1. w = NotMounted
    BY <1>8 DEF Mounts
  <2> QED BY <2>1 DEF Stands, NotMounted, Mount
<1> QED BY <1>3, <1>4, <1>5, <1>6, <1>7, <1>8

\* Where the reader goes on and the app stops, it has named the list.
LEMMA GuessIsNamed ==
  ASSUME NEW f, NEW p, Tidy(f.nodes[p]), IsMode(Context(f, p)),
         NEW y, IsMount(y), Agree(Context(f, p), y), Reads(Context(f, p)), Stands(y),
         Reads(Handed(f, p, Context(f, p))), ~Stands(Mounts(f, p, y))
  PROVE  Names(Read(f, p).assumed, p)
<1> DEFINE n == f.nodes[p]
           x == Context(f, p)
           z == Handed(f, p, x)
           w == Mounts(f, p, y)
<1>1. z # Unread
  BY DEF Reads, Unread, Mode
<1>2. w # y /\ \A v : w # Mount("route", v) /\ w # Mount("object", v)
  BY DEF Stands, Mount
<1>3. CASE n.k = "route"
  <2>1. y.as = "object"
    BY <1>2, <1>3 DEF Mounts, IsMount, Stands
  <2>2. x.g = "map" /\ ~x.nested
    BY <2>1 DEF Agree
  <2> QED BY <1>1, <1>3, <2>2 DEF Handed
<1>4. CASE n.k \in {"group", "pick", "name"}
  <2>1. n.k = "name" /\ n.how # "once"
    BY <1>2, <1>4 DEF Mounts, Spelled
  <2> QED BY <1>1, <2>1 DEF Handed
<1>5. CASE n.k = "map"
  <2>1. x.g = "jsx" /\ MapRead(f, p)
    BY <1>1, <1>5 DEF Handed
  <2>2. y.as = "route"
    BY <2>1 DEF Agree, IsMount, Stands
  <2>3. ~PlainMap(f, p)
    BY <1>2, <1>5, <2>2 DEF Mounts
  <2>4. n.via # {} \/ n.how = "wrapped"
    BY <2>1, <2>3 DEF PlainMap, MapRead, ShapeRead, Spelled
  <2> DEFINE entry == [at |-> p, id |-> <<"assumed", TextOf(f, p)>>]
  <2>5. Read(f, p) = ReadMap(f, p)
    BY <1>5, <2>1 DEF Read, ReadNode
  <2>6. ReadMap(f, p) = [Nothing EXCEPT !.assumed = {entry}]
    <3> DEFINE guessed == \/ n.via # {} \/ n.how = "wrapped"
                          \/ \E q \in Positions(f) : IsPrefix(p, q) /\ ObjectGuessed(f, q, Context(f, q))
    <3>1. guessed
      BY <2>4
    <3>2. ~(f.nodes[ListAt(p)].k = "name" /\ f.nodes[ListAt(p)].how = "mutated")
      BY <2>1 DEF MapRead
    <3>3. ReadMap(f, p) = [Nothing EXCEPT !.assumed = IF guessed THEN {entry} ELSE {}]
      <4> HIDE DEF guessed, entry
      <4> QED BY <2>1, <3>2 DEF ReadMap, guessed, entry
    <3> QED BY <3>1, <3>3
  <2>7. Read(f, p).assumed = {entry} /\ entry.at = p
    BY <2>5, <2>6 DEF Nothing
  <2> HIDE DEF entry
  <2> QED BY <2>7 DEF Names
<1>6. CASE n.k \notin {"route", "group", "pick", "name", "map"}
  BY <1>1, <1>6 DEF Handed
<1> QED BY <1>3, <1>4, <1>5, <1>6

\* The reader beside React Router, at one node: while both are there they
\* agree, and what parted them is named above it.
Beside(f, p) ==
  LET x == Context(f, p)
      y == Mounted(f, p)
  IN /\ IsMode(x) /\ IsMount(y)
     /\ x.g = "jsx" => /\ f.routers[p[1]] \in {"elements", "jsx"}
                       /\ \A q \in Positions(f) : q # p /\ IsPrefix(q, p) => f.nodes[q].k # "map"
     /\ Reads(x) /\ Stands(y) => Agree(x, y)
     /\ ~Reads(x) /\ Stands(y) => \E q \in Positions(f) : IsPrefix(q, p) /\ Names(Read(f, q).gaps, q)
     /\ Reads(x) /\ ~Stands(y) => \E q \in Positions(f) : IsPrefix(q, p) /\ Names(Read(f, q).assumed, q)

LEMMA PositionFacts ==
  ASSUME NEW f, WellFormed(f), NEW p \in Positions(f)
  PROVE  /\ p \in Place /\ Tidy(f.nodes[p]) /\ p[1] \in DOMAIN f.routers
         /\ f.routers[p[1]] \in {"data", "elements", "hook", "jsx"}
         /\ Len(p) # 2 => Len(p) > 2 /\ Front(p) \in Positions(f) /\ HasKids(f, Front(p))
         /\ f.nodes[p].k = "route" /\ IsIndex(f.nodes[p]) => ~HasKids(f, p)
         /\ f.nodes[p].how = "computed" =>
               \/ f.routers[p[1]] \in {"data", "hook"}
               \/ \E q \in Positions(f) : f.nodes[q].k = "map" /\ q # p /\ IsPrefix(q, p)
<1>1. p \in Place
  BY DEF WellFormed, Place
<1>2. Len(p) # 2 => Len(p) > 2
  <2>1. Len(p) \in Nat /\ Len(p) >= 2
    BY <1>1 DEF Place
  <2>2. \A n \in Nat : n >= 2 /\ n # 2 => n > 2
    OBVIOUS
  <2> QED BY <2>1, <2>2
<1>3. Len(p) > 2 => Front(p) \in Positions(f)
  BY DEF WellFormed
<1>4. Front(p) \in Positions(f) => HasKids(f, Front(p))
  BY DEF HasKids
<1>5. p[1] \in DOMAIN f.routers /\ f.routers \in Seq({"data", "elements", "hook", "jsx"})
  BY DEF WellFormed
<1>6. f.routers[p[1]] \in {"data", "elements", "hook", "jsx"}
  BY <1>5
<1>7. Tidy(f.nodes[p])
  BY DEF WellFormed, Tidy
<1>8. f.nodes[p].k = "route" /\ IsIndex(f.nodes[p]) => ~HasKids(f, p)
  BY DEF WellFormed, IsIndex
<1>9. f.nodes[p].how = "computed" =>
               \/ f.routers[p[1]] \in {"data", "hook"}
               \/ \E q \in Positions(f) : f.nodes[q].k = "map" /\ q # p /\ IsPrefix(q, p)
  BY DEF WellFormed
<1> QED BY <1>1, <1>2, <1>3, <1>4, <1>5, <1>6, <1>7, <1>8, <1>9

LEMMA BesideFirst ==
  ASSUME NEW f, WellFormed(f), NEW p \in Positions(f), Len(p) = 2
  PROVE  Beside(f, p)
<1> DEFINE x == Context(f, p)
           y == Mounted(f, p)
           kind == f.routers[p[1]]
           true == IF kind \in {"hook", "jsx"} /\ ~OnlyRouter(f) THEN Unknown ELSE <<>>
<1>1. p \in Place /\ kind \in {"data", "elements", "hook", "jsx"}
  BY PositionFacts
<1>2. x = RootMode(f, kind) /\ y = Mount("route", true)
  <2>1. ComesTo("reads", f, p) = AtRouter("reads", f, p) /\ ComesTo("mounts", f, p) = AtRouter("mounts", f, p)
    BY <1>1, DescentNext
  <2> QED BY <2>1, ContextIsRead DEF AtRouter
<1>3. IsMode(x) /\ Reads(x)
  BY <1>1, <1>2, RootIsMode DEF Reads
<1>4. IsMount(y) /\ Stands(y)
  BY <1>2 DEF IsMount, Mount, Stands
<1>5. x.g = "jsx" => kind \in {"elements", "jsx"}
  BY <1>1, <1>2 DEF RootMode, Mode
<1>6. ASSUME NEW q \in Positions(f), q # p, IsPrefix(q, p) PROVE FALSE
  <2>1. q \in Place
    BY PositionFacts
  <2>2. Len(p) > 2
    BY <1>1, <1>6, <2>1, PrefixIsOfFront
  <2>3. ~(2 > 2)
    OBVIOUS
  <2> QED BY <2>2, <2>3
<1>7. Agree(x, y)
  <2>1. x.g # "map" /\ y.as = "route" /\ x.parent.st = "top" /\ y.parent = true
    BY <1>1, <1>2 DEF RootMode, Mode, Top, Mount
  <2>2. x.base.st = "at" => true = x.base.at
    BY <1>1, <1>2 DEF RootMode, Mode, At, Lost
  <2> HIDE DEF x, y
  <2> QED BY <2>1, <2>2 DEF Agree
<1> HIDE DEF x, y
<1> QED BY <1>3, <1>4, <1>5, <1>6, <1>7 DEF Beside, x, y

LEMMA BesideNext ==
  ASSUME NEW f, WellFormed(f), NEW p \in Positions(f), Len(p) # 2, Beside(f, Front(p))
  PROVE  Beside(f, p)
<1> DEFINE q == Front(p)
           n == f.nodes[q]
           a == Context(f, q)
           b == Mounted(f, q)
           x == Context(f, p)
           y == Mounted(f, p)
<1>1. p \in Place /\ Len(p) > 2 /\ q \in Positions(f) /\ q \in Place /\ HasKids(f, q) /\ Tidy(n)
  BY PositionFacts
<1>2. n.k = "route" => ~IsIndex(n)
  BY <1>1, PositionFacts
<1>3. x = Handed(f, q, a) /\ y = Mounts(f, q, b)
  <2>1. ComesTo("reads", f, p) = Down("reads", f, q, ComesTo("reads", f, q))
        /\ ComesTo("mounts", f, p) = Down("mounts", f, q, ComesTo("mounts", f, q))
    BY <1>1, DescentNext
  <2> QED BY <2>1, ContextIsRead DEF Down
<1>4. IsMode(a) /\ IsMount(b)
  BY DEF Beside
<1>5. IsMode(x)
  BY <1>1, <1>3, <1>4, HandedIsMode DEF Tidy
<1>6. IsMount(y)
  BY <1>3, <1>4 DEF Mounts, Mount, IsMount, NotMounted
<1>7. \A o \in Positions(f) : IsPrefix(o, q) => IsPrefix(o, p)
  <2>1. \A o \in Positions(f) : Len(o) \in Nat
    BY PositionFacts DEF Place
  <2> QED BY <1>1, <2>1, PrefixOfFront
<1>8. IsPrefix(q, p) /\ q # p /\ q[1] = p[1]
  BY <1>1, FrontIsPlace
<1>9. ASSUME NEW o \in Positions(f), o # p, IsPrefix(o, p) PROVE o = q \/ (o # q /\ IsPrefix(o, q))
  BY <1>1, <1>9, PositionFacts, PrefixIsOfFront
<1>10. Reads(x) => Reads(a)
  BY <1>3 DEF Handed, Reads, Unread, Mode
<1>11. Stands(y) => Stands(b)
  BY <1>3, <1>4 DEF Mounts, Stands, NotMounted, Mount, IsMount
<1>12. ASSUME x.g = "jsx"
       PROVE  /\ f.routers[p[1]] \in {"elements", "jsx"}
              /\ \A o \in Positions(f) : o # p /\ IsPrefix(o, p) => f.nodes[o].k # "map"
  <2>1. PICK g, c, d, e : a = [g |-> g, parent |-> c, base |-> d, nested |-> e]
    BY <1>4 DEF IsMode
  <2>2. \A v : [a EXCEPT !.parent = v].g = a.g
    BY <2>1
  <2>3. Unread.g # "jsx"
    BY DEF Unread, Mode
  <2>4. a.g = "jsx" /\ n.k # "map"
    <3> HIDE DEF a
    <3> QED BY <1>3, <1>12, <2>2, <2>3 DEF Handed
  <2>5. f.routers[q[1]] \in {"elements", "jsx"} /\ \A o \in Positions(f) : o # q /\ IsPrefix(o, q) => f.nodes[o].k # "map"
    BY <2>4 DEF Beside
  <2> QED BY <1>8, <1>9, <2>4, <2>5
<1>13. a.g = "jsx" => n.how # "computed"
  BY <1>1, PositionFacts DEF Beside
<1>14. ASSUME Reads(x), Stands(y) PROVE Agree(x, y)
  <2>1. Reads(a) /\ Stands(b) /\ Agree(a, b)
    BY <1>10, <1>11, <1>14 DEF Beside
  <2> QED BY <1>1, <1>3, <1>4, <1>13, <1>14, <2>1, HandedAgrees
<1>15. ASSUME ~Reads(x), Stands(y)
       PROVE  \E o \in Positions(f) : IsPrefix(o, p) /\ Names(Read(f, o).gaps, o)
  <2>1. Stands(b)
    BY <1>11, <1>15
  <2>2. CASE Reads(a)
    <3>1. Agree(a, b)
      BY <2>1, <2>2 DEF Beside
    <3>2. Names(Read(f, q).gaps, q)
      BY <1>1, <1>2, <1>3, <1>4, <1>15, <2>1, <2>2, <3>1, StopIsNamed
    <3> QED BY <1>1, <1>8, <3>2
  <2>3. CASE ~Reads(a)
    BY <1>7, <2>1, <2>3 DEF Beside
  <2> QED BY <2>2, <2>3
<1>16. ASSUME Reads(x), ~Stands(y)
       PROVE  \E o \in Positions(f) : IsPrefix(o, p) /\ Names(Read(f, o).assumed, o)
  <2>1. Reads(a)
    BY <1>10, <1>16
  <2>2. CASE Stands(b)
    <3>1. Agree(a, b)
      BY <2>1, <2>2 DEF Beside
    <3>2. Names(Read(f, q).assumed, q)
      BY <1>1, <1>3, <1>4, <1>16, <2>1, <2>2, <3>1, GuessIsNamed
    <3> QED BY <1>1, <1>8, <3>2
  <2>3. CASE ~Stands(b)
    BY <1>7, <2>1, <2>3 DEF Beside
  <2> QED BY <2>2, <2>3
<1> HIDE DEF x, y
<1> QED BY <1>5, <1>6, <1>12, <1>14, <1>15, <1>16 DEF Beside, x, y

LEMMA BesideEverywhere ==
  ASSUME NEW f, WellFormed(f)
  PROVE  \A p \in Positions(f) : Beside(f, p)
<1> DEFINE T == {m \in Nat : \A p \in Positions(f) : Len(p) = m + 2 => Beside(f, p)}
<1>1. 0 \in T
  BY BesideFirst
<1>2. ASSUME NEW m \in Nat, m \in T PROVE m + 1 \in T
  <2> SUFFICES ASSUME NEW p \in Positions(f), Len(p) = (m + 1) + 2 PROVE Beside(f, p)
    OBVIOUS
  <2>1. Len(p) # 2 /\ Len(p) > 2 /\ Len(p) - 1 = m + 2
    OBVIOUS
  <2>2. p \in Place /\ Front(p) \in Positions(f)
    BY <2>1, PositionFacts
  <2>3. Len(Front(p)) = m + 2
    BY <2>1, <2>2, FrontIsPlace
  <2> QED BY <1>2, <2>1, <2>2, <2>3, BesideNext
<1> HIDE DEF T
<1>3. \A m \in Nat : m \in T
  BY <1>1, <1>2, EveryNumber
<1> SUFFICES ASSUME NEW p \in Positions(f) PROVE Beside(f, p)
  OBVIOUS
<1>4. Len(p) - 2 \in Nat /\ Len(p) = (Len(p) - 2) + 2
  <2>1. Len(p) \in Nat /\ Len(p) >= 2
    BY PositionFacts DEF Place
  <2> QED BY <2>1
<1> QED BY <1>3, <1>4 DEF T

\* What is taken from a route that is neither hidden nor hides anything.
LEMMA RouteIsTrue ==
  ASSUME NEW f, NEW p, Tidy(f.nodes[p]), f.nodes[p].k = "route", NEW x, IsMode(x), NEW y, Agree(x, y), NEW shows,
         f.nodes[p].spread # "last", f.nodes[p].how # "computed",
         ~(f.nodes[p].spread = "first" /\ f.nodes[p].path.form = "none")
  PROVE  LET n == f.nodes[p]
             read == RouteRead(f, p, x, shows)
         IN /\ \A t \in read.sites : /\ t.at = p /\ t.path = OwnPath(n, y.parent)
                                     /\ ~EndsInStar(n.path) /\ Shows(f, p, y)
            /\ Shows(f, p, y) => \/ \E t \in read.sites : TRUE
                                 \/ Names(read.gaps, p) \/ Names(read.gaps, Append(p, 0))
<1> DEFINE n == f.nodes[p]
           read == RouteRead(f, p, x, shows)
           truth == TruePath(y.parent, n.path)
<1>1. n.path \in Path /\ n.path.abs \in BOOLEAN /\ n.index \in BOOLEAN /\ n.spread \in {"none", "first"}
      /\ n.path.form \in {"none", "code", "text"}
  BY DEF Tidy, Node, Path
<1>2. OwnPath(n, y.parent) = truth
  BY DEF OwnPath
<1>3. Shows(f, p, y) <=> ~IsLayout(n) /\ (n.path.abs \/ n.path.segs # <<"*">>)
  BY DEF Shows
<1>4. \A at, path : LET site == Site(at, path, shows)
                    IN /\ site = [sites |-> {[at |-> at, path |-> path, shows |-> shows]}, gaps |-> {}, assumed |-> {}]
                       /\ [at |-> at, path |-> path, shows |-> shows] \in site.sites
  BY DEF Site, Nothing
<1>5. CASE n.path.form = "code"
  <2>1. read = Gap(Append(p, 0), "unresolvedPath", PathText(n))
    BY <1>5 DEF RouteRead, PathRead, IsIndex
  <2> HIDE DEF read
  <2>2. Names(read.gaps, Append(p, 0)) /\ read.sites = {}
    BY <2>1, GapNames
  <2> QED BY <2>2 DEF read
<1>6. CASE n.path.form = "none" /\ IsIndex(n)
  <2>1. read = IndexRead(f, p, x, shows) /\ truth = y.parent
    BY <1>6 DEF RouteRead, TruePath, Tidy
  <2>2. CASE Base(x).st = "lost"
    <3>1. read = Gap(p, WhyLost(x), TextOf(f, p))
      BY <2>1, <2>2 DEF IndexRead
    <3> HIDE DEF read
    <3>2. Names(read.gaps, p) /\ read.sites = {}
      BY <3>1, GapNames
    <3> QED BY <3>2 DEF read
  <2>3. CASE Base(x).st # "lost"
    <3>1. read = Site(p, Base(x).at, shows)
      BY <2>1, <2>3 DEF IndexRead
    <3>2. Base(x).st = "at"
      BY <2>3 DEF Base, IsMode, Where
    <3>3. Base(x).at = truth
      BY <1>1, <2>1, <3>2, JoinedIsTrue
    <3>4. ~EndsInStar(n.path) /\ n.path.segs = <<>>
      BY <1>6 DEF EndsInStar, Tidy
    <3>5. Shows(f, p, y)
      <4>1. n.path.segs # <<"*">>
        BY <3>4
      <4>2. n.index
        BY <1>6 DEF IsIndex
      <4> QED BY <1>3, <4>1, <4>2 DEF IsLayout
    <3> HIDE DEF read, truth
    <3>6. read.sites = {[at |-> p, path |-> truth, shows |-> shows]}
      BY <1>4, <3>1, <3>3
    <3>7. \A t \in read.sites : t.at = p /\ t.path = truth
      BY <3>6
    <3>8. \E t \in read.sites : TRUE
      BY <3>6
    <3> QED BY <1>2, <3>4, <3>5, <3>7, <3>8 DEF read
  <2> QED BY <2>2, <2>3
<1>7. CASE n.path.form = "none" /\ ~IsIndex(n)
  <2>1. read = Nothing
    BY <1>7 DEF RouteRead
  <2>2. n.spread = "none" /\ ~n.index
    BY <1>1, <1>7 DEF IsIndex
  <2>3. ~Shows(f, p, y)
    BY <1>3, <1>7, <2>2 DEF IsLayout
  <2>4. read.sites = {}
    BY <2>1 DEF Nothing
  <2> HIDE DEF read
  <2> QED BY <2>3, <2>4 DEF read
<1>8. CASE n.path.form = "text"
  <2> DEFINE joined == Joined(n.path, x)
  <2>1. read = IF joined.st = "lost" THEN Gap(Append(p, 0), WhyLost(x), PathText(n))
               ELSE IF ~EndsInStar(n.path) THEN Site(p, joined.at, shows)
               ELSE IF CatchAll(n.path) THEN Nothing ELSE Gap(Append(p, 0), "splat", PathText(n))
    BY <1>8 DEF RouteRead, PathRead, IsIndex
  <2>2. joined \in Where /\ joined.st # "top" /\ (joined.st = "at" => truth = joined.at)
    BY <1>1, <1>8, JoinedIsWhere, JoinedIsTrue
  <2>3. ~IsLayout(n)
    BY <1>8 DEF IsLayout
  <2> HIDE DEF joined, read, truth
  <2>4. CASE joined.st = "lost" \/ (EndsInStar(n.path) /\ ~CatchAll(n.path))
    <3>1. \E why : read = Gap(Append(p, 0), why, PathText(n))
      BY <2>1, <2>4
    <3>2. Names(read.gaps, Append(p, 0)) /\ read.sites = {}
      BY <3>1, GapNames
    <3> QED BY <3>2 DEF read
  <2>5. CASE joined.st # "lost" /\ ~EndsInStar(n.path)
    <3>1. read = Site(p, joined.at, shows) /\ joined.at = truth
      BY <2>1, <2>2, <2>5 DEF Where
    <3>2. read.sites = {[at |-> p, path |-> truth, shows |-> shows]}
      BY <1>4, <3>1
    <3>3. \A t \in read.sites : t.at = p /\ t.path = truth
      BY <3>2
    <3>4. \E t \in read.sites : TRUE
      BY <3>2
    <3>5. n.path.segs # <<"*">>
      BY <2>5 DEF EndsInStar, Last
    <3>6. Shows(f, p, y)
      BY <1>3, <2>3, <3>5
    <3> QED BY <1>2, <2>5, <3>3, <3>4, <3>6 DEF read
  <2>6. CASE joined.st # "lost" /\ EndsInStar(n.path) /\ CatchAll(n.path)
    <3>1. ~Shows(f, p, y)
      BY <1>3, <2>6 DEF CatchAll
    <3>2. read.sites = {}
      BY <2>1, <2>6 DEF Nothing
    <3> QED BY <3>1, <3>2 DEF read
  <2> QED BY <2>4, <2>5, <2>6
<1> QED BY <1>1, <1>5, <1>6, <1>7, <1>8

\* A route read as one: hidden and named, or taken by RouteRead.
LEMMA ReadAsRoute ==
  ASSUME NEW f, WellFormed(f), NEW p \in Positions(f), Reads(Context(f, p)), f.nodes[p].k = "route"
  PROVE  \/ Read(f, p).sites = {} /\ Names(Read(f, p).gaps, p)
         \/ /\ \E shows : Read(f, p) = RouteRead(f, p, Context(f, p), shows)
            /\ f.nodes[p].spread # "last" /\ f.nodes[p].how # "computed"
            /\ ~(f.nodes[p].spread = "first" /\ f.nodes[p].path.form = "none")
<1> DEFINE n == f.nodes[p]
           x == Context(f, p)
<1>1. IsMode(x) /\ Tidy(n) /\ Beside(f, p)
  BY BesideEverywhere, PositionFacts DEF Beside
<1>2. CASE x.g = "jsx"
  <2>1. Read(f, p) = ReadElement(f, p, x)
    BY <1>2 DEF Read, ReadNode
  <2>2. CASE ElementHidden(n)
    <3>1. Read(f, p) = Gap(p, "spreadRoute", TextOf(f, p))
      BY <2>1, <2>2 DEF ReadElement
    <3> QED BY <3>1, GapNames
  <2>3. CASE ~ElementHidden(n)
    <3>1. \E shows : Read(f, p) = RouteRead(f, p, x, shows)
      BY <2>1, <2>3 DEF ReadElement
    <3>2. n.how # "computed"
      <4>1. f.routers[p[1]] \in {"elements", "jsx"} /\ \A q \in Positions(f) : q # p /\ IsPrefix(q, p) => f.nodes[q].k # "map"
        BY <1>1, <1>2 DEF Beside
      <4> QED BY <4>1, PositionFacts
    <3> QED BY <2>3, <3>1, <3>2 DEF ElementHidden
  <2> QED BY <2>2, <2>3
<1>3. CASE x.g \in {"data", "map"}
  <2>1. Read(f, p) = ReadObject(f, p, x)
    BY <1>3 DEF Read, ReadNode
  <2>2. CASE ObjectHidden(f, p, x)
    <3>1. Read(f, p) = Gap(p, "spreadRoute", TextOf(f, p))
      BY <2>1, <2>2 DEF ReadObject
    <3> QED BY <3>1, GapNames
  <2>3. CASE ~ObjectHidden(f, p, x)
    <3>1. \E shows : Read(f, p) = RouteRead(f, p, x, shows)
      BY <2>1, <2>3 DEF ReadObject
    <3> QED BY <2>3, <3>1 DEF ObjectHidden
  <2> QED BY <2>2, <2>3
<1>4. x.g \in {"jsx", "data", "map"}
  BY <1>1 DEF IsMode, Reads
<1> QED BY <1>2, <1>3, <1>4

NamedAmong(entries, s) == \E g \in entries : NamedBy(s, g)

\* What is served at a node is read there, or named.
LEMMA NodeIsNamed ==
  ASSUME NEW f, WellFormed(f), NEW p \in Positions(f), NEW s \in Serves(f, p)
  PROVE  \/ \E t \in Read(f, p).sites : t.at = s.at /\ t.path = s.path
         \/ \E q \in Positions(f) : NamedAmong(Read(f, q).gaps \cup Read(f, q).assumed, s)
<1> DEFINE n == f.nodes[p]
           x == Context(f, p)
           y == Mounted(f, p)
<1>1. Stands(y) /\ Shows(f, p, y) /\ s.at = p /\ (n.k = "route" /\ ~EndsInStar(n.path) => s.path = OwnPath(n, y.parent))
  BY DEF Serves, Serve, Stands
<1>2. IsMode(x) /\ IsMount(y) /\ Tidy(n) /\ Beside(f, p)
  BY BesideEverywhere, PositionFacts DEF Beside
<1>3. Len(p) \in Nat
  BY PositionFacts DEF Place
<1>4. ASSUME NEW q \in Positions(f), IsPrefix(q, p), Names(Read(f, q).gaps, q) \/ Names(Read(f, q).assumed, q)
      PROVE  NamedAmong(Read(f, q).gaps \cup Read(f, q).assumed, s)
  BY <1>1, <1>4 DEF Names, NamedAmong, NamedBy
<1>5. IsPrefix(p, p)
  BY <1>3, PrefixOfItself
<1>6. Names(Read(f, p).gaps, Append(p, 0)) => NamedAmong(Read(f, p).gaps \cup Read(f, p).assumed, s)
  BY <1>1 DEF Names, NamedAmong, NamedBy
<1>7. CASE ~Reads(x)
  BY <1>1, <1>2, <1>4, <1>7 DEF Beside
<1>8. CASE Reads(x)
  <2>1. Agree(x, y)
    BY <1>1, <1>2, <1>8 DEF Beside
  <2>2. CASE n.k = "route"
    <3>1. CASE Names(Read(f, p).gaps, p)
      BY <1>4, <1>5, <3>1
    <3>2. CASE ~Names(Read(f, p).gaps, p)
      <4>1. /\ \E shows : Read(f, p) = RouteRead(f, p, x, shows)
            /\ n.spread # "last" /\ n.how # "computed" /\ ~(n.spread = "first" /\ n.path.form = "none")
        BY <1>8, <2>2, <3>2, ReadAsRoute
      <4>2. PICK shows : Read(f, p) = RouteRead(f, p, x, shows)
        BY <4>1
      <4>3. /\ \A t \in Read(f, p).sites : t.at = p /\ t.path = OwnPath(n, y.parent) /\ ~EndsInStar(n.path)
            /\ (\E t \in Read(f, p).sites : TRUE) \/ Names(Read(f, p).gaps, p) \/ Names(Read(f, p).gaps, Append(p, 0))
        BY <1>1, <1>2, <2>1, <2>2, <4>1, <4>2, RouteIsTrue
      <4> QED BY <1>1, <1>6, <2>2, <3>2, <4>3
    <3> QED BY <3>1, <3>2
  <2>3. CASE n.k \in {"group", "pick", "name"}
    <3>1. n.k = "name" /\ n.how # "once"
      BY <1>1, <2>3 DEF Shows, Spelled
    <3>2. \E why : Read(f, p) = Gap(p, why, TextOf(f, p))
      BY <1>8, <3>1 DEF Read, ReadNode, Reads
    <3> QED BY <1>4, <1>5, <3>2, GapNames
  <2>4. CASE n.k = "map"
    <3>1. ~(y.as = "route" /\ PlainMap(f, p))
      BY <1>1, <2>4 DEF Shows
    <3>2. CASE x.g # "jsx"
      <4>1. Read(f, p) = Gap(p, "computedRoutes", TextOf(f, p))
        BY <1>8, <2>4, <3>2 DEF Read, ReadNode, Reads
      <4> QED BY <1>4, <1>5, <4>1, GapNames
    <3>3. CASE x.g = "jsx" /\ MapRead(f, p)
      <4>1. y.as = "route" /\ ~PlainMap(f, p)
        BY <1>1, <1>2, <2>1, <3>1, <3>3 DEF Agree, IsMount, Stands
      <4>2. Reads(Handed(f, p, x)) /\ ~Stands(Mounts(f, p, y))
        BY <2>4, <3>3, <4>1 DEF Handed, Mounts, Reads, Stands, NotMounted, Mount
      <4>3. Names(Read(f, p).assumed, p)
        BY <1>1, <1>2, <1>8, <2>1, <4>2, GuessIsNamed
      <4> QED BY <1>4, <1>5, <4>3
    <3>4. CASE x.g = "jsx" /\ ~MapRead(f, p)
      <4>1. Read(f, p) = ReadMap(f, p)
        BY <2>4, <3>4 DEF Read, ReadNode
      <4>2. \E why, text : ReadMap(f, p) = Gap(p, why, text)
        BY <3>4 DEF ReadMap
      <4> QED BY <1>4, <1>5, <4>1, <4>2, GapNames
    <3> QED BY <3>2, <3>3, <3>4
  <2>5. CASE n.k \notin {"route", "group", "pick", "name", "map"}
    <3>1. n.k # "redirect"
      BY <1>1, <2>5 DEF Shows
    <3>2. \E why : Read(f, p) = Gap(p, why, TextOf(f, p))
      BY <1>8, <2>5, <3>1 DEF Read, ReadNode, Reads
    <3> QED BY <1>4, <1>5, <3>2, GapNames
  <2> QED BY <2>2, <2>3, <2>4, <2>5
<1> QED BY <1>7, <1>8

\* What is read at a node is served there, or its list is named as assumed.
LEMMA NodeIsServed ==
  ASSUME NEW f, WellFormed(f), NEW p \in Positions(f), NEW t \in Read(f, p).sites
  PROVE  \/ \E s \in Serves(f, p) : s.at = t.at /\ s.path = t.path
         \/ \E q \in Positions(f) : \E g \in Read(f, q).assumed : IsPrefix(g.at, t.at)
<1> DEFINE n == f.nodes[p]
           x == Context(f, p)
           y == Mounted(f, p)
<1>1. IsMode(x) /\ IsMount(y) /\ Tidy(n) /\ Beside(f, p)
  BY BesideEverywhere, PositionFacts DEF Beside
<1>2. Reads(x)
  BY DEF Read, ReadNode, Reads, Nothing
<1>3. n.k = "route"
  <2> SUFFICES ASSUME n.k # "route" PROVE FALSE
    OBVIOUS
  <2>1. \/ \E why, text : Read(f, p) = Gap(p, why, text)
        \/ Read(f, p) = Nothing
        \/ Read(f, p) = ReadMap(f, p)
    BY <1>2 DEF Read, ReadNode, Reads
  <2>2. \/ \E why, text : ReadMap(f, p) = Gap(p, why, text)
        \/ \E entries : ReadMap(f, p) = [Nothing EXCEPT !.assumed = entries]
    BY DEF ReadMap, MapRead
  <2>3. \A entries : [Nothing EXCEPT !.assumed = entries].sites = {}
    BY DEF Nothing
  <2>4. \A why, text : Gap(p, why, text).sites = {}
    BY GapNames
  <2>5. Nothing.sites = {}
    BY DEF Nothing
  <2> QED BY <2>1, <2>2, <2>3, <2>4, <2>5
<1>4. /\ \E shows : Read(f, p) = RouteRead(f, p, x, shows)
      /\ n.spread # "last" /\ n.how # "computed" /\ ~(n.spread = "first" /\ n.path.form = "none")
  BY <1>2, <1>3, ReadAsRoute
<1>5. PICK shows : Read(f, p) = RouteRead(f, p, x, shows)
  BY <1>4
<1>6. CASE Stands(y)
  <2>1. Agree(x, y)
    BY <1>1, <1>2, <1>6 DEF Beside
  <2>2. t.at = p /\ t.path = OwnPath(n, y.parent) /\ ~EndsInStar(n.path) /\ Shows(f, p, y)
    BY <1>1, <1>3, <1>4, <1>5, <2>1, RouteIsTrue
  <2> DEFINE s == [at |-> p, path |-> OwnPath(n, y.parent), shows |-> n.shows]
  <2>3. s \in Serves(f, p)
    BY <1>3, <1>6, <2>2 DEF Serves, Serve, Stands
  <2>4. s.at = t.at /\ s.path = t.path
    BY <2>2
  <2> QED BY <2>3, <2>4
<1>7. CASE ~Stands(y)
  <2>1. PICK q \in Positions(f) : IsPrefix(q, p) /\ Names(Read(f, q).assumed, q)
    BY <1>1, <1>2, <1>7 DEF Beside
  <2>2. t.at = p
    <3>1. \A r \in RouteRead(f, p, x, shows).sites : r.at = p
      <4>1. \A at, path : \A r \in Site(at, path, shows).sites : r.at = at
        BY DEF Site, Nothing
      <4>2. Nothing.sites = {} /\ \A at, why, text : Gap(at, why, text).sites = {}
        BY GapNames DEF Nothing
      <4> QED BY <4>1, <4>2 DEF RouteRead, PathRead, IndexRead, IsIndex
    <3> QED BY <1>5, <3>1
  <2> QED BY <2>1, <2>2 DEF Names
<1> QED BY <1>6, <1>7

-----------------------------------------------------------------------------
(* ------------------------------ the whole file ------------------------- *)

Taken(f) ==
  {Read(f, p) : p \in Positions(f)} \cup {LooseRead(f, i) : i \in DOMAIN f.loose} \cup {StrangeRead(f)}
IsMostlyRead(f) == f.parses /\ ~(f.routers = <<>> /\ (f.loose # <<>> \/ f.strange))

LEMMA FileIsTaken ==
  ASSUME NEW f, IsMostlyRead(f)
  PROVE  /\ ReadFile(f).sites = UNION {r.sites : r \in Taken(f)}
         /\ Unreadable(ReadFile(f)) = UNION {r.gaps \cup r.assumed : r \in Taken(f)}
         /\ ReadFile(f).assumed = UNION {r.assumed : r \in Taken(f)}
<1>1. ReadFile(f) = [sites |-> UNION {r.sites : r \in Taken(f)}, gaps |-> UNION {r.gaps : r \in Taken(f)},
                     assumed |-> UNION {r.assumed : r \in Taken(f)}]
  BY DEF ReadFile, IsMostlyRead, Taken
<1> HIDE DEF Taken
<1>2. UNION {r.gaps \cup r.assumed : r \in Taken(f)}
      = (UNION {r.gaps : r \in Taken(f)}) \cup (UNION {r.assumed : r \in Taken(f)})
  OBVIOUS
<1> QED BY <1>1, <1>2 DEF Unreadable

\* What an unread factory's routes, or those of a file that does not parse, serve.
Outside == [at |-> <<0>>, path |-> Unknown, shows |-> "none"]

LEMMA ServedIsSomewhere ==
  ASSUME NEW f, WellFormed(f), NEW s \in ServedBy(f)
  PROVE  /\ s.at \in Seq(Nat)
         /\ \/ \E p \in Positions(f) : s \in Serves(f, p)
            \/ \E i \in DOMAIN f.loose : s = [at |-> <<Len(f.routers) + i>>, path |-> Unknown, shows |-> "none"]
            \/ (f.strange \/ ~f.parses) /\ s = Outside
<1>1. \/ \E p \in Positions(f) : s \in Serves(f, p)
      \/ \E i \in DOMAIN f.loose : s \in Serve(<<Len(f.routers) + i>>, Unknown, "none")
      \/ (f.strange \/ ~f.parses) /\ s \in Serve(<<0>>, Unknown, "none")
  BY DEF ServedBy
<1>2. \/ \E p \in Positions(f) : s \in Serves(f, p)
      \/ \E i \in DOMAIN f.loose : s = [at |-> <<Len(f.routers) + i>>, path |-> Unknown, shows |-> "none"]
      \/ (f.strange \/ ~f.parses) /\ s = Outside
  BY <1>1 DEF Serve, Outside
<1>3. ASSUME NEW p \in Positions(f), s \in Serves(f, p) PROVE s.at \in Seq(Nat)
  <2>1. s.at = p
    BY <1>3 DEF Serves, Serve
  <2>2. p \in Seq(Nat \ {0})
    BY PositionFacts DEF Place
  <2> QED BY <2>1, <2>2
<1>4. ASSUME NEW i \in DOMAIN f.loose PROVE <<Len(f.routers) + i>> \in Seq(Nat)
  <2>1. f.loose \in Seq(Node) /\ f.routers \in Seq({"data", "elements", "hook", "jsx"})
    BY DEF WellFormed
  <2>2. i \in Nat /\ Len(f.routers) \in Nat
    BY <2>1
  <2> QED BY <2>2
<1>5. <<0>> \in Seq(Nat)
  OBVIOUS
<1>6. s.at \in Seq(Nat)
  <2>1. CASE \E p \in Positions(f) : s \in Serves(f, p)
    BY <1>3, <2>1
  <2>2. CASE \E i \in DOMAIN f.loose : s = [at |-> <<Len(f.routers) + i>>, path |-> Unknown, shows |-> "none"]
    BY <1>4, <2>2
  <2>3. CASE s = Outside
    BY <1>5, <2>3 DEF Outside
  <2> QED BY <1>2, <2>1, <2>2, <2>3
<1> QED BY <1>2, <1>6

LEMMA WholeNames ==
  ASSUME NEW why, NEW s, s.at \in Seq(Nat)
  PROVE  WholeFile(why).sites = {} /\ NamedIn(s, Unreadable(WholeFile(why)))
<1> DEFINE g == [at |-> <<>>, id |-> <<"whole", why>>]
<1>1. WholeFile(why).sites = {} /\ WholeFile(why).gaps = {g} /\ g.at = <<>>
  BY DEF WholeFile, Nothing
<1> HIDE DEF g
<1>2. IsPrefix(<<>>, s.at)
  BY DEF IsPrefix
<1> QED BY <1>1, <1>2 DEF NamedIn, NamedBy, Unreadable

\* Of every module an author can write, the reader reads or names each route
\* the app serves, and takes no path the app does not serve.
LEMMA FileIsRead ==
  ASSUME NEW f, WellFormed(f)
  PROVE  /\ \A s \in ServedBy(f) : ReadAsServed(s, ReadFile(f)) \/ NamedIn(s, Unreadable(ReadFile(f)))
         /\ \A t \in ReadFile(f).sites :
              \/ \E s \in ServedBy(f) : s.at = t.at /\ s.path = t.path
              \/ \E g \in ReadFile(f).assumed : IsPrefix(g.at, t.at)
<1>1. CASE ~IsMostlyRead(f)
  <2>1. \E why : ReadFile(f) = WholeFile(why)
    BY <1>1 DEF IsMostlyRead, ReadFile
  <2>2. PICK why : ReadFile(f) = WholeFile(why)
    BY <2>1
  <2>3. WholeFile(why).sites = {}
    BY DEF WholeFile, Nothing
  <2>4. \A s \in ServedBy(f) : s.at \in Seq(Nat)
    BY ServedIsSomewhere
  <2> QED BY <2>2, <2>3, <2>4, WholeNames
<1>2. CASE IsMostlyRead(f)
  <2>1. /\ ReadFile(f).sites = UNION {r.sites : r \in Taken(f)}
        /\ Unreadable(ReadFile(f)) = UNION {r.gaps \cup r.assumed : r \in Taken(f)}
        /\ ReadFile(f).assumed = UNION {r.assumed : r \in Taken(f)}
    BY <1>2, FileIsTaken
  <2>2. \A p \in Positions(f) : Read(f, p) \in Taken(f)
    BY DEF Taken
  <2>3. ASSUME NEW s \in ServedBy(f)
        PROVE  ReadAsServed(s, ReadFile(f)) \/ NamedIn(s, Unreadable(ReadFile(f)))
    <3>1. ASSUME NEW p \in Positions(f), s \in Serves(f, p)
          PROVE  ReadAsServed(s, ReadFile(f)) \/ NamedIn(s, Unreadable(ReadFile(f)))
      <4>1. \/ \E t \in Read(f, p).sites : t.at = s.at /\ t.path = s.path
            \/ \E q \in Positions(f) : NamedAmong(Read(f, q).gaps \cup Read(f, q).assumed, s)
        BY <3>1, NodeIsNamed
      <4> QED BY <2>1, <2>2, <4>1 DEF ReadAsServed, NamedIn, NamedAmong
    <3>2. ASSUME NEW i \in DOMAIN f.loose, s = [at |-> <<Len(f.routers) + i>>, path |-> Unknown, shows |-> "none"]
          PROVE  NamedIn(s, Unreadable(ReadFile(f)))
      <4> DEFINE at == <<Len(f.routers) + i>>
      <4>1. LooseRead(f, i) \in Taken(f) /\ LooseRead(f, i) = Gap(at, "looseRoute", OneNode(f.loose[i]))
        BY DEF Taken, LooseRead
      <4>2. s.at = at /\ at \in Seq(Nat)
        <5>1. s.at = at
          BY <3>2
        <5>2. s.at \in Seq(Nat)
          BY ServedIsSomewhere
        <5> HIDE DEF at
        <5> QED BY <5>1, <5>2
      <4> HIDE DEF at
      <4>3. IsPrefix(at, at)
        BY <4>2, PrefixOfItself
      <4>4. PICK g \in LooseRead(f, i).gaps : g.at = at
        BY <4>1, GapNames DEF Names
      <4>5. g \in Unreadable(ReadFile(f))
        BY <2>1, <4>1, <4>4
      <4>6. NamedBy(s, g)
        BY <4>2, <4>3, <4>4 DEF NamedBy
      <4> QED BY <4>5, <4>6 DEF NamedIn
    <3>3. ASSUME f.strange, s = Outside
          PROVE  NamedIn(s, Unreadable(ReadFile(f)))
      <4> DEFINE at == <<0>>
      <4>1. StrangeRead(f) \in Taken(f) /\ StrangeRead(f) = Gap(at, "unknownFactory", OneNode(Plain))
        BY <3>3 DEF Taken, StrangeRead
      <4>2. s.at = at /\ at \in Seq(Nat)
        <5>1. s.at = at
          BY <3>3 DEF Outside
        <5>2. s.at \in Seq(Nat)
          BY ServedIsSomewhere
        <5> HIDE DEF at
        <5> QED BY <5>1, <5>2
      <4> HIDE DEF at
      <4>3. IsPrefix(at, at)
        BY <4>2, PrefixOfItself
      <4>4. PICK g \in StrangeRead(f).gaps : g.at = at
        BY <4>1, GapNames DEF Names
      <4>5. g \in Unreadable(ReadFile(f))
        BY <2>1, <4>1, <4>4
      <4>6. NamedBy(s, g)
        BY <4>2, <4>3, <4>4 DEF NamedBy
      <4> QED BY <4>5, <4>6 DEF NamedIn
    <3>4. f.parses
      BY <1>2 DEF IsMostlyRead
    <3> QED BY <3>1, <3>2, <3>3, <3>4, ServedIsSomewhere
  <2>4. ASSUME NEW t \in ReadFile(f).sites
        PROVE  \/ \E s \in ServedBy(f) : s.at = t.at /\ s.path = t.path
               \/ \E g \in ReadFile(f).assumed : IsPrefix(g.at, t.at)
    <3>1. PICK r \in Taken(f) : t \in r.sites
      BY <2>1
    <3>2. \A i : LooseRead(f, i).sites = {}
      BY GapNames DEF LooseRead
    <3>3. StrangeRead(f).sites = {}
      BY GapNames DEF StrangeRead, Nothing
    <3>4. PICK p \in Positions(f) : t \in Read(f, p).sites
      BY <3>1, <3>2, <3>3 DEF Taken
    <3>5. \/ \E s \in Serves(f, p) : s.at = t.at /\ s.path = t.path
          \/ \E q \in Positions(f) : \E g \in Read(f, q).assumed : IsPrefix(g.at, t.at)
      BY <3>4, NodeIsServed
    <3>6. Serves(f, p) \subseteq ServedBy(f)
      BY DEF ServedBy
    <3> QED BY <2>1, <2>2, <3>5, <3>6
  <2> QED BY <2>3, <2>4
<1> QED BY <1>1, <1>2

-----------------------------------------------------------------------------
(* ----------------------------- the invariant --------------------------- *)

TreeIsWhole(t) ==
  /\ DOMAIN t = TreeParts /\ WellFormed(t.router)
  /\ "imports" \in DOMAIN t.code /\ DOMAIN t.code.imports \subseteq ToSet(FileOrder)
  /\ WideIsUi(t.config)
TouchedIsListed ==
  /\ touched = [ui |-> touched.ui, other |-> touched.other, docs |-> touched.docs]
  /\ touched.ui \subseteq ToSet(FileOrder)

\* What was said last is what would be said now: every edit takes it back.
PlanIsOfNow == plan.st = "planned" => \E ref \in BOOLEAN : plan = PlanOf(tree, base, touched, ref)
DriftIsOfNow == drift = 0 => DriftExit(tree.sidecar, tree.router) = 0

CoverageInv == TreeIsWhole(tree) /\ WideIsUi(base.config) /\ TouchedIsListed /\ PlanIsOfNow /\ DriftIsOfNow

LEMMA CoverageInit ==
  Init => CoverageInv
<1> SUFFICES ASSUME Init PROVE CoverageInv
  OBVIOUS
<1>1. TreeIsWhole(tree) /\ WideIsUi(base.config)
  BY StartsAssumption DEF Init, TreeIsWhole
<1>2. TouchedIsListed
  BY DEF Init, TouchedIsListed, Untouched
<1>3. PlanIsOfNow /\ DriftIsOfNow
  BY DEF Init, PlanIsOfNow, DriftIsOfNow, NoPlan, NoDrift
<1> QED BY <1>1, <1>2, <1>3 DEF CoverageInv

\* The parts of a tree the plan counts on are kept by an edit of any other.
LEMMA EditKeepsTree ==
  ASSUME NEW t, TreeIsWhole(t), NEW v, NEW w
  PROVE  /\ TreeIsWhole([t EXCEPT !.sidecar = v]) /\ TreeIsWhole([t EXCEPT !.side = v])
         /\ TreeIsWhole([t EXCEPT !.book = v]) /\ TreeIsWhole([t EXCEPT !.docs = v])
         /\ WellFormed(v) => TreeIsWhole([t EXCEPT !.router = v])
         /\ WideIsUi(v) => TreeIsWhole([t EXCEPT !.config = v])
         /\ TreeIsWhole([t EXCEPT !.code.imports[w] = v])
<1>1. DOMAIN t = {"router", "sidecar", "config", "code", "side", "docs", "book"}
  BY DEF TreeIsWhole, TreeParts
<1>2. ASSUME NEW part \in {"sidecar", "side", "book", "docs"} PROVE TreeIsWhole([t EXCEPT ![part] = v])
  <2> DEFINE u == [t EXCEPT ![part] = v]
  <2>1. DOMAIN u = DOMAIN t /\ u.router = t.router /\ u.code = t.code /\ u.config = t.config
    BY <1>1
  <2> HIDE DEF u
  <2>2. TreeIsWhole(u)
    BY <2>1 DEF TreeIsWhole
  <2> QED BY <2>2 DEF u
<1>3. ASSUME WellFormed(v) PROVE TreeIsWhole([t EXCEPT !.router = v])
  <2> DEFINE u == [t EXCEPT !.router = v]
  <2>1. DOMAIN u = DOMAIN t /\ u.router = v /\ u.code = t.code /\ u.config = t.config
    BY <1>1
  <2> HIDE DEF u
  <2>2. TreeIsWhole(u)
    BY <1>3, <2>1 DEF TreeIsWhole
  <2> QED BY <2>2 DEF u
<1>4. ASSUME WideIsUi(v) PROVE TreeIsWhole([t EXCEPT !.config = v])
  <2> DEFINE u == [t EXCEPT !.config = v]
  <2>1. DOMAIN u = DOMAIN t /\ u.router = t.router /\ u.code = t.code /\ u.config = v
    BY <1>1
  <2> HIDE DEF u
  <2>2. TreeIsWhole(u)
    BY <1>4, <2>1 DEF TreeIsWhole
  <2> QED BY <2>2 DEF u
<1>5. TreeIsWhole([t EXCEPT !.code.imports[w] = v])
  <2> DEFINE u == [t EXCEPT !.code.imports[w] = v]
  <2>1. DOMAIN u = DOMAIN t /\ u.router = t.router /\ u.config = t.config
    BY <1>1
  <2>2. u.code = [t.code EXCEPT !.imports[w] = v]
    BY <1>1
  <2>3. DOMAIN u.code = DOMAIN t.code
    BY <2>2
  <2>4. "imports" \in DOMAIN t.code => u.code.imports = [t.code.imports EXCEPT ![w] = v]
    BY <2>2
  <2> HIDE DEF u
  <2>5. "imports" \in DOMAIN t.code => DOMAIN u.code.imports = DOMAIN t.code.imports
    BY <2>4
  <2>6. TreeIsWhole(u)
    BY <2>1, <2>3, <2>5 DEF TreeIsWhole
  <2> QED BY <2>6 DEF u
<1> QED BY <1>2, <1>3, <1>4, <1>5

LEMMA EditedKeeps ==
  ASSUME CoverageInv, NEW t, TreeIsWhole(t), NEW kind \in {"ui", "other", "docs"}, NEW files,
         kind = "ui" => files \subseteq ToSet(FileOrder), Edited(t, kind, files)
  PROVE  CoverageInv'
<1>1. PICK u, o, d : touched = [ui |-> u, other |-> o, docs |-> d]
  BY DEF CoverageInv, TouchedIsListed
<1>2. TouchedIsListed'
  <2>1. touched' = [touched EXCEPT ![kind] = @ \cup files] /\ u \subseteq ToSet(FileOrder)
    BY <1>1 DEF Edited, CoverageInv, TouchedIsListed
  <2>2. CASE kind = "ui"
    <3> DEFINE v == [ui |-> u \cup files, other |-> o, docs |-> d]
    <3>1. touched' = v
      BY <1>1, <2>1, <2>2
    <3>2. v = [ui |-> v.ui, other |-> v.other, docs |-> v.docs] /\ v.ui \subseteq ToSet(FileOrder)
      BY <2>1, <2>2
    <3> HIDE DEF v
    <3> QED BY <3>1, <3>2 DEF TouchedIsListed
  <2>3. CASE kind = "other"
    <3> DEFINE v == [ui |-> u, other |-> o \cup files, docs |-> d]
    <3>1. touched' = v
      BY <1>1, <2>1, <2>3
    <3>2. v = [ui |-> v.ui, other |-> v.other, docs |-> v.docs] /\ v.ui \subseteq ToSet(FileOrder)
      BY <2>1, <2>3
    <3> HIDE DEF v
    <3> QED BY <3>1, <3>2 DEF TouchedIsListed
  <2>4. CASE kind = "docs"
    <3> DEFINE v == [ui |-> u, other |-> o, docs |-> d \cup files]
    <3>1. touched' = v
      BY <1>1, <2>1, <2>4
    <3>2. v = [ui |-> v.ui, other |-> v.other, docs |-> v.docs] /\ v.ui \subseteq ToSet(FileOrder)
      BY <2>1, <2>4
    <3> HIDE DEF v
    <3> QED BY <3>1, <3>2 DEF TouchedIsListed
  <2> QED BY <2>2, <2>3, <2>4
<1>3. TreeIsWhole(tree)' /\ WideIsUi(base.config)'
  BY DEF Edited, CoverageInv, TreeIsWhole, WideIsUi
<1>4. PlanIsOfNow' /\ DriftIsOfNow'
  BY DEF Edited, PlanIsOfNow, DriftIsOfNow, NoPlan, NoDrift
<1> QED BY <1>2, <1>3, <1>4 DEF CoverageInv

\* A list of usabl's own is rewritten.
LEMMA ListedKeeps ==
  ASSUME CoverageInv, TreeIsWhole(tree'), drift' = NoDrift, plan' = NoPlan, UNCHANGED <<base, touched>>
  PROVE  CoverageInv'
<1>1. TreeIsWhole(tree)' /\ WideIsUi(base.config)'
  BY DEF CoverageInv, TreeIsWhole, WideIsUi
<1>2. TouchedIsListed'
  BY DEF CoverageInv, TouchedIsListed
<1>3. PlanIsOfNow' /\ DriftIsOfNow'
  BY DEF PlanIsOfNow, DriftIsOfNow, NoPlan, NoDrift
<1> QED BY <1>1, <1>2, <1>3 DEF CoverageInv

LEMMA DraftIsUi ==
  ASSUME NEW routes
  PROVE  WideIsUi(DraftConfig(routes))
<1>1. DraftConfig(routes).wide = {RouterFile} /\ DraftConfig(routes).globs = {"app"}
  BY DEF DraftConfig
<1>2. RouterFile[1][1] = "app"
  BY DEF RouterFile
<1> QED BY <1>1, <1>2, FilesAssumption DEF WideIsUi, IsUi, IsTest

LEMMA CoverageNext ==
  CoverageInv /\ [Next]_vars => CoverageInv'
<1> SUFFICES ASSUME CoverageInv, [Next]_vars PROVE CoverageInv'
  OBVIOUS
<1>0. TreeIsWhole(tree) /\ touched.ui \subseteq ToSet(FileOrder)
  BY DEF CoverageInv, TouchedIsListed
<1>1. ASSUME NEW f \in Routers \cup {tree.router}, EditRouter(f) PROVE CoverageInv'
  <2>1. WellFormed(f)
    BY <1>0, RoutersAssumption DEF TreeIsWhole
  <2>2. TreeIsWhole([tree EXCEPT !.router = f])
    BY <1>0, <2>1, EditKeepsTree
  <2>3. {RouterFile} \subseteq ToSet(FileOrder)
    BY FilesAssumption
  <2> QED BY <1>1, <2>2, <2>3, EditedKeeps DEF EditRouter
<1>2. ASSUME NEW file, NEW specs, EditUi(file, specs) PROVE CoverageInv'
  <2>1. TreeIsWhole([tree EXCEPT !.code.imports[file] = specs])
    BY <1>0, EditKeepsTree
  <2>2. {file} \subseteq ToSet(FileOrder)
    BY <1>0, <1>2 DEF EditUi, TreeIsWhole
  <2> QED BY <1>2, <2>1, <2>2, EditedKeeps DEF EditUi
<1>3. ASSUME NEW file, EditPackage(file) PROVE CoverageInv'
  BY <1>0, <1>3, EditedKeeps DEF EditPackage
<1>4. ASSUME NEW side, EditManifests(side) PROVE CoverageInv'
  <2>1. TreeIsWhole([tree EXCEPT !.side = side])
    BY <1>0, EditKeepsTree
  <2> DEFINE files == {[dir |-> d, kind |-> "manifest"] : d \in {e \in Folders : side.manifests[e] # tree.side.manifests[e]}}
  <2>2. Edited([tree EXCEPT !.side = side], "other", files)
    BY <1>4 DEF EditManifests
  <2> HIDE DEF files
  <2> QED BY <2>1, <2>2, EditedKeeps
<1>5. ASSUME NEW file, NEW text, EditDoc(file, text) PROVE CoverageInv'
  <2>1. TreeIsWhole([tree EXCEPT !.docs = [tree.docs EXCEPT ![file] = text]])
    BY <1>0, EditKeepsTree
  <2>2. Edited([tree EXCEPT !.docs = [tree.docs EXCEPT ![file] = text]], "docs", {file})
    BY <1>5 DEF EditDoc
  <2> QED BY <2>1, <2>2, EditedKeeps
<1>6. ASSUME NEW url, NEW entry, ListRoute(url, entry) PROVE CoverageInv'
  <2>1. tree' = [tree EXCEPT !.sidecar = [tree.sidecar EXCEPT !.routes = @ \cup {Entry(url, entry)}]]
    BY <1>6 DEF ListRoute
  <2>2. TreeIsWhole(tree')
    BY <1>0, <2>1, EditKeepsTree
  <2> QED BY <1>6, <2>2, ListedKeeps DEF ListRoute, Kept
<1>7. ASSUME NEW route, DropRoute(route) PROVE CoverageInv'
  <2>1. tree' = [tree EXCEPT !.sidecar = [tree.sidecar EXCEPT !.routes = @ \ {route}]]
    BY <1>7 DEF DropRoute
  <2>2. TreeIsWhole(tree')
    BY <1>0, <2>1, EditKeepsTree
  <2> QED BY <1>7, <2>2, ListedKeeps DEF DropRoute, Kept
<1>8. ASSUME NEW id, Acknowledge(id) PROVE CoverageInv'
  <2>1. tree' = [tree EXCEPT !.sidecar = [tree.sidecar EXCEPT !.acks = @ \cup {id}]]
    BY <1>8 DEF Acknowledge
  <2>2. TreeIsWhole(tree')
    BY <1>0, <2>1, EditKeepsTree
  <2> QED BY <1>8, <2>2, ListedKeeps DEF Acknowledge, Kept
<1>9. ASSUME NEW force, WriteConfig(force) PROVE CoverageInv'
  <2>1. PICK routes : tree' = [tree EXCEPT !.config = DraftConfig(routes)]
    BY <1>9 DEF WriteConfig
  <2>2. TreeIsWhole(tree')
    BY <1>0, <2>1, EditKeepsTree, DraftIsUi
  <2> QED BY <1>9, <2>2, ListedKeeps DEF WriteConfig
<1>10. ASSUME WriteRoutes PROVE CoverageInv'
  <2>1. TreeIsWhole(tree')
    BY <1>0, <1>10, EditKeepsTree DEF WriteRoutes
  <2> QED BY <1>10, <2>1, ListedKeeps DEF WriteRoutes
<1>11. ASSUME DraftDocs PROVE CoverageInv'
  <2>1. TreeIsWhole(tree')
    BY <1>0, <1>11, EditKeepsTree DEF DraftDocs
  <2> QED BY <1>11, <2>1, ListedKeeps DEF DraftDocs, Kept
<1>12. ASSUME UNCHANGED <<tree, base, touched, drift, plan>> PROVE CoverageInv'
  BY <1>12 DEF CoverageInv, TreeIsWhole, WideIsUi, TouchedIsListed, PlanIsOfNow, DriftIsOfNow
<1>13. ASSUME Drift PROVE CoverageInv'
  BY <1>13 DEF Drift, CoverageInv, TreeIsWhole, WideIsUi, TouchedIsListed, PlanIsOfNow, DriftIsOfNow
<1>14. ASSUME NEW ref \in BOOLEAN, Check(ref) PROVE CoverageInv'
  <2>1. plan' = PlanOf(tree, base, touched, ref)' /\ UNCHANGED <<tree, base, touched, drift>>
    BY <1>14 DEF Check
  <2>2. PlanIsOfNow'
    BY <2>1 DEF PlanIsOfNow
  <2> QED BY <2>1, <2>2 DEF CoverageInv, TreeIsWhole, WideIsUi, TouchedIsListed, DriftIsOfNow
<1>15. ASSUME Merge PROVE CoverageInv'
  <2>1. PlanIsOfNow' /\ DriftIsOfNow'
    BY <1>15 DEF Merge, CoverageInv, PlanIsOfNow, DriftIsOfNow, NoPlan
  <2>2. TouchedIsListed'
    BY <1>15 DEF Merge, TouchedIsListed, Untouched
  <2>3. TreeIsWhole(tree)' /\ WideIsUi(base.config)'
    BY <1>15 DEF Merge, CoverageInv, TreeIsWhole, WideIsUi
  <2> QED BY <2>1, <2>2, <2>3 DEF CoverageInv
<1>16. ASSUME InitStops PROVE CoverageInv'
  BY <1>12, <1>16 DEF InitStops
<1>17. ASSUME UNCHANGED vars PROVE CoverageInv'
  BY <1>12, <1>17 DEF vars
<1> QED BY <1>1, <1>2, <1>3, <1>4, <1>5, <1>6, <1>7, <1>8, <1>9, <1>10, <1>11, <1>13, <1>14, <1>15, <1>16, <1>17 DEF Next

-----------------------------------------------------------------------------
(* ---------------------------- what is promised ------------------------- *)

\* A plan that was made says what its coverage says, over the list in force.
LEMMA PlanSays ==
  ASSUME CoverageInv, plan.st = "planned"
  PROVE  LET c == AppCoverage(plan.book, plan.config, tree, base, touched)
         IN /\ plan.affected = c.affected /\ c.gaps \subseteq plan.gaps
            /\ WideIsUi(plan.config) /\ plan.book.source # "refused"
            /\ \E sidecar : plan.book = Manifest(sidecar, tree.router)
<1>1. PICK ref \in BOOLEAN : plan = PlanOf(tree, base, touched, ref)
  BY DEF CoverageInv, PlanIsOfNow
<1> DEFINE sidecar == InForce(tree.sidecar, base.sidecar, NoSidecar, ref)
           book == Manifest(sidecar, tree.router)
           config == IF tree.config # base.config /\ ref THEN base.config ELSE tree.config
           docsBook == InForce(tree.book, base.book, NoBook, ref)
           app == AppCoverage(book, config, tree, base, touched)
           docs == DocsCoverage(docsBook, touched.docs, DOMAIN tree.docs \cup DOMAIN base.docs)
           gaps == app.gaps \cup {<<"docs", f>> : f \in docs.gaps}
                   \cup (IF config.there THEN {} ELSE {<<"config", "unreadable">>})
           pages == {p.root : p \in docs.pages}
           refused == book.source = "refused" \/ Ambiguous(config, book, docsBook.pages)
<1>2. plan = IF refused THEN [NoPlan EXCEPT !.st = "refused"]
             ELSE [st |-> "planned", affected |-> app.affected, pages |-> pages, gaps |-> gaps,
                   book |-> book, docsBook |-> docsBook, config |-> config]
  BY <1>1 DEF PlanOf
<1>3. WideIsUi(config)
  BY DEF CoverageInv, TreeIsWhole
<1>4. app.gaps \subseteq gaps /\ (~refused => book.source # "refused")
  OBVIOUS
<1>5. app = AppCoverage(book, config, tree, base, touched) /\ book = Manifest(sidecar, tree.router)
  OBVIOUS
<1> HIDE DEF sidecar, book, config, docsBook, app, docs, gaps, pages, refused
<1>6. ~refused
  <2>1. [NoPlan EXCEPT !.st = "refused"].st = "refused"
    BY DEF NoPlan
  <2> QED BY <1>2, <2>1
<1>7. plan.affected = app.affected /\ plan.gaps = gaps /\ plan.book = book /\ plan.config = config
  BY <1>2, <1>6
<1> QED BY <1>3, <1>4, <1>5, <1>6, <1>7

LEMMA DriftIsWhole ==
  ASSUME CoverageInv PROVE DriftZeroIsWhole
<1> SUFFICES ASSUME drift = 0 PROVE DriftZeroIsWhole
  BY DEF DriftZeroIsWhole
<1> DEFINE read == ReadFile(tree.router)
           acked == {g \in Unreadable(read) : g.id \in tree.sidecar.acks}
           found == Fallback(tree.router)
<1>1. DriftExit(tree.sidecar, tree.router) = 0 /\ WellFormed(tree.router)
  BY DEF CoverageInv, DriftIsOfNow, TreeIsWhole
<1>2. {g \in found.unreadable : ~Acknowledged(tree.sidecar, g)} = {}
  BY <1>1 DEF DriftExit
<1>3. UrlsOf(tree.sidecar.routes) = UrlsOf(found.routes)
  BY <1>1 DEF DriftExit
<1>4. /\ found.routes = {Entry(p, NoFile) : p \in {q \in PathsRead(read) : ~Unusable(q)}}
      /\ found.unreadable = Unreadable(read)
  BY DEF Fallback
<1> HIDE DEF found
<1>5. \A g \in Unreadable(read) : g \in acked
  BY <1>2, <1>4 DEF Acknowledged
<1>6. \A p : (p \in PathsRead(read) /\ ~Unusable(p)) <=> p \in UrlsOf(tree.sidecar.routes)
  <2>1. \A p : Entry(p, NoFile).url = p
    BY DEF Entry
  <2>2. UrlsOf(found.routes) = {q \in PathsRead(read) : ~Unusable(q)}
    BY <1>4, <2>1 DEF UrlsOf
  <2> QED BY <1>3, <2>2
<1> HIDE DEF read, acked
<1>7. ASSUME NEW s \in ServedBy(tree.router)
      PROVE  s.path \in UrlsOf(tree.sidecar.routes) \/ Unusable(s.path) \/ NamedIn(s, acked)
  <2>1. ReadAsServed(s, read) \/ NamedIn(s, Unreadable(read))
    BY <1>1, FileIsRead DEF read
  <2>2. ReadAsServed(s, read) => s.path \in PathsRead(read)
    BY DEF ReadAsServed, PathsRead
  <2>3. NamedIn(s, Unreadable(read)) => NamedIn(s, acked)
    BY <1>5 DEF NamedIn
  <2> QED BY <1>6, <2>1, <2>2, <2>3
<1>8. ASSUME NEW u \in UrlsOf(tree.sidecar.routes) PROVE \E t \in read.sites : t.path = u
  BY <1>6 DEF PathsRead
<1> QED BY <1>7, <1>8 DEF DriftZeroIsWhole, read, acked

LEMMA PagesSeeTheirFiles ==
  ASSUME CoverageInv PROVE ImportersAreSeen
<1> SUFFICES ASSUME plan.st = "planned", NEW f \in touched.ui, IsUi(f, plan.config)
             PROVE  /\ plan.gaps # {} \/ Owners(f, plan.book, plan.config, tree.code) \cap DOMAIN plan.affected # {}
                    /\ \A r \in plan.book.routes :
                         /\ r.entry # NoFile
                         /\ f \in LoadedAsRead(r.entry, tree.code.imports, tree.code.files, tree.code.aliases, tree.code.prefers)
                         => ScreenId(r.url) \in DOMAIN plan.affected
  BY DEF ImportersAreSeen, Unseen
<1>1. IsFiniteSet(ToSet(FileOrder))
  <2>1. FileOrder \in Seq(ToSet(FileOrder)) /\ Len(FileOrder) \in Nat /\ DOMAIN FileOrder = 1..Len(FileOrder)
    BY FilesAssumption
  <2>2. IsFiniteSet(1..Len(FileOrder))
    BY <2>1, FS_Interval
  <2>3. FileOrder \in Surjection(1..Len(FileOrder), ToSet(FileOrder))
    BY <2>1 DEF Surjection, ToSet
  <2> QED BY <2>2, <2>3, FS_Surjection
<1>2. IsFiniteSet(DOMAIN tree.code.imports)
  BY <1>1, FS_Subset DEF CoverageInv, TreeIsWhole
<1>3. f \in ToSet(FileOrder)
  BY DEF CoverageInv, TouchedIsListed
<1> DEFINE c == AppCoverage(plan.book, plan.config, tree, base, touched)
<1>4. plan.affected = c.affected /\ c.gaps \subseteq plan.gaps
  BY PlanSays
<1>5. ASSUME NEW r \in plan.book.routes, r.entry # NoFile,
             f \in LoadedAsRead(r.entry, tree.code.imports, tree.code.files, tree.code.aliases, tree.code.prefers)
      PROVE  ScreenId(r.url) \in DOMAIN c.affected
  <2>1. f \in Closure(r.entry, tree.code.imports, tree.code.files, tree.code.aliases)
    BY <1>2, <1>5, LoadedIsClosed
  <2> QED BY <1>3, <1>5, <2>1, CoverageSays
<1>6. c.gaps # {} \/ Owners(f, plan.book, plan.config, tree.code) \cap DOMAIN c.affected # {}
  BY <1>3, CoverageSays
<1> HIDE DEF c
<1> QED BY <1>4, <1>5, <1>6

LEMMA ShellIsEverywhere ==
  ASSUME CoverageInv PROVE ShellReachesEveryScreen
<1> SUFFICES ASSUME plan.st = "planned", touched.ui \cap plan.config.wide # {},
                    plan.book.source = "router" \/ (drift = 0 /\ plan.book.routes = tree.sidecar.routes),
                    NEW s \in ServedBy(tree.router), Unseen(ScreenId(s.path))
             PROVE  \/ NamedIn(s, {g \in Unreadable(ReadFile(tree.router)) : g.id \in tree.sidecar.acks})
                    \/ plan.book.source = "sidecar" /\ Unusable(s.path)
  BY DEF ShellReachesEveryScreen
<1> DEFINE c == AppCoverage(plan.book, plan.config, tree, base, touched)
<1>1. /\ plan.affected = c.affected /\ c.gaps \subseteq plan.gaps
      /\ WideIsUi(plan.config) /\ plan.book.source # "refused"
  BY PlanSays
<1>2. PICK sidecar : plan.book = Manifest(sidecar, tree.router)
  BY PlanSays
<1>3. Reaches(touched, tree, base, plan.config)
  BY <1>1 DEF Reaches, WideIsUi
<1>4. RouteIds(plan.book) \subseteq DOMAIN c.affected /\ BlastGaps(plan.book) \subseteq c.gaps
  BY <1>3, CoverageSays
<1> HIDE DEF c
<1>5. ScreenId(s.path) \notin RouteIds(plan.book) /\ BlastGaps(plan.book) = {}
  BY <1>1, <1>4 DEF Unseen
<1>6. \A route \in plan.book.routes : route.url # s.path
  BY <1>5 DEF RouteIds
<1>7. CASE plan.book.source = "router"
  <2> DEFINE read == ReadFile(tree.router)
  <2>1. /\ plan.book.routes = Fallback(tree.router).routes
        /\ plan.book.unusable = Fallback(tree.router).unusable
        /\ plan.book.unreadable = Fallback(tree.router).unreadable
    BY <1>2, <1>7 DEF Manifest
  <2>2. /\ plan.book.routes = {Entry(p, NoFile) : p \in {q \in PathsRead(read) : ~Unusable(q)}}
        /\ plan.book.unusable = {p \in PathsRead(read) : Unusable(p)}
        /\ plan.book.unreadable = Unreadable(read)
    BY <2>1 DEF Fallback
  <2>3. plan.book.unusable = {} /\ plan.book.unreadable = {}
    BY <1>5 DEF BlastGaps
  <2>4. WellFormed(tree.router)
    BY DEF CoverageInv, TreeIsWhole
  <2>5. ReadAsServed(s, read) \/ NamedIn(s, Unreadable(read))
    BY <2>4, FileIsRead
  <2> HIDE DEF read
  <2>6. s.path \in PathsRead(read)
    BY <2>2, <2>3, <2>5 DEF NamedIn, ReadAsServed, PathsRead
  <2>7. Entry(s.path, NoFile) \in plan.book.routes
    BY <2>2, <2>3, <2>6
  <2>8. Entry(s.path, NoFile).url = s.path
    BY DEF Entry
  <2> QED BY <1>6, <2>7, <2>8
<1>8. CASE plan.book.source # "router"
  <2>1. plan.book.source = "sidecar"
    BY <1>1, <1>2, <1>8 DEF Manifest, Fallback
  <2>2. s.path \notin UrlsOf(tree.sidecar.routes)
    BY <1>6, <1>8 DEF UrlsOf
  <2>3. DriftZeroIsWhole /\ drift = 0
    BY <1>8, DriftIsWhole
  <2> QED BY <2>1, <2>2, <2>3 DEF DriftZeroIsWhole
<1> QED BY <1>7, <1>8

LEMMA LinksAreSeen ==
  ASSUME CoverageInv PROVE NothingUnlinked
<1> SUFFICES ASSUME plan.st = "planned", "app" \in StillListed, NEW f \in touched.other,
                    NEW side \in {tree.side, DeclaredOn(base.side)}, f.kind = "source",
                    f.dir \in LinkedFrom({"app"}, side, {d \in Listed(side) \cap StillListed : KeepsItsName(d)}) \ {"app"}
             PROVE  <<"package", f>> \in plan.gaps
  BY DEF NothingUnlinked, Saw
<1> DEFINE still == {d \in Listed(side) \cap StillListed : KeepsItsName(d)}
<1>1. still \subseteq StillListed
  OBVIOUS
<1>2. ASSUME NEW d \in Folders, NEW e \in still, LinkedOn(side, d, e)
      PROVE  DependsOn(d, e, tree.side, base.side)
  <2>1. tree.side.manifests[e].there
    BY DEF StillListed, WorkspaceDirs
  <2>2. KeepsItsName(e)
    OBVIOUS
  <2>3. CASE side = tree.side
    BY <1>2, <2>1, <2>2, <2>3 DEF LinkedOn, DependsOn, NameOf, DepsKnown, DepsOf, DepDirsOf, KeepsItsName
  <2>4. CASE side = DeclaredOn(base.side)
    <3>1. side.manifests = base.side.manifests /\ side.mentions = tree.side.mentions /\ side.aliased = tree.side.aliased
      BY <2>4 DEF DeclaredOn
    <3>2. base.side.manifests[e].there
      BY <3>1 DEF Listed, WorkspaceDirs
    <3>3. base.side.manifests[e].name = tree.side.manifests[e].name
      BY <2>2, <3>2 DEF KeepsItsName
    <3> HIDE DEF still
    <3> QED BY <1>2, <2>1, <3>1, <3>2, <3>3 DEF LinkedOn, DependsOn, NameOf, DepsKnown, DepsOf, DepDirsOf
  <2> QED BY <2>3, <2>4
<1>3. f.dir \in LinkedFrom({"app"}, side, still) /\ f.dir # "app"
  OBVIOUS
<1> HIDE DEF still
<1>4. f.dir \in Reached({"app"}, StillListed, tree.side, base.side) /\ f.dir \in {"app"} \cup still
  BY <1>1, <1>2, <1>3, LinkedIsReached
<1>5. f.dir \in StillListed
  BY <1>1, <1>3, <1>4
<1>6. AppPackage(StillListed) = "app"
  BY DEF AppPackage
<1>7. f \in WorkspaceGaps(touched.other, tree.side, base.side)
  BY <1>3, <1>4, <1>5, <1>6 DEF WorkspaceGaps, StillListed, Owned
<1>8. <<"package", f>> \in AppCoverage(plan.book, plan.config, tree, base, touched).gaps
  BY <1>7, CoverageSays
<1> QED BY <1>8, PlanSays

-----------------------------------------------------------------------------
\* Whatever is edited, listed, drafted, merged or checked, what the last plan
\* and the last drift check said is what they would say of the tree now, and
\* the router in it is one React Router takes.
THEOREM CoverageInvariance == Spec => []CoverageInv
<1>1. Init => CoverageInv
  BY CoverageInit
<1>2. CoverageInv /\ [Next]_vars => CoverageInv'
  BY CoverageNext
<1> QED BY <1>1, <1>2, PTL DEF Spec

\* Of every router module an author can write, of any size and shape, the
\* reader takes each route the app serves or names where it stopped, and takes
\* no path the app does not serve (router-parse.ts:1368, 729).
THEOREM CoverageRouterIsRead == Spec => []RouterIsRead
<1>1. CoverageInv => RouterIsRead
  <2> SUFFICES ASSUME CoverageInv PROVE RouterIsRead
    OBVIOUS
  <2>1. WellFormed(tree.router)
    BY DEF CoverageInv, TreeIsWhole
  <2>2. ReadOrNamed
    BY <2>1, FileIsRead DEF ReadOrNamed
  <2>3. NothingInvented
    BY <2>1, FileIsRead DEF NothingInvented
  <2> QED BY <2>2, <2>3 DEF RouterIsRead
<1> QED BY <1>1, CoverageInvariance, PTL

\* Whenever drift has passed the list, every route served is listed or named
\* by an entry its author acknowledged (drift/routes.ts:93).
THEOREM CoverageDriftZeroIsWhole == Spec => []DriftZeroIsWhole
<1>1. CoverageInv => DriftZeroIsWhole
  BY DriftIsWhole
<1> QED BY <1>1, CoverageInvariance, PTL

\* For every import graph, alias table and choice of the bundler: a screen is
\* checked when a file is touched that its page loads through imports usabl
\* reads, and no touched file is without a screen that is checked for it and
\* without a gap (import-graph.ts:37, 135; planner.ts:331).
THEOREM CoverageImportersAreSeen == Spec => []ImportersAreSeen
<1>1. CoverageInv => ImportersAreSeen
  BY PagesSeeTheirFiles
<1> QED BY <1>1, CoverageInvariance, PTL

\* A touched shell file reaches every screen the app serves, whichever list of
\* routes is in force (planner.ts:199).
THEOREM CoverageShellReachesEveryScreen == Spec => []ShellReachesEveryScreen
<1>1. CoverageInv => ShellReachesEveryScreen
  BY ShellIsEverywhere
<1> QED BY <1>1, CoverageInvariance, PTL

\* For every set of workspace packages and every link between them: a touched
\* package the app is linked to is a gap (workspace-packages.ts:347).
THEOREM CoverageNothingUnlinked == Spec => []NothingUnlinked
<1>1. CoverageInv => NothingUnlinked
  BY LinksAreSeen
<1> QED BY <1>1, CoverageInvariance, PTL
=============================================================================
