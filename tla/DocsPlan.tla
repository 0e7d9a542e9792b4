------------------------------ MODULE DocsPlan ------------------------------
(***************************************************************************)
(* The docs surface: the files a page includes as usabl reads them         *)
(* (src/coverage/asciidoc-include-graph.ts), the manifest `usabl init      *)
(* --docs` drafts from them (src/init/docs), and the pages a change        *)
(* reaches (src/coverage/docs-planner.ts), next to what an AsciiDoc        *)
(* processor includes.  A doc is a sequence of lines: an attribute set to  *)
(* a file, an include of a file or of what an attribute names, or the      *)
(* delimiter of a comment or verbatim block, spelled with its length.      *)
(***************************************************************************)
EXTENDS Naturals, Sequences, FiniteSets, SequencesExt

Set(name, file)  == [op |-> "set", name |-> name, arg |-> file]
Include(file)    == [op |-> "include", name |-> "", arg |-> file]
IncludeOf(name)  == [op |-> "include", name |-> name, arg |-> ""]
Delimiter(char, length) == [op |-> char, name |-> "", arg |-> length]

IsDelimiter(line) == line.op \in {"comment", "verbatim"}

(***************************************************************************)
(* parseAdoc: the lines outside every block.  A verbatim block is closed   *)
(* by the delimiter it was opened with, a comment by any comment           *)
(* delimiter.                                                              *)
(***************************************************************************)
Open == Delimiter("open", 0)
\* Mutant: any delimiter of its character closes a verbatim block.
ClosesOnAny(line, open) == line.op = open.op

Closes(line, open) == IF open.op = "comment" THEN line.op = "comment" ELSE line = open
Significant(lines) ==
  FoldLeft(LAMBDA s, line :
             IF s.open # Open THEN (IF Closes(line, s.open) THEN [s EXCEPT !.open = Open] ELSE s)
             ELSE IF IsDelimiter(line) THEN [s EXCEPT !.open = line]
             ELSE [s EXCEPT !.lines = Append(@, line)],
           [open |-> Open, lines |-> <<>>], lines).lines

(***************************************************************************)
(* buildAdocIncludeGraph: the attributes known so far, the last value set  *)
(* winning, the files read, and the includes met, each done or deferred.   *)
(***************************************************************************)
Attrs(lines) == SelectSeq(lines, LAMBDA l : l.op = "set")
With(attrs, lines) ==
  FoldLeft(LAMBDA a, l : [n \in DOMAIN a \cup {l.name} |-> IF n = l.name THEN l.arg ELSE a[n]], attrs, Attrs(lines))

\* readAndIngest
Ingest(g, file, docs) ==
  IF file \notin DOMAIN docs \/ file \in g.read THEN g
  ELSE LET lines == Significant(docs[file])
           met == SelectSeq(lines, LAMBDA l : l.op = "include")
       IN [g EXCEPT !.read = @ \cup {file},
                    !.attrs = With(@, lines),
                    !.includes = @ \o [i \in DOMAIN met |-> [line |-> met[i], done |-> FALSE]]]

Target(line, attrs) ==
  IF line.name = "" THEN line.arg ELSE IF line.name \in DOMAIN attrs THEN attrs[line.name] ELSE "unknown"

\* One pass over the includes, which grow while it runs, until a pass does
\* nothing.  What stays deferred is not read.
Turn(s, docs) ==
  IF s.i > Len(s.g.includes) THEN (IF s.progressed THEN [s EXCEPT !.i = 1, !.progressed = FALSE] ELSE s)
  ELSE LET target == Target(s.g.includes[s.i].line, s.g.attrs)
       IN IF s.g.includes[s.i].done \/ target = "unknown" THEN [s EXCEPT !.i = @ + 1]
          ELSE [g |-> Ingest([s.g EXCEPT !.includes[s.i].done = TRUE], target, docs), i |-> s.i + 1, progressed |-> TRUE]

\* Every pass but the last does one of the includes there are.
Turns(docs) ==
  LET includes == Cardinality(UNION {{<<f, i>> : i \in {j \in DOMAIN docs[f] : docs[f][j].op = "include"}} : f \in DOMAIN docs})
  IN (includes + 1) * (includes + 1)
Settle(g, docs) ==
  LET after[n \in 0..Turns(docs)] ==
        IF n = 0 THEN [g |-> g, i |-> 1, progressed |-> FALSE] ELSE Turn(after[n - 1], docs)
  IN after[Turns(docs)].g

IncludeGraph(root, docs) ==
  Settle(Ingest([attrs |-> <<>>, read |-> {}, includes |-> <<>>], root, docs), docs)
Sources(root, docs) == {root} \cup IncludeGraph(root, docs).read

(***************************************************************************)
(* inferAsciidocModular, inferAsciibinder: a page for each root that is    *)
(* there, ids made unique, and no draft when an id cannot be used.         *)
(* titles: the roots in reading order, each with the id derived for it.    *)
(***************************************************************************)
UnusableId == "odd"
Ordinals == << "2", "3", "4" >>
UniqueId(used, id) ==
  IF <<id>> \notin used THEN <<id>>
  ELSE <<id, Ordinals[CHOOSE n \in DOMAIN Ordinals : /\ <<id, Ordinals[n]>> \notin used
                                                     /\ \A m \in 1 .. n - 1 : <<id, Ordinals[m]>> \in used]>>
PageIds(pages) == {p.id : p \in pages}
DraftPages(titles, docs) ==
  FoldLeft(LAMBDA pages, t :
             IF t.root \notin DOMAIN docs THEN pages
             ELSE pages \cup {[id |-> UniqueId(PageIds(pages), t.id), root |-> t.root,
                               sources |-> Sources(t.root, docs)]},
           {}, titles)

NoBook == [there |-> FALSE, pages |-> {}, shared |-> {}]
DocsDraft(titles, shared, docs) ==
  IF (\E i \in DOMAIN titles : titles[i].root \in DOMAIN docs /\ titles[i].id = UnusableId) \/ DraftPages(titles, docs) = {}
  THEN NoBook
  ELSE [there |-> TRUE, pages |-> DraftPages(titles, docs), shared |-> shared]

\* computeDocsCoverage: the pages a change queues, and the files no page has.
\* adoc: the names that end in .adoc.
DocConcern(file, book, adoc) == file \in adoc \/ file \in book.shared
DocsCoverage(book, touched, adoc) ==
  LET concern == {f \in touched : DocConcern(f, book, adoc)}
      wide == concern \cap book.shared
      listing(f) == {p \in book.pages : f \in p.sources}
  IN IF ~book.there THEN [pages |-> {}, gaps |-> {}]
     ELSE [pages |-> IF wide # {} THEN book.pages ELSE UNION {listing(f) : f \in concern},
           gaps |-> {f \in concern \ wide : listing(f) = {}}]

(* ----------------- what the processor includes (external) -------------- *)

\* What a page may have set when it reaches an include.
Settings(docs) ==
  LET sets == {l \in UNION {ToSet(docs[f]) : f \in DOMAIN docs} : l.op = "set"}
  IN UNION {[names -> {l.arg : l \in sets}] : names \in SUBSET {l.name : l \in sets}}

\* Line by line, each include with the attributes set so far; a block is
\* closed by the delimiter it was opened with; a file in progress is left out.
Render(docs) ==
  LET from[file \in DOMAIN docs, attrs \in Settings(docs), stack \in SUBSET DOMAIN docs] ==
        FoldLeft(LAMBDA s, line :
                   IF s.open # Open THEN (IF line = s.open THEN [s EXCEPT !.open = Open] ELSE s)
                   ELSE IF IsDelimiter(line) THEN [s EXCEPT !.open = line]
                   ELSE IF line.op = "set" THEN [s EXCEPT !.attrs = With(@, <<line>>)]
                   ELSE LET target == Target(line, s.attrs)
                            inner == from[target, s.attrs, stack \cup {file}]
                        IN IF target \notin DOMAIN docs \/ target \in stack \cup {file} THEN s
                           ELSE [s EXCEPT !.attrs = inner.attrs, !.files = @ \cup inner.files],
                 [open |-> Open, attrs |-> attrs, files |-> {file}], docs[file])
  IN from

Composes(root, docs) == IF root \in DOMAIN docs THEN Render(docs)[root, <<>>, {}].files ELSE {}

\* The values a page's files give an attribute.
Values(name, files, docs) ==
  UNION {{line.arg : line \in {l \in ToSet(docs[f]) : l.op = "set" /\ l.name = name}} : f \in files}
=============================================================================
