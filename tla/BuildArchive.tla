---------------------------- MODULE BuildArchive ----------------------------
(***************************************************************************)
(* How the judge takes a build it did not make: the artifact fetcher       *)
(* (src/install/artifact-fetch.ts), the tar reader (src/judge/             *)
(* extract-build.ts) and the static server (src/judge/serve-build.ts).     *)
(*                                                                         *)
(* An artifact is a zip: [name, id, expired, over, entries], an entry      *)
(* [name, regular, intact, data].  The build inside is a tar, or bytes   *)
(* that stop early: [complete, members], a member [path, kind, data].      *)
(* Bytes are values, so a digest is the value itself.                      *)
(***************************************************************************)
EXTENDS Naturals, Sequences, FiniteSets, SequencesExt

CONSTANTS
    Refused,     \* what a step that fails closed leaves
    NotFound,    \* what the server answers for what it does not have
    MaxMembers   \* bound: members in a build archive

IndexPage == "index.html"

-----------------------------------------------------------------------------
(* ---------------------------- the fetcher ------------------------------ *)

\* findArtifact: one replaced in the run keeps its name and gets a new id.
Unexpired(artifacts, name) == {a \in artifacts : a.name = name /\ ~a.expired}
Newest(found) == CHOOSE a \in found : \A b \in found : b.id <= a.id

\* readEntries and extract: the zip must hold the one expected file, once, as a
\* regular file whose size and checksum are what it declares.
ReadEntries(artifact, member) ==
  LET e == artifact.entries[1]
  IN IF artifact.over \/ Len(artifact.entries) # 1 THEN Refused
     ELSE IF e.name # member \/ ~e.regular \/ ~e.intact THEN Refused
     ELSE e.data

FetchArtifact(artifacts, name, member) ==
  LET found == Unexpired(artifacts, name)
  IN IF found = {} THEN Refused ELSE ReadEntries(Newest(found), member)

\* verifyDownload: a digest the producing job never set matches nothing.
VerifyDownload(bytes, digest) == IF bytes = digest THEN bytes ELSE Refused

-----------------------------------------------------------------------------
(* --------------------------- the tar reader ---------------------------- *)

FilesOf(tar) == {i \in DOMAIN tar.members : tar.members[i].kind = "file"}

\* listMembers: every header is checked before anything is written.
MembersAllowed(tar) ==
  /\ tar.complete
  /\ Len(tar.members) <= MaxMembers
  /\ \A i \in DOMAIN tar.members :
       LET m == tar.members[i]
       IN m.kind \in {"file", "directory"} /\ ".." \notin ToSet(m.path) /\ (m.kind = "file" => m.path # <<>>)

\* copyData opens with "wx" and mkdir meets a file, so two entries that want
\* one name refuse the archive part way.
NamesClash(tar) ==
  \E i \in FilesOf(tar) : \E j \in DOMAIN tar.members :
    /\ i # j
    /\ \/ tar.members[i].path = tar.members[j].path
       \/ IsStrictPrefix(tar.members[i].path, tar.members[j].path)

\* extractBuildArchive: the tree it leaves, as what each file's path holds.
ExtractBuild(tar) ==
  IF tar = Refused THEN Refused
  ELSE IF ~MembersAllowed(tar) \/ NamesClash(tar) THEN Refused
  ELSE [p \in {tar.members[i].path : i \in FilesOf(tar)} |->
          tar.members[CHOOSE i \in FilesOf(tar) : tar.members[i].path = p].data]

-----------------------------------------------------------------------------
(* ----------------------------- the server ------------------------------ *)

\* resolveContained: a directory serves its own index page, or nothing.
Contained(tree, path) ==
  IF path \in DOMAIN tree THEN tree[path]
  ELSE IF Append(path, IndexPage) \in DOMAIN tree THEN tree[Append(path, IndexPage)]
  ELSE NotFound

\* resolveRequest: a route has no file and gets the root's index page; a name
\* with an extension is a file, and a missing one stays missing.
ResolveRequest(tree, request) ==
  LET direct == Contained(tree, request.path)
  IN IF direct # NotFound \/ request.extension THEN direct ELSE Contained(tree, <<>>)
=============================================================================
