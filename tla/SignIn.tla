------------------------------- MODULE SignIn -------------------------------
(***************************************************************************)
(* The session a scan signs in with: `usabl session`, which lets a person  *)
(* sign in and saves what the browser holds (src/session/index.ts); the    *)
(* choice a run makes between that file and the one USABL_STORAGE_STATE    *)
(* names (src/deps/session.ts); and what doctor says of either             *)
(* (src/doctor/index.ts).  People edit the ignore rules and the files      *)
(* beside it; on a runner the code under review does.                      *)
(***************************************************************************)
EXTENDS FiniteSets, Naturals

CONSTANTS
  SignIns,   \* processes of `usabl session`
  Captures,  \* what the browser may hold when the person confirms
  Placed,    \* files somebody else may leave at the saved path
  Named,     \* files USABL_STORAGE_STATE may name
  MaxEdits   \* bound: edits beside usabl, and the passing of time

Contents == [cookies: SUBSET {"live", "past", "undated"}, others: SUBSET {"site", "keys"}]
Nothing == [cookies |-> {}, others |-> {}]
GitStates == {"ignored", "tracked", "not-ignored", "unknown"}

\* "other" parses and is no storage state; "junk" is not JSON.
FileKinds == {"absent", "unreadable", "junk", "other", "state"}
Files ==
  [kind: FileKinds, state: Contents, private: BOOLEAN,
   by: {"nobody", "usabl", "hand", "head"},
   exposed: BOOLEAN]   \* for the properties: git could take it as it was saved
NoFile == [kind |-> "absent", state |-> Nothing, private |-> TRUE, by |-> "nobody", exposed |-> FALSE]
NamedFiles == [kind: FileKinds \cup {"unset"}, state: Contents, private: BOOLEAN, git: GitStates \cup {"outside"}]

ASSUME SignInAssumption ==
  /\ Captures \subseteq Contents /\ Named \subseteq NamedFiles
  /\ Placed \subseteq {f \in Files : f.by = "nobody" /\ ~f.exposed}
  /\ MaxEdits \in Nat

VARIABLES
  place,    \* a person's desk, or a runner in CI, where the head's code runs
  saved,    \* SESSION_STATE_PATH
  named,    \* what USABL_STORAGE_STATE names
  git,      \* what git says of SESSION_STATE_PATH
  signing,  \* the processes of `usabl session`
  edits,    \* edits still to come
  use       \* the run: what it chose, and the file as it chose it

signVars == <<place, saved, named, git, signing, edits, use>>

Idle == [pc |-> "idle", state |-> Nothing, edited |-> FALSE]
NoUse == [pc |-> "none", from |-> "none", trusted |-> FALSE, file |-> NoFile]

SignInit ==
  /\ place \in {"desk", "runner"} /\ saved = NoFile /\ named \in Named /\ git \in GitStates
  /\ signing = [p \in SignIns |-> Idle] /\ edits = MaxEdits /\ use = NoUse

\* sessionIgnoreProblem
IgnoreProblem(state) == state \notin {"ignored", "outside"}

\* isStorageStateExpired: nothing is left in it that could sign in.
Spent(s) == s.cookies # {} /\ s.cookies \subseteq {"past"} /\ s.others = {}

(* --------------------------- usabl session ----------------------------- *)

At(p, pc) == signing[p].pc = pc
To(p, pc) == signing' = [signing EXCEPT ![p].pc = pc]
Quits(p) == signing' = [signing EXCEPT ![p] = Idle]

\* The first look at the ignore rules, before the browser opens.
Start(p) ==
  /\ At(p, "idle") /\ place = "desk" /\ ~IgnoreProblem(git)
  /\ To(p, "browser")
  /\ UNCHANGED <<saved, git, edits>>

\* Enter, or the tab closed: the state is read and the browser closed.  A
\* state with no cookie and no site storage is no session.
Confirm(p) ==
  /\ At(p, "browser")
  /\ \E s \in Captures :
       IF s.cookies = {} /\ "site" \notin s.others THEN Quits(p)
       ELSE signing' = [signing EXCEPT ![p] = [pc |-> "look", state |-> s, edited |-> FALSE]]
  /\ UNCHANGED <<saved, git, edits>>

\* Mutant of Look: the rules are not read again.
LookOnce(p) ==
  /\ At(p, "look") /\ To(p, "write")
  /\ UNCHANGED <<saved, git, edits>>

\* The second look, after the person signed in.
Look(p) ==
  /\ At(p, "look")
  /\ IF IgnoreProblem(git) THEN Quits(p)
     ELSE signing' = [signing EXCEPT ![p].pc = "write", ![p].edited = FALSE]
  /\ UNCHANGED <<saved, git, edits>>

\* writeSessionFile, first half: a file of its own name beside the target.
WriteTemporary(p) ==
  /\ At(p, "write") /\ To(p, "rename")
  /\ UNCHANGED <<saved, git, edits>>

\* Second half: the rename brings the mode and the whole content with it.
Rename(p) ==
  /\ At(p, "rename")
  /\ saved' = [kind |-> "state", state |-> signing[p].state, private |-> TRUE, by |-> "usabl",
               exposed |-> IgnoreProblem(git) /\ ~signing[p].edited]
  /\ Quits(p)
  /\ UNCHANGED <<git, edits>>

\* The browser is gone before it was read, the state cannot be read, the write
\* fails, or the process is killed.
GivesUp(p) ==
  /\ ~At(p, "idle") /\ Quits(p)
  /\ UNCHANGED <<saved, git, edits>>

SessionStep ==
  /\ \E p \in SignIns : Start(p) \/ Confirm(p) \/ Look(p) \/ WriteTemporary(p) \/ Rename(p) \/ GivesUp(p)
  /\ UNCHANGED <<place, named, use>>

(* --------------------------- beside usabl ------------------------------ *)

Edits == edits > 0 /\ edits' = edits - 1

\* .gitignore, `git add --force`, `git rm --cached`
EditRules ==
  /\ Edits /\ git' \in GitStates \ {"unknown", git}
  /\ signing' = [p \in SignIns |-> [signing[p] EXCEPT !.edited = signing[p].pc \notin {"idle", "browser"}]]
  /\ UNCHANGED <<place, saved, named, use>>

PutFile ==
  /\ Edits /\ \E f \in Placed :
       saved' = [f EXCEPT !.by = IF place = "desk" THEN "hand" ELSE "head"]
  /\ UNCHANGED <<place, named, git, signing, use>>

Aged(s) == [s EXCEPT !.cookies = {IF c = "live" THEN "past" ELSE c : c \in @}]

TimePasses ==
  /\ Edits
  /\ saved' = [saved EXCEPT !.state = Aged(@)] /\ named' = [named EXCEPT !.state = Aged(@)]
  /\ signing' = [p \in SignIns |-> [signing[p] EXCEPT !.state = Aged(@)]]
  /\ UNCHANGED <<place, git, use>>

(* ------------------------------- a run --------------------------------- *)

\* savedSessionBlock: every runner sets CI.
SavedIsBlocked(trusted) == trusted \/ place = "runner"

\* resolveStorageStatePath and resolveSavedSession: what a run signs in with.
Resolved(trusted) ==
  IF named.kind # "unset"
  THEN IF named.kind \in {"absent", "unreadable", "junk"} \/ Spent(named.state) THEN "stop" ELSE "named"
  ELSE IF SavedIsBlocked(trusted) \/ saved.kind = "absent" THEN "none"
  ELSE IF saved.kind \in {"unreadable", "junk"} \/ IgnoreProblem(git) \/ Spent(saved.state) THEN "stop"
  ELSE "saved"

\* buildDeps, before a browser is there; a stop leaves no verdict.
Resolve ==
  /\ use.pc = "none"
  /\ \E trusted \in BOOLEAN :
       use' = [pc |-> IF Resolved(trusted) = "stop" THEN "stopped" ELSE "resolved",
               from |-> Resolved(trusted), trusted |-> trusted, file |-> saved]
  /\ UNCHANGED <<place, saved, named, git, signing, edits>>

SignNext == SessionStep \/ EditRules \/ PutFile \/ TimePasses \/ Resolve

(* ------------------------------- doctor -------------------------------- *)

\* Mutant of SavedDrifted: the ignore rules are not asked.
SavedDriftedUnasked == saved.kind = "junk" \/ Spent(saved.state) \/ ~saved.private

\* judgeSessionFile
SavedDrifted == saved.kind = "junk" \/ Spent(saved.state) \/ IgnoreProblem(git) \/ ~saved.private
NamedDrifted ==
  \/ named.kind \in {"absent", "junk"} \/ Spent(named.state)
  \/ named.git \in {"tracked", "not-ignored"} \/ ~named.private

\* collectSession
Doctor ==
  IF named.kind # "unset"
  THEN IF named.kind = "unreadable" THEN "unknown" ELSE IF NamedDrifted THEN "drifted" ELSE "wired"
  ELSE IF saved.kind = "absent" THEN "missing"
  ELSE IF saved.kind = "unreadable" THEN "unknown"
  ELSE IF SavedDrifted THEN "drifted" ELSE "wired"

(* ----------------------------- properties ------------------------------ *)

\* The file usabl leaves is the whole state of one sign-in, for its owner only,
\* and git could not take it unless somebody changed the rules between the
\* second look and the rename.  A run signs in with a saved file only at a
\* desk: never with one that the code under review could have left.
SessionIsVouched ==
  /\ saved.by = "usabl" => saved.kind = "state" /\ saved.private /\ ~saved.exposed /\ saved.state # Nothing
  /\ use.from = "saved" => use.file.by \in {"usabl", "hand"} /\ ~use.trusted

\* Doctor and the next run agree on the same file at a desk: a session called
\* wired is signed in with, one called missing is not asked for, and one called
\* drifted stops the run, unless doctor only warns of who else can get at it.
\* (doctor/index.ts: "doctor must never call a session wired that the next run
\* will stop on".)
CommittableOrShared ==
  IF named.kind # "unset" THEN ~named.private \/ named.git \in {"tracked", "not-ignored"} ELSE ~saved.private

DoctorAgrees ==
  place = "desk" =>
    /\ Doctor = "wired" => Resolved(FALSE) \in {"named", "saved"}
    /\ Doctor = "missing" => Resolved(FALSE) = "none"
    /\ Doctor \in {"drifted", "unknown"} => Resolved(FALSE) = "stop" \/ CommittableOrShared
=============================================================================
