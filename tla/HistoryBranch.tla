---------------------------- MODULE HistoryBranch ----------------------------
(***************************************************************************)
(* How records of main scans reach the usabl/history branch: the append    *)
(* step of the workflow in install/history-ci.ts, the `usabl history       *)
(* append` it runs (history/append.ts) and the git plumbing under it       *)
(* (history/git.ts).                                                       *)
(*                                                                         *)
(* One job is one workflow run; it holds one record, the one its scan of   *)
(* main wrote.  A job has its own clone, so its remote-tracking ref and    *)
(* its local branch are its own; only the remote branch is shared.  A      *)
(* commit is the chain of entries it holds: every commit adds one entry to *)
(* its parent's, so "is an ancestor of" is "is a prefix of".  An entry     *)
(* names the job, its run and the attempt that made it, because a commit   *)
(* made again is another commit even when it adds the same record.         *)
(***************************************************************************)
EXTENDS Naturals, Sequences, FiniteSets, SequencesExt

CONSTANTS
    Jobs,         \* workflow runs, one record each
    MaxAttempts,  \* turns of the push loop (`for attempt in 1 2 3`)
    MaxRuns       \* bound: times one append job is started (1 + re-runs)

ASSUME HistoryAssumption ==
    /\ MaxAttempts \in Nat \ {0}
    /\ MaxRuns \in Nat \ {0}
    /\ "hand" \notin Jobs     \* a person is no workflow run

VARIABLES
    world,     \* what can happen in this repository, chosen once:
               \*   group : the workflow's concurrency group holds for all the
               \*           writers (a person with a clone is not in it)
               \*   faults: the network may fail and a runner may be lost
               \*   hand  : a person may push a line usabl cannot read
    remote,    \* refs/heads/usabl/history on the server; <<>> is no branch
    pc,        \* where each job's append step is
    run,       \* how many times each job was started
    attempt,   \* the turn of its push loop
    tracking,  \* its refs/remotes/origin/usabl/history; <<>> is no ref
    local      \* its refs/heads/usabl/history

vars == <<world, remote, pc, run, attempt, tracking, local>>

\* A line no parser accepts, pushed by hand.
Unreadable == [job |-> "hand", run |-> 0, attempt |-> 0]

Entry(j) == [job |-> j, run |-> run[j], attempt |-> attempt[j]]

\* parseHistoryFile refuses a whole history for one bad line.
Readable(chain) == \A i \in 1..Len(chain) : chain[i] # Unreadable

Holds(chain, j) == \E i \in 1..Len(chain) : chain[i].job = j

Goto(j, label) == pc' = [pc EXCEPT ![j] = label]

\* The step ends with this outcome and the runner's clone is gone.
Leave(j, outcome) ==
    /\ Goto(j, outcome)
    /\ tracking' = [tracking EXCEPT ![j] = <<>>]
    /\ local' = [local EXCEPT ![j] = <<>>]

Init ==
    /\ world \in [group : BOOLEAN, faults : BOOLEAN, hand : BOOLEAN]
    /\ remote = <<>>
    /\ pc = [j \in Jobs |-> "queued"]
    /\ run = [j \in Jobs |-> 0]
    /\ attempt = [j \in Jobs |-> 0]
    /\ tracking = [j \in Jobs |-> <<>>]
    /\ local = [j \in Jobs |-> <<>>]

-----------------------------------------------------------------------------
InProgress(j) == pc[j] \in {"fetch", "append", "push"}

\* The group starts a run when no other is in progress.
MayStart(j) ==
    /\ pc[j] = "queued"
    /\ world.group => \A k \in Jobs : ~InProgress(k)

\* actions/checkout with fetch-depth 0: a fresh clone with every remote branch.
Checkout(j) ==
    /\ MayStart(j)
    /\ run[j] < MaxRuns
    /\ Goto(j, "fetch")
    /\ run' = [run EXCEPT ![j] = @ + 1]
    /\ attempt' = [attempt EXCEPT ![j] = 1]
    /\ tracking' = [tracking EXCEPT ![j] = remote]
    /\ local' = [local EXCEPT ![j] = <<>>]
    /\ UNCHANGED <<world, remote>>

\* Mutant: only the first turn of the loop fetches.
FetchOnce(j) ==
    /\ pc[j] = "fetch"
    /\ remote # <<>>
    /\ tracking' = [tracking EXCEPT ![j] = IF attempt[j] = 1 THEN remote ELSE @]
    /\ Goto(j, "append")
    /\ UNCHANGED <<world, remote, run, attempt, local>>

FetchOk(j) ==
    /\ pc[j] = "fetch"
    /\ remote # <<>>
    /\ tracking' = [tracking EXCEPT ![j] = remote]
    /\ Goto(j, "append")
    /\ UNCHANGED <<world, remote, run, attempt, local>>

\* `git fetch ... || echo`: no branch yet, or no network, and the job goes on.
FetchFails(j) ==
    /\ pc[j] = "fetch"
    /\ remote = <<>> \/ world.faults
    /\ Goto(j, "append")
    /\ UNCHANGED <<world, remote, run, attempt, tracking, local>>

\* appendRecord: a commit on top of the fetched branch, and the local branch
\* moved to it.
AppendRecord(j) ==
    /\ pc[j] = "append"
    /\ Readable(tracking[j])
    /\ local' = [local EXCEPT ![j] = Append(tracking[j], Entry(j))]
    /\ Goto(j, "push")
    /\ UNCHANGED <<world, remote, run, attempt, tracking>>

\* A history that cannot be read is refused with exit 4, and the shell of the
\* step stops at the first command that fails.
AppendRefused(j) ==
    /\ pc[j] = "append"
    /\ ~Readable(tracking[j])
    /\ Leave(j, "failed")
    /\ UNCHANGED <<world, remote, run, attempt>>

\* Mutant: the push is forced.
ForcePush(j) == Len(local[j]) > 0

\* The server takes a push without force only when it is a fast-forward.
FastForward(j) == IsPrefix(remote, local[j])

PushAccepted(j) ==
    /\ pc[j] = "push"
    /\ FastForward(j)
    /\ remote' = local[j]
    /\ Leave(j, "done")
    /\ UNCHANGED <<world, run, attempt>>

\* A refused push: the next turn of the loop, or exit 1 after the last.
NextTurn(j) ==
    IF attempt[j] < MaxAttempts
    THEN /\ Goto(j, "fetch")
         /\ attempt' = [attempt EXCEPT ![j] = @ + 1]
         /\ UNCHANGED <<tracking, local>>
    ELSE /\ Leave(j, "failed")
         /\ UNCHANGED attempt

PushRefused(j) ==
    /\ pc[j] = "push"
    /\ ~FastForward(j) \/ world.faults
    /\ NextTurn(j)
    /\ UNCHANGED <<world, remote, run>>

\* The server moved the branch and the answer was lost: git exits non-zero,
\* and the loop cannot tell this from a refusal.
PushAnswerLost(j) ==
    /\ world.faults
    /\ pc[j] = "push"
    /\ FastForward(j)
    /\ remote' = local[j]
    /\ NextTurn(j)
    /\ UNCHANGED <<world, run>>

\* The runner is lost or the job is cancelled between two commands.
RunnerLost(j) ==
    /\ world.faults
    /\ pc[j] \in {"fetch", "append", "push"}
    /\ Leave(j, "failed")
    /\ UNCHANGED <<world, remote, run, attempt>>

\* A person re-runs the failed job; the record is still the uploaded one.
Rerun(j) ==
    /\ pc[j] = "failed"
    /\ run[j] < MaxRuns
    /\ Goto(j, "queued")
    /\ UNCHANGED <<world, remote, run, attempt, tracking, local>>

\* A person commits a line usabl refuses on top of the branch.
PushBadLine ==
    /\ world.hand
    /\ \A i \in 1..Len(remote) : remote[i] # Unreadable
    /\ remote' = Append(remote, Unreadable)
    /\ UNCHANGED <<world, pc, run, attempt, tracking, local>>

Step(j) ==
    \/ Checkout(j) \/ FetchOk(j) \/ FetchFails(j)
    \/ AppendRecord(j) \/ AppendRefused(j)
    \/ PushAccepted(j) \/ PushRefused(j) \/ PushAnswerLost(j)

Next ==
    \/ \E j \in Jobs : Step(j) \/ RunnerLost(j) \/ Rerun(j)
    \/ PushBadLine

Spec == Init /\ [][Next]_vars

\* A runner that was given a job goes on with it; people need not act.
FairSpec == Spec /\ \A j \in Jobs : WF_vars(Step(j))

-----------------------------------------------------------------------------
\* The branch keeps the promise of RecordLog: one record at its end per step,
\* never rewritten, and a job that exits 0 has its record on it for good: jobs
\* that race, fetch stale refs or are retried cannot lose it (history-ci.ts
\* says pushes never force, so a record is never lost).
Log == INSTANCE RecordLog
       WITH log <- [i \in 1..Len(remote) |-> remote[i].job],
            acked <- {j \in Jobs : pc[j] = "done"},
            Bad <- Unreadable.job

LogKept == Log!Spec

\* Without faults, as many jobs as the loop has turns can race and none of them
\* gives up: a job loses a turn only to another job's success.
EveryRacerSucceeds ==
    (/\ ~world.faults /\ ~world.hand
     /\ Cardinality(Jobs) <= MaxAttempts)
    => \A j \in Jobs : <>(pc[j] = "done")
=============================================================================
