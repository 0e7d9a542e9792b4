---------------------------- MODULE SharedBrowser ----------------------------
(***************************************************************************)
(* makeSharedBrowser (deps/real.ts): one browser process for all the runs  *)
(* of a dev session, launched when the first page is opened, replaced when *)
(* it dies or goes bad, closed once.  Opens run at the same time and wait  *)
(* at every await; a step below is the code between two of them.  A launch *)
(* that settles resumes everyone who waited for it before anything else    *)
(* happens, as promise reactions do.                                       *)
(***************************************************************************)
EXTENDS Naturals, FiniteSets

CONSTANTS
  Opens,               \* callers of open, each with one page at a time
  Policy,              \* Policy[o]: "auto" or "require" the sandbox
  MaxContextFailures,  \* refusals in a row that make a process unusable
  MaxProcesses         \* bound: how many launches succeed

ASSUME SharedBrowserAssumption ==
  /\ IsFiniteSet(Opens)
  /\ Policy \in [Opens -> {"auto", "require"}]
  /\ MaxContextFailures \in Nat \ {0}
  /\ MaxProcesses \in Nat

VARIABLES
  mortal,     \* chosen once: whether a process may die on its own
  process,    \* process[p]: its state, sandbox and failures (ProcessHandle)
  streak,     \* ghost: the contexts in a row that process p did not make
  current,    \* the process in use
  launching,  \* the policy of the launch in flight
  browserClosed,  \* close was called
  closing,    \* where the one close is
  ending,     \* the process that close took
  open        \* open[o]: where a call of open is

browserVars == <<mortal, process, streak, current, launching, browserClosed, closing,
                ending, open>>

Processes == 1 .. MaxProcesses
NoProcess == 0
IdleOpen == [pc |-> "idle", on |-> NoProcess, error |-> "none"]
FailedOpen(error) == [IdleOpen EXCEPT !.pc = "failed", !.error = error]
At(pc, p) == [IdleOpen EXCEPT !.pc = pc, !.on = p]

\* isConnected
Live(p) == process[p].state = "up"

Waiting == {o \in Opens : open[o].pc = "waiting"}

Becomes(o, call) == open' = [open EXCEPT ![o] = call]

-----------------------------------------------------------------------------
(* acquire.                                                                *)

\* A run that requires the sandbox is refused a process without it.
UsableBy(o, sandboxed) == sandboxed \/ Policy[o] = "auto"

Given(o, p, sandboxed) ==
  IF UsableBy(o, sandboxed) THEN At("context", p) ELSE FailedOpen("refused")

Start(o) ==
  /\ open[o].pc = "idle"
  /\ Becomes(o, At("acquire", NoProcess))
  /\ UNCHANGED <<mortal, process, streak, current, launching, browserClosed, closing,
                 ending>>

FindsClosed(o) ==
  /\ open[o].pc = "acquire" /\ browserClosed
  /\ Becomes(o, FailedOpen("closed"))
  /\ UNCHANGED <<mortal, process, streak, current, launching, browserClosed, closing,
                 ending>>

\* The process died: it is forgotten before its close is awaited.
FindsDead(o) ==
  /\ open[o].pc = "acquire" /\ ~browserClosed
  /\ current # NoProcess /\ ~Live(current)
  /\ Becomes(o, At("discarding", current))
  /\ current' = NoProcess
  /\ UNCHANGED <<mortal, process, streak, launching, browserClosed, closing, ending>>

\* `launching ??=`: the first open that finds no process launches one.
JoinsLaunch(o) ==
  /\ launching' = IF launching = "no" THEN Policy[o] ELSE launching
  /\ Becomes(o, At("waiting", NoProcess))

Takes(o) ==
  \/ /\ current # NoProcess
     /\ Becomes(o, Given(o, current, process[current].sandboxed))
     /\ UNCHANGED launching
  \/ /\ current = NoProcess
     /\ JoinsLaunch(o)

Acquire(o) ==
  /\ open[o].pc = "acquire" /\ ~browserClosed
  /\ current # NoProcess => Live(current)
  /\ Takes(o)
  /\ UNCHANGED <<mortal, process, streak, current, browserClosed, closing, ending>>

\* The same pass of the loop goes on after the discard, without another look
\* at `closed` or at the process.
AcquireAfterDiscard(o) ==
  /\ open[o].pc = "discarding"
  /\ Takes(o)
  /\ UNCHANGED <<mortal, process, streak, current, browserClosed, closing, ending>>

-----------------------------------------------------------------------------
(* The launch.                                                             *)

\* The close that waited for a launch takes its process.
CloseResumes(p) ==
  IF closing = "waiting"
  THEN /\ closing' = "ending" /\ ending' = p /\ current' = NoProcess
  ELSE /\ current' = IF p = NoProcess THEN current ELSE p
       /\ UNCHANGED <<closing, ending>>

\* An open without a sandbox requirement falls back to a launch without one.
LaunchUp(p) ==
  \E sandboxed \in BOOLEAN :
    /\ launching = "auto" \/ (launching = "require" /\ sandboxed)
    /\ process[p].state = "new"
    /\ \A q \in Processes : process[q].state = "new" => p <= q
    /\ process' = [process EXCEPT
         ![p] = [state |-> "up", sandboxed |-> sandboxed, failures |-> 0]]
    /\ launching' = "no"
    /\ open' = [o \in Opens |->
         IF o \in Waiting
         THEN IF browserClosed THEN FailedOpen("closed") ELSE Given(o, p, sandboxed)
         ELSE open[o]]
    /\ CloseResumes(p)
    /\ UNCHANGED <<mortal, streak, browserClosed>>

\* A missing Chromium or a crash is everyone's error.
LaunchCrashes ==
  /\ launching # "no"
  /\ launching' = "no"
  /\ open' = [o \in Opens |->
       IF o \in Waiting THEN FailedOpen("crashed") ELSE open[o]]
  /\ CloseResumes(NoProcess)
  /\ UNCHANGED <<mortal, process, streak, browserClosed>>

\* The refusal of a launch that required the sandbox is not the refusal of an
\* open that does not: it goes round the loop and launches its own.
RefusedLaunch(o) ==
  CASE Policy[o] = "require" -> FailedOpen("refused")
    [] Policy[o] = "auto" /\ browserClosed -> FailedOpen("closed")
    [] Policy[o] = "auto" /\ ~browserClosed -> At("waiting", NoProcess)

\* Mutant: the promise of a refused launch is not cleared.
LaunchRefusedKept ==
  /\ launching = "require"
  /\ open' = [o \in Opens |->
       IF o \in Waiting THEN RefusedLaunch(o) ELSE open[o]]
  /\ CloseResumes(NoProcess)
  /\ UNCHANGED <<mortal, process, streak, launching, browserClosed>>

LaunchRefused ==
  /\ launching = "require"
  /\ open' = [o \in Opens |->
       IF o \in Waiting THEN RefusedLaunch(o) ELSE open[o]]
  /\ launching' = IF \E o \in Opens : open'[o].pc = "waiting"
                  THEN "auto" ELSE "no"
  /\ CloseResumes(NoProcess)
  /\ UNCHANGED <<mortal, process, streak, browserClosed>>

-----------------------------------------------------------------------------
(* openPage, on the process it acquired.                                   *)

\* Mutant: whatever process is in use is dropped.
DiscardsWhateverIsCurrent(o, error) ==
  /\ current' = NoProcess
  /\ Becomes(o, At("dropping", open[o].on))

\* discard: the process is dropped only while it is the one in use.
Discards(o, error) ==
  IF current = open[o].on
  THEN /\ current' = NoProcess
       /\ Becomes(o, At("dropping", open[o].on))
  ELSE /\ UNCHANGED current
       /\ Becomes(o, FailedOpen(error))

NewContext(o) ==
  /\ open[o].pc = "context" /\ Live(open[o].on)
  /\ Becomes(o, At("page", open[o].on))
  /\ process' = [process EXCEPT ![open[o].on].failures = 0]
  /\ streak' = [streak EXCEPT ![open[o].on] = 0]
  /\ UNCHANGED <<mortal, current, launching, browserClosed, closing, ending>>

\* Mutant: the count is kept beside the handle, for the process in use.
ChargedToCurrent(o) == IF current = NoProcess THEN open[o].on ELSE current

\* The process a failure is counted on: the one the open asked.
Charged(o) == open[o].on

NoContext(o) ==
  LET charged  == Charged(o)
      failures == process[charged].failures + 1
  IN  /\ open[o].pc = "context"
      /\ process' = [process EXCEPT ![charged].failures = failures]
      /\ streak' = [streak EXCEPT ![open[o].on] = @ + 1]
      /\ \/ /\ ~Live(open[o].on) \/ failures >= MaxContextFailures
            /\ Discards(o, "context")
         \/ /\ Live(open[o].on) /\ failures < MaxContextFailures
            /\ Becomes(o, FailedOpen("context"))
            /\ UNCHANGED current
      /\ UNCHANGED <<mortal, launching, browserClosed, closing, ending>>

PageReady(o) ==
  /\ open[o].pc = "page" /\ Live(open[o].on)
  /\ Becomes(o, At("open", open[o].on))
  /\ UNCHANGED <<mortal, process, streak, current, launching, browserClosed, closing,
                 ending>>

\* Setup or navigation failed: the context is closed, the process only
\* forgotten when it is gone.
PageFails(o) ==
  /\ open[o].pc = "page"
  /\ \/ /\ ~Live(open[o].on)
        /\ Discards(o, "page")
     \/ /\ Live(open[o].on)
        /\ Becomes(o, FailedOpen("page"))
        /\ UNCHANGED current
  /\ UNCHANGED <<mortal, process, streak, launching, browserClosed, closing, ending>>

\* The discarded process has closed; the open rejects with its error.
Dropped(o) ==
  /\ open[o].pc = "dropping"
  /\ process' = [process EXCEPT ![open[o].on].state = "gone"]
  /\ Becomes(o, FailedOpen("context"))
  /\ UNCHANGED <<mortal, streak, current, launching, browserClosed, closing, ending>>

\* The caller closes its page, or has dealt with the error.
Leave(o) ==
  /\ open[o].pc \in {"open", "failed"}
  /\ Becomes(o, IdleOpen)
  /\ UNCHANGED <<mortal, process, streak, current, launching, browserClosed, closing,
                 ending>>

-----------------------------------------------------------------------------
\* A kill for memory, a crash, or somebody closing it.
Dies(p) ==
  /\ mortal /\ Live(p)
  /\ process' = [process EXCEPT ![p].state = "gone"]
  /\ UNCHANGED <<mortal, streak, current, launching, browserClosed, closing, ending,
                 open>>

\* close: everyone who calls it shares one promise.
CloseBrowser ==
  /\ ~browserClosed
  /\ browserClosed' = TRUE
  /\ IF launching # "no"
     THEN /\ closing' = "waiting"
          /\ UNCHANGED <<ending, current>>
     ELSE /\ closing' = "ending" /\ ending' = current /\ current' = NoProcess
  /\ UNCHANGED <<mortal, process, streak, launching, open>>

Closes ==
  /\ closing = "ending"
  /\ closing' = "done"
  /\ process' = IF ending = NoProcess THEN process
                ELSE [process EXCEPT ![ending].state = "gone"]
  /\ UNCHANGED <<mortal, streak, current, launching, browserClosed, ending, open>>

-----------------------------------------------------------------------------
BrowserInit ==
  /\ mortal \in BOOLEAN
  /\ process = [p \in Processes |->
       [state |-> "new", sandboxed |-> FALSE, failures |-> 0]]
  /\ streak = [p \in Processes |-> 0]
  /\ current = NoProcess /\ ending = NoProcess
  /\ launching = "no" /\ closing = "no"
  /\ browserClosed = FALSE
  /\ open = [o \in Opens |-> IdleOpen]

OpenSteps(o) ==
  \/ FindsClosed(o) \/ FindsDead(o) \/ Acquire(o) \/ AcquireAfterDiscard(o)
  \/ NewContext(o) \/ NoContext(o) \/ PageReady(o) \/ PageFails(o)
  \/ Dropped(o)

LaunchSteps ==
  (\E p \in Processes : LaunchUp(p)) \/ LaunchCrashes \/ LaunchRefused

BrowserNext ==
  \/ \E o \in Opens : Start(o) \/ OpenSteps(o) \/ Leave(o)
  \/ LaunchSteps \/ Closes \/ CloseBrowser
  \/ \E p \in Processes : Dies(p)

BrowserSpec == BrowserInit /\ [][BrowserNext]_browserVars

\* A launch settles, every call of the browser returns or rejects (each has a
\* time limit), and the program goes on with what it awaited.
BrowserFairSpec ==
  /\ BrowserSpec
  /\ \A o \in Opens : WF_browserVars(OpenSteps(o))
  /\ WF_browserVars(LaunchSteps) /\ WF_browserVars(Closes)

-----------------------------------------------------------------------------
(* Properties.                                                             *)

\* Every process that runs is the one in use, or somebody is closing it: opens
\* that race for a launch or for a dead process leave none behind.
NoOrphan ==
  \A p \in Processes : Live(p) =>
    \/ p = current
    \/ closing = "ending" /\ ending = p
    \/ \E o \in Opens : open[o].pc = "dropping" /\ open[o].on = p

\* The process in use is dropped only when it died, or refused that many
\* contexts in a row itself: an open that settles late on a process that was
\* replaced says nothing of the new one.
HealthyIsKept ==
  [][\A p \in Processes : (current = p /\ current' # p) =>
       \/ ~Live(p)
       \/ streak'[p] >= MaxContextFailures
       \/ browserClosed']_browserVars

\* Every open settles, with a page or an error.
EveryOpenSettles ==
  \A o \in Opens :
    open[o].pc = "acquire" ~> open[o].pc \in {"open", "failed"}

\* "Once closed, stays closed.  An open after close rejects rather than
\* launching a new process that nothing would ever close" (deps/real.ts:2529):
\* when close is done and the opens have settled, no process runs.
CloseIsFinal ==
  (/\ closing = "done" /\ launching = "no"
   /\ \A o \in Opens : open[o].pc \in {"idle", "open", "failed"})
  => \A p \in Processes : ~Live(p)
=============================================================================
