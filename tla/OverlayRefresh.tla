--------------------------- MODULE OverlayRefresh ---------------------------
(***************************************************************************)
(* The dev-server overlay: the result cache of surfaces/overlay-host.ts    *)
(* between the file watcher, the engine and the panels of the browsers     *)
(* (surfaces/overlay-client.ts).                                           *)
(*                                                                         *)
(* A save changes the disk at once and reaches the watcher later.  The     *)
(* watcher drops the cached result and opens a wave, in which no run       *)
(* starts; the debounce timer closes the wave and pushes a refresh to the  *)
(* panels, which read again.  A run measures the disk at a moment of its   *)
(* own.  A result is the number of the last save the run measured.         *)
(***************************************************************************)
EXTENDS Naturals, FiniteSets

CONSTANTS
  Panels,       \* browser pages with the overlay client
  MaxSaves,     \* bound on the saves of a behavior
  MaxChecks     \* bound on the presses of "Check again"

ASSUME OverlayAssumption == MaxSaves \in Nat /\ MaxChecks \in Nat

VARIABLES
  hot,       \* chosen once: refreshes travel over the bundler's own channel,
             \* or else over the event stream, which can be down
  disk,      \* saves made
  told,      \* saves the watcher has reported: the cache's generation
  wave,      \* an invalidation wave is open
  timer,     \* the debounce timer that will close it is set
  cached,    \* the cached result, None when dropped
  runs,      \* runs[i]: a run and the readers' promise for it
  running,   \* the run a read may join, None when there is none
  browser,   \* the warm browser process is up
  closed,    \* the host was closed
  panel,     \* panel[c]: what the client in page c keeps
  stream,    \* the panels connected to the refresh channel
  pushed,    \* pushed[c]: refreshes on their way to panel c
  checks     \* presses of "Check again" so far

server == <<told, wave, timer, cached, runs, running>>
client == <<panel, stream, pushed, checks>>
vars == <<hot, disk, server, browser, closed, client>>

None == MaxSaves + 2      \* above every result and every run
Failed == MaxSaves + 1    \* a run that rejected
Version == 0 .. MaxSaves
\* One run can be in progress for each generation, and one can wait.
RunIds == 0 .. MaxSaves + 1

Free == [phase |-> "free", generation |-> 0, saw |-> 0, late |-> FALSE]

\* A panel has at most one request: sent to the server, joined to a run, or
\* answered with the response on its way.
Idle == [phase |-> "idle", fresh |-> FALSE, run |-> None, since |-> 0,
         answer |-> None]
Sent(fresh) == [Idle EXCEPT !.phase = "sent", !.fresh = fresh]

-----------------------------------------------------------------------------
(* Plausible bugs in what follows.                                         *)

JoinsAnyRun(fresh) == running # None
KeepsWhateverFinished(i) == TRUE
NewestAnyway(p) == TRUE
ForgetsTheQueue(p) == [p EXCEPT !.request = Idle, !.queued = FALSE]

-----------------------------------------------------------------------------
(* The cache.                                                              *)

InFlight == {i \in RunIds : runs[i].phase # "free"}

\* A run that waits will see what is current when it starts; one that has
\* started is shared only with readers of its own generation.
Joins(fresh) ==
  /\ running # None
  /\ runs[running].phase = "waiting" \/ runs[running].generation = told

ServesCache(fresh) == ~fresh /\ cached # None

Started(r) == [r EXCEPT !.phase = "loading", !.generation = told]

\* A run's result is kept only when no save was reported since it started.
Keeps(i) == runs[i].generation = told

\* The server handles the read of panel c.
Serve(c) ==
  LET req == panel[c].request
      joined(i) == [req EXCEPT !.phase = "joined", !.run = i, !.since = told]
      answered == [req EXCEPT !.phase = "answered", !.answer = cached,
                              !.since = told]
      set(r) == panel' = [panel EXCEPT ![c].request = r]
  IN  /\ req.phase = "sent"
      /\ \/ /\ Joins(req.fresh)
            /\ set(joined(running))
            /\ UNCHANGED <<runs, running>>
         \/ /\ ~Joins(req.fresh) /\ ServesCache(req.fresh)
            /\ set(answered)
            /\ UNCHANGED <<runs, running>>
         \/ /\ ~Joins(req.fresh) /\ ~ServesCache(req.fresh)
            /\ \E i \in RunIds \ InFlight :
                 /\ \A j \in RunIds \ InFlight : i <= j
                 /\ running' = i
                 /\ set(joined(i))
                 /\ runs' = [runs EXCEPT ![i] =
                      IF wave THEN [Free EXCEPT !.phase = "waiting"]
                      ELSE Started(Free)]
      /\ UNCHANGED <<hot, disk, told, wave, timer, cached, browser, closed,
                     stream, pushed, checks>>

\* The run has read its config and takes the shared browser, a new one when
\* the host has none: late says that it took it after the host was closed.
TakeBrowser(i) ==
  /\ runs[i].phase = "loading"
  /\ runs' = [runs EXCEPT ![i].phase = "ready", ![i].late = closed]
  /\ UNCHANGED <<hot, disk, told, wave, timer, cached, running, browser, closed,
                 client>>

\* It opens its pages, which launches the process when none is up.  A shared
\* browser that was closed opens no more pages.
Measure(i) ==
  /\ runs[i].phase = "ready"
  /\ closed => runs[i].late
  /\ browser' = TRUE
  /\ runs' = [runs EXCEPT ![i].phase = "measured", ![i].saw = disk]
  /\ UNCHANGED <<hot, disk, told, wave, timer, cached, running, closed, client>>

\* The promise settles: first the bookkeeping, then every reader of it.
Settle(i, result) ==
  /\ runs' = [runs EXCEPT ![i] = Free]
  /\ running' = IF running = i THEN None ELSE running
  /\ panel' = [c \in Panels |->
       IF panel[c].request.phase = "joined" /\ panel[c].request.run = i
       THEN [panel[c] EXCEPT !.request.phase = "answered",
                             !.request.run = None, !.request.answer = result]
       ELSE panel[c]]
  /\ UNCHANGED <<hot, disk, told, wave, timer, browser, closed, stream, pushed,
                 checks>>

Finish(i) ==
  /\ runs[i].phase = "measured"
  /\ cached' = IF Keeps(i) THEN runs[i].saw ELSE cached
  /\ Settle(i, runs[i].saw)

\* A rejected run is not cached; the middleware answers 500.
Reject(i) ==
  /\ runs[i].phase \in {"loading", "ready", "measured"}
  /\ UNCHANGED cached
  /\ Settle(i, Failed)

-----------------------------------------------------------------------------
(* The watcher and the debounce timer.                                     *)

Save ==
  /\ disk < MaxSaves
  /\ disk' = disk + 1
  /\ UNCHANGED <<hot, server, browser, closed, client>>

\* scheduleRefresh: the cache is dropped at once, the timer set again.  It does
\* not ask whether the host was closed.
FileEvent ==
  /\ told < disk
  /\ told' = told + 1
  /\ cached' = None
  /\ wave' = TRUE
  /\ timer' = TRUE
  /\ UNCHANGED <<hot, disk, runs, running, browser, closed, client>>

\* The timer: the wave settles, the run that waited starts, panels are told.
TimerFires ==
  /\ timer
  /\ wave' = FALSE
  /\ timer' = FALSE
  /\ runs' = [i \in RunIds |->
       IF runs[i].phase = "waiting" THEN Started(runs[i]) ELSE runs[i]]
  /\ pushed' = [c \in Panels |->
       IF c \in stream THEN pushed[c] + 1 ELSE pushed[c]]
  /\ UNCHANGED <<hot, disk, told, cached, running, browser, closed, panel,
                 stream, checks>>

\* close: the timer is cleared, the streams end, the warm browser goes.  A wave
\* that was open stays open.
Close ==
  /\ ~closed
  /\ closed' = TRUE
  /\ timer' = FALSE
  /\ browser' = FALSE
  /\ stream' = {}
  /\ UNCHANGED <<hot, disk, told, wave, cached, runs, running, panel, pushed,
                 checks>>

-----------------------------------------------------------------------------
(* The client.                                                             *)

\* The intent to refresh: at most one request in flight, one more queued.
Requested(p, fresh) ==
  IF p.request.phase # "idle"
  THEN [p EXCEPT !.superseded = TRUE, !.queued = TRUE,
                 !.queuedFresh = @ \/ fresh]
  ELSE [p EXCEPT !.request = Sent(fresh), !.superseded = FALSE]

\* After a response, the queued request goes out with the newest generation.
Continued(p) ==
  IF p.queued
  THEN [p EXCEPT !.request = Sent(p.queuedFresh), !.superseded = FALSE,
                 !.queued = FALSE, !.queuedFresh = FALSE]
  ELSE [p EXCEPT !.request = Idle]

\* A response is rendered when no refresh was asked for since its request.
Newest(p) == ~p.superseded

HearRefresh(c) ==
  /\ pushed[c] > 0
  /\ pushed' = [pushed EXCEPT ![c] = @ - 1]
  /\ panel' = [panel EXCEPT
       ![c] = [Requested(@, FALSE) EXCEPT !.heard = told]]
  /\ UNCHANGED <<hot, disk, server, browser, closed, stream, checks>>

CheckAgain(c) ==
  /\ checks < MaxChecks
  /\ checks' = checks + 1
  /\ panel' = [panel EXCEPT ![c] = Requested(@, TRUE)]
  /\ UNCHANGED <<hot, disk, server, browser, closed, stream, pushed>>

Render(c) ==
  LET p == panel[c]
      seen == IF Newest(p) THEN [p EXCEPT !.shown = p.request.answer] ELSE p
  IN  /\ p.request.phase = "answered"
      /\ panel' = [panel EXCEPT ![c] = Continued(seen)]
      /\ UNCHANGED <<hot, disk, server, browser, closed, stream, pushed, checks>>

\* The event stream connects after the first read went out, and can drop and
\* connect again.  What was pushed meanwhile is not sent again.
Connect(c) ==
  /\ ~hot /\ ~closed
  /\ c \notin stream
  /\ stream' = stream \cup {c}
  /\ UNCHANGED <<hot, disk, server, browser, closed, panel, pushed, checks>>

Drop(c) ==
  /\ ~hot
  /\ c \in stream
  /\ stream' = stream \ {c}
  /\ pushed' = [pushed EXCEPT ![c] = 0]
  /\ UNCHANGED <<hot, disk, server, browser, closed, panel, checks>>

-----------------------------------------------------------------------------
Init ==
  /\ hot \in BOOLEAN
  /\ disk = 0 /\ told = 0
  /\ wave = FALSE /\ timer = FALSE /\ browser = FALSE /\ closed = FALSE
  /\ cached = None
  /\ runs = [i \in RunIds |-> Free]
  /\ running = None
  /\ panel = [c \in Panels |->
       [request |-> Sent(FALSE), superseded |-> FALSE, queued |-> FALSE,
        queuedFresh |-> FALSE, heard |-> 0, shown |-> None]]
  /\ stream = IF hot THEN Panels ELSE {}
  /\ pushed = [c \in Panels |-> 0]
  /\ checks = 0

Next ==
  \/ Save \/ FileEvent \/ TimerFires \/ Close
  \/ \E i \in RunIds : TakeBrowser(i) \/ Measure(i) \/ Finish(i) \/ Reject(i)
  \/ \E c \in Panels : \/ Serve(c) \/ HearRefresh(c) \/ CheckAgain(c)
                       \/ Render(c) \/ Connect(c) \/ Drop(c)

Spec == Init /\ [][Next]_vars

(***************************************************************************)
(* Fairness: the watcher reports, the timer fires, a run that started ends *)
(* (every wait in the engine has a deadline), the server and the client    *)
(* handle what reached them, and the stream connects.  Nobody has to save, *)
(* to press "Check again" or to close, and no run has to fail.             *)
(***************************************************************************)
Fairness ==
  /\ WF_vars(FileEvent) /\ WF_vars(TimerFires)
  /\ \A i \in RunIds : /\ WF_vars(TakeBrowser(i)) /\ WF_vars(Measure(i))
                       /\ WF_vars(Finish(i))
  /\ \A c \in Panels : /\ WF_vars(Serve(c)) /\ WF_vars(HearRefresh(c))
                       /\ WF_vars(Render(c)) /\ WF_vars(Connect(c))

FairSpec == Spec /\ Fairness

-----------------------------------------------------------------------------
(* Properties.                                                             *)

\* "a reader after a save always gets a run that saw the save"
\* (surfaces/overlay-host.ts:436): no answer is older than what the watcher
\* had reported when the server handled the read.
ReaderSeesTheSave ==
  \A c \in Panels :
    LET req == panel[c].request
    IN  (req.phase = "answered" /\ req.answer # Failed)
          => req.answer >= req.since

\* A cached result has seen every save reported so far, so the next reader
\* can be served from it.
CacheIsCurrent == cached # None => cached >= told

\* Once a panel has heard of a save, it never renders a result that did not
\* see it: "an old verified result can never overwrite a newer regression"
\* (surfaces/overlay-client.ts:3474).
PanelNeverGoesBack ==
  [][\A c \in Panels :
       (panel'[c].shown # panel[c].shown /\ panel'[c].shown \in Version)
         => panel'[c].shown >= panel[c].heard]_vars

\* When the saves stop, every panel on the bundler's channel comes to show what
\* is on disk, or that the run failed.  (A panel whose event stream was down
\* misses the refresh, and reads again only when it is asked to.)
PanelCatchesUp ==
  \A c \in Panels :
    hot => <>[](panel[c].shown \in {disk, Failed} \/ closed)
=============================================================================
