--------------------------- MODULE Overlay_proofs ---------------------------
(***************************************************************************)
(* Proofs about the two halves of the overlay's host, each for every value *)
(* of its constants.                                                       *)
(*                                                                         *)
(* OverlayRefresh, for any number of panels, saves and presses of "Check   *)
(* again": the inductive invariant orders four numbers.  A reader's        *)
(* generation is at most its run's, a run's at most what it measured, and  *)
(* a panel's newest request was handled after the refresh it last heard.   *)
(*                                                                         *)
(* SharedBrowser, for any number of opens, any policies, any limit of      *)
(* refusals and any number of processes: the inductive invariant says that *)
(* a launch is in flight only while no process is in use, that a call      *)
(* names a process that was launched, and that the count kept with a       *)
(* process is the number of refusals in a row it really had.               *)
(***************************************************************************)
EXTENDS OverlayRefresh, SharedBrowser, TLAPS

(* --------------------------- OverlayRefresh ---------------------------- *)

Answers == Version \cup {Failed, None}

Requests == [phase : {"idle", "sent", "joined", "answered"}, fresh : BOOLEAN,
             run : RunIds \cup {None}, since : Version, answer : Answers]

Clients == [request : Requests, superseded : BOOLEAN, queued : BOOLEAN,
            queuedFresh : BOOLEAN, heard : Version, shown : Answers]

RunStates == [phase : {"free", "waiting", "loading", "ready", "measured"},
              generation : Version, saw : Version, late : BOOLEAN]

TypeOK ==
  /\ disk \in Version /\ told \in Version /\ told <= disk
  /\ cached \in Version \cup {None}
  /\ runs \in [RunIds -> RunStates]
  /\ running \in RunIds \cup {None}
  /\ panel \in [Panels -> Clients]
  /\ closed \in BOOLEAN

\* A run that measured saw every save its generation stands for.
RunsSeeTheirGeneration ==
  \A i \in RunIds :
    /\ runs[i].generation <= told
    /\ runs[i].phase = "measured" => runs[i].saw >= runs[i].generation

\* Whoever waits for a run waits for one that is there, and that will start, or
\* started, no earlier than the read was handled.
ReadersFollowTheirRun ==
  /\ running # None => runs[running].phase # "free"
  /\ \A c \in Panels :
       LET req == panel[c].request
       IN  /\ req.since <= told
           /\ req.phase = "joined" =>
                /\ req.run \in RunIds
                /\ runs[req.run].phase # "free"
                /\ runs[req.run].phase # "waiting" => req.since <= runs[req.run].generation

\* The request a panel will render was handled after the last refresh it heard.
NewestIsAfterHeard ==
  \A c \in Panels :
    LET p == panel[c]
    IN  /\ p.heard <= told
        /\ Newest(p) /\ p.request.phase \in {"joined", "answered"} => p.request.since >= p.heard

IInv ==
  /\ TypeOK
  /\ CacheIsCurrent
  /\ RunsSeeTheirGeneration
  /\ ReadersFollowTheirRun
  /\ NewestIsAfterHeard
  /\ ReaderSeesTheSave

-----------------------------------------------------------------------------
\* The versions, the runs and the marks above them are numbers.
LEMMA Numbers ==
  /\ Version \subseteq Nat /\ RunIds \subseteq Nat /\ Answers \subseteq Nat
  /\ 0 \in Version
  /\ None \notin Version /\ None \notin RunIds /\ Failed \notin Version
  /\ None \in Nat /\ Failed \in Nat /\ \A v \in Version : None >= v /\ Failed >= v
  BY OverlayAssumption DEF Version, RunIds, Answers, None, Failed

LEMMA RequestTyped ==
  /\ Idle \in Requests /\ Idle.phase = "idle" /\ Idle.since = 0
  /\ \A fresh \in BOOLEAN : /\ Sent(fresh) \in Requests
                            /\ Sent(fresh).phase = "sent" /\ Sent(fresh).since = 0
  /\ Free \in RunStates /\ Free.phase = "free" /\ Free.generation = 0
  BY Numbers DEF Idle, Sent, Requests, Answers, Free, RunStates

LEMMA InitHolds == Init => IInv
<1> SUFFICES ASSUME Init PROVE IInv
  OBVIOUS
<1> DEFINE first == [request |-> Sent(FALSE), superseded |-> FALSE, queued |-> FALSE,
                     queuedFresh |-> FALSE, heard |-> 0, shown |-> None]
<1>1. /\ disk = 0 /\ told = 0 /\ cached = None /\ running = None
      /\ closed = FALSE /\ runs = [i \in RunIds |-> Free] /\ panel = [c \in Panels |-> first]
  BY DEF Init
<1>2. first \in Clients /\ first.request.phase = "sent" /\ first.request.since = 0 /\ first.heard = 0
  BY Numbers, RequestTyped DEF Clients, Answers
<1> HIDE DEF first
<1>3. \A c \in Panels : panel[c] = first
  BY <1>1
<1>4. TypeOK
  <2>1. closed \in BOOLEAN
    BY <1>1
  <2>2. runs \in [RunIds -> RunStates] /\ panel \in [Panels -> Clients]
    BY <1>1, <1>2, RequestTyped
  <2> QED
    BY <1>1, <2>1, <2>2, Numbers DEF TypeOK
<1>5. \A i \in RunIds : runs[i].phase = "free" /\ runs[i].generation = 0
  BY <1>1, RequestTyped
<1> QED
  BY <1>1, <1>2, <1>3, <1>4, <1>5 DEF IInv, CacheIsCurrent, RunsSeeTheirGeneration, ReadersFollowTheirRun,
     NewestIsAfterHeard, ReaderSeesTheSave

\* A step that only moves runs on, and starts none before what was reported.
LEMMA RunsMoveOn ==
  ASSUME IInv, UNCHANGED <<disk, told, cached, running, panel, closed>>,
         runs' \in [RunIds -> RunStates],
         \A i \in RunIds :
           /\ runs'[i].phase = "free" <=> runs[i].phase = "free"
           /\ \/ runs[i].phase = "waiting" /\ runs'[i] = runs[i]
              \/ runs[i].phase # "waiting" /\ runs'[i].generation = runs[i].generation
              \/ runs'[i].generation = told
           /\ runs'[i].phase = "measured" => runs'[i].saw >= runs'[i].generation
  PROVE  IInv'
<1>1. TypeOK /\ CacheIsCurrent /\ RunsSeeTheirGeneration /\ ReadersFollowTheirRun /\ NewestIsAfterHeard
      /\ ReaderSeesTheSave
  BY DEF IInv
<1>2. told \in Nat
  BY <1>1, Numbers DEF TypeOK
<1>3. TypeOK'
  BY <1>1 DEF TypeOK
<1>4. RunsSeeTheirGeneration'
  BY <1>1, <1>2 DEF RunsSeeTheirGeneration
<1>5. ReadersFollowTheirRun'
  <2>1. running' # None => runs'[running'].phase # "free"
    BY <1>1 DEF TypeOK, ReadersFollowTheirRun
  <2>2. ASSUME NEW c \in Panels, panel[c].request.phase = "joined", NEW i \in RunIds,
               panel[c].request.run = i
        PROVE  runs'[i].phase # "free"
               /\ (runs'[i].phase # "waiting" => panel[c].request.since <= runs'[i].generation)
    <3>1. /\ runs[i].phase # "free" /\ panel[c].request.since <= told
          /\ runs[i].phase # "waiting" => panel[c].request.since <= runs[i].generation
      BY <1>1, <2>2 DEF ReadersFollowTheirRun
    <3> QED
      BY <3>1
  <2> QED
    BY <1>1, <2>1, <2>2 DEF ReadersFollowTheirRun
<1> QED
  BY <1>1, <1>3, <1>4, <1>5 DEF IInv, CacheIsCurrent, NewestIsAfterHeard, ReaderSeesTheSave, Newest

\* What IInv says of one panel.
PanelOK(p) ==
  /\ p \in Clients
  /\ p.request.since <= told
  /\ p.heard <= told
  /\ p.request.phase = "joined" =>
       /\ p.request.run \in RunIds
       /\ runs[p.request.run].phase # "free"
       /\ runs[p.request.run].phase # "waiting" =>
            p.request.since <= runs[p.request.run].generation
  /\ Newest(p) /\ p.request.phase \in {"joined", "answered"} => p.request.since >= p.heard
  /\ p.request.phase = "answered" /\ p.request.answer # Failed =>
       p.request.answer >= p.request.since

LEMMA PanelsAreOK == IInv => \A c \in Panels : PanelOK(panel[c])
  BY DEF IInv, TypeOK, ReadersFollowTheirRun, NewestIsAfterHeard, ReaderSeesTheSave, PanelOK

\* A step is judged by the runs, the cache and each panel on its own.
LEMMA PartsHold ==
  ASSUME (disk \in Version /\ told \in Version /\ told <= disk)',
         (cached \in Version \cup {None})', CacheIsCurrent',
         (runs \in [RunIds -> RunStates])', RunsSeeTheirGeneration',
         (running \in RunIds \cup {None})',
         (running # None => runs[running].phase # "free")',
         panel' \in [Panels -> Clients], closed' \in BOOLEAN,
         \A c \in Panels : PanelOK(panel[c])'
  PROVE  IInv'
  BY DEF IInv, TypeOK, ReadersFollowTheirRun, NewestIsAfterHeard, ReaderSeesTheSave, PanelOK

\* A step of one panel, which may start a run that was free.
LEMMA OnePanelMoves ==
  ASSUME IInv, closed' \in BOOLEAN, UNCHANGED <<disk, told, cached>>,
         runs' \in [RunIds -> RunStates], RunsSeeTheirGeneration',
         (running \in RunIds \cup {None})',
         (running # None => runs[running].phase # "free")',
         \A i \in RunIds : runs[i].phase # "free" => runs'[i] = runs[i],
         NEW c \in Panels, NEW p, panel' = [panel EXCEPT ![c] = p], PanelOK(p)'
  PROVE  IInv'
<1>1. p \in Clients /\ panel \in [Panels -> Clients]
  BY DEF PanelOK, IInv, TypeOK
<1>2. ASSUME NEW d \in Panels PROVE PanelOK(panel[d])'
  <2>1. CASE d = c
    <3>1. panel'[d] = p
      BY <1>1, <2>1
    <3> QED
      BY <3>1 DEF PanelOK, Newest
  <2>2. CASE d # c
    <3>1. panel'[d] = panel[d]
      BY <1>1, <2>2
    <3>2. PanelOK(panel[d])
      BY PanelsAreOK
    <3> QED
      BY <3>1, <3>2 DEF PanelOK, Newest
  <2> QED
    BY <2>1, <2>2
<1>3. /\ (disk \in Version /\ told \in Version /\ told <= disk)'
      /\ (cached \in Version \cup {None})' /\ CacheIsCurrent'
  BY DEF IInv, TypeOK, CacheIsCurrent
<1>4. panel' \in [Panels -> Clients]
  BY <1>1
<1> QED
  BY <1>2, <1>3, <1>4, PartsHold

-----------------------------------------------------------------------------
LEMMA TakeBrowserKeeps ==
  ASSUME IInv, NEW i \in RunIds, TakeBrowser(i)
  PROVE  IInv'
<1>1. TypeOK /\ RunsSeeTheirGeneration /\ closed \in BOOLEAN
  BY DEF IInv, TypeOK
<1>2. runs'[i] = [runs[i] EXCEPT !.phase = "ready", !.late = closed] /\ runs[i].phase = "loading"
      /\ \A j \in RunIds \ {i} : runs'[j] = runs[j]
  BY <1>1 DEF TypeOK, TakeBrowser
<1>3. runs' \in [RunIds -> RunStates]
  BY <1>1 DEF TypeOK, TakeBrowser, RunStates
<1>4. runs[i] \in RunStates
  BY <1>1 DEF TypeOK
<1>5. runs'[i].phase = "ready" /\ runs'[i].generation = runs[i].generation
  BY <1>2, <1>4 DEF RunStates
<1> QED
  BY <1>1, <1>2, <1>3, <1>5, RunsMoveOn DEF TakeBrowser, client, RunsSeeTheirGeneration

LEMMA MeasureKeeps ==
  ASSUME IInv, NEW i \in RunIds, Measure(i)
  PROVE  IInv'
<1>1. TypeOK /\ RunsSeeTheirGeneration
  BY DEF IInv
<1>2. runs'[i] = [runs[i] EXCEPT !.phase = "measured", !.saw = disk] /\ runs[i].phase = "ready"
      /\ \A j \in RunIds \ {i} : runs'[j] = runs[j]
  BY <1>1 DEF TypeOK, Measure
<1>3. runs' \in [RunIds -> RunStates]
  BY <1>1 DEF TypeOK, Measure, RunStates
<1>4. runs[i] \in RunStates
  BY <1>1 DEF TypeOK
<1>5. runs'[i].phase = "measured" /\ runs'[i].generation = runs[i].generation /\ runs'[i].saw = disk
  BY <1>2, <1>4 DEF RunStates
<1>6. disk >= runs[i].generation
  <2>1. runs[i].generation <= told /\ told <= disk
    BY <1>1 DEF TypeOK, RunsSeeTheirGeneration
  <2>2. runs[i].generation \in Nat /\ told \in Nat /\ disk \in Nat
    BY <1>1, <1>4, Numbers DEF TypeOK, RunStates
  <2> QED
    BY <2>1, <2>2
<1> QED
  BY <1>1, <1>2, <1>3, <1>5, <1>6, RunsMoveOn DEF Measure, client, RunsSeeTheirGeneration

LEMMA TimerFiresKeeps ==
  ASSUME IInv, TimerFires
  PROVE  IInv'
<1>1. TypeOK /\ RunsSeeTheirGeneration
  BY DEF IInv
<1>2. \A i \in RunIds :
        runs'[i] = IF runs[i].phase = "waiting" THEN Started(runs[i]) ELSE runs[i]
  BY DEF TimerFires
<1>3. \A i \in RunIds :
        /\ Started(runs[i]) \in RunStates
        /\ Started(runs[i]).phase = "loading" /\ Started(runs[i]).generation = told
  BY <1>1 DEF TypeOK, RunStates, Started
<1>4. runs' \in [RunIds -> RunStates]
  BY <1>1, <1>2, <1>3 DEF TypeOK, TimerFires
<1> QED
  BY <1>1, <1>2, <1>3, <1>4, RunsMoveOn DEF TimerFires, RunsSeeTheirGeneration

-----------------------------------------------------------------------------
LEMMA SaveKeeps ==
  ASSUME IInv, Save
  PROVE  IInv'
<1>1. disk' \in Version /\ told <= disk'
  BY OverlayAssumption DEF IInv, TypeOK, Save, Version
<1> QED
  BY <1>1 DEF Save, server, client, IInv, TypeOK, CacheIsCurrent, RunsSeeTheirGeneration,
     ReadersFollowTheirRun, NewestIsAfterHeard, ReaderSeesTheSave, Newest

LEMMA FileEventKeeps ==
  ASSUME IInv, FileEvent
  PROVE  IInv'
<1>1. TypeOK
  BY DEF IInv
<1>2. told' \in Version /\ told' <= disk' /\ told' > told /\ disk' = disk /\ cached' = None
      /\ told \in Nat
  BY <1>1, OverlayAssumption DEF TypeOK, FileEvent, Version
<1>3. runs' = runs /\ running' = running /\ panel' = panel /\ closed' = closed
  BY DEF FileEvent, client
<1>4. RunsSeeTheirGeneration'
  <2> SUFFICES ASSUME NEW i \in RunIds
               PROVE  runs[i].generation <= told'
                      /\ (runs[i].phase = "measured" => runs[i].saw >= runs[i].generation)
    BY <1>3 DEF RunsSeeTheirGeneration
  <2>1. runs[i].generation \in Nat
    BY <1>1, Numbers DEF TypeOK, RunStates
  <2> QED
    BY <1>2, <2>1, Numbers DEF IInv, RunsSeeTheirGeneration
<1>5. ASSUME NEW c \in Panels PROVE PanelOK(panel[c])'
  <2>1. PanelOK(panel[c])
    BY PanelsAreOK
  <2>2. panel[c].request.since <= told' /\ panel[c].heard <= told'
    <3>1. panel[c].request.since \in Nat /\ panel[c].heard \in Nat /\ told' \in Nat
      BY <1>2, <2>1, Numbers DEF PanelOK, Clients, Requests
    <3> QED
      BY <1>2, <2>1, <3>1 DEF PanelOK
  <2> QED
    BY <1>3, <2>1, <2>2 DEF PanelOK, Newest
<1> QED
  BY <1>1, <1>2, <1>3, <1>4, <1>5, PartsHold DEF IInv, TypeOK, CacheIsCurrent, ReadersFollowTheirRun

LEMMA CloseKeeps ==
  ASSUME IInv, Close
  PROVE  IInv'
<1>1. closed' \in BOOLEAN
  BY DEF Close
<1> QED
  BY <1>1 DEF Close, IInv, TypeOK, CacheIsCurrent, RunsSeeTheirGeneration,
     ReadersFollowTheirRun, NewestIsAfterHeard, ReaderSeesTheSave, Newest

-----------------------------------------------------------------------------
\* A run settles: it goes free, and its readers have what it saw, or know that
\* it failed.
LEMMA SettleKeeps ==
  ASSUME IInv, NEW i \in RunIds, NEW result \in Answers, Settle(i, result),
         cached' \in Version \cup {None}, CacheIsCurrent',
         runs[i].phase \notin {"free", "waiting"},
         result # Failed => result >= runs[i].generation
  PROVE  IInv'
<1>1. TypeOK /\ RunsSeeTheirGeneration /\ told' = told /\ disk' = disk /\ closed' = closed
  BY DEF IInv, Settle
<1>2. runs' = [runs EXCEPT ![i] = Free] /\ running' = IF running = i THEN None ELSE running
  BY DEF Settle
<1>3. runs' \in [RunIds -> RunStates] /\ runs'[i] = Free /\ \A j \in RunIds \ {i} : runs'[j] = runs[j]
  BY <1>1, <1>2, RequestTyped DEF TypeOK
<1>4. RunsSeeTheirGeneration'
  <2>1. 0 <= told
    BY <1>1, Numbers DEF TypeOK
  <2> QED
    BY <1>1, <1>3, <2>1, RequestTyped DEF RunsSeeTheirGeneration
<1>5. running' \in RunIds \cup {None} /\ (running' # None => runs'[running'].phase # "free")
  BY <1>1, <1>2, <1>3 DEF TypeOK, IInv, ReadersFollowTheirRun
<1>6. ASSUME NEW c \in Panels PROVE panel'[c] \in Clients /\ PanelOK(panel[c])'
  <2>1. PanelOK(panel[c])
    BY PanelsAreOK
  <2>2. CASE panel[c].request.phase = "joined" /\ panel[c].request.run = i
    <3> DEFINE was == panel[c]
               now == [was EXCEPT !.request.phase = "answered", !.request.run = None,
                                  !.request.answer = result]
    <3>1. panel'[c] = now
      BY <2>2 DEF Settle
    <3>2. was \in Clients /\ was.request.since <= runs[i].generation
      BY <2>1, <2>2 DEF PanelOK
    <3>3. now \in Clients /\ now.request.phase = "answered" /\ now.request.since = was.request.since
          /\ now.request.answer = result /\ now.heard = was.heard /\ now.superseded = was.superseded
      BY <3>2 DEF Clients, Requests
    <3>4. result # Failed => result >= was.request.since
      <4>1. result \in Nat /\ runs[i].generation \in Nat /\ was.request.since \in Nat
        BY <1>1, <3>2, Numbers DEF TypeOK, RunStates, Clients, Requests
      <4> QED
        BY <3>2, <4>1
    <3> HIDE DEF now
    <3> QED
      BY <1>1, <2>1, <2>2, <3>1, <3>3, <3>4 DEF PanelOK, Newest
  <2>3. CASE ~(panel[c].request.phase = "joined" /\ panel[c].request.run = i)
    <3>1. panel'[c] = panel[c]
      BY <2>3 DEF Settle
    <3> QED
      BY <1>1, <1>3, <2>1, <2>3, <3>1 DEF PanelOK, Newest
  <2> QED
    BY <2>2, <2>3
<1>7. panel' \in [Panels -> Clients]
  BY <1>6 DEF Settle
<1> QED
  BY <1>1, <1>3, <1>4, <1>5, <1>6, <1>7, PartsHold DEF TypeOK

LEMMA FinishKeeps ==
  ASSUME IInv, NEW i \in RunIds, Finish(i)
  PROVE  IInv'
<1>1. TypeOK /\ runs[i] \in RunStates /\ runs[i].saw \in Answers /\ told' = told
      /\ runs[i].saw >= runs[i].generation
  BY DEF IInv, TypeOK, RunStates, Answers, Finish, Settle, RunsSeeTheirGeneration
<1>2. cached' \in Version \cup {None} /\ CacheIsCurrent'
  BY <1>1 DEF IInv, TypeOK, RunStates, CacheIsCurrent, Finish, Keeps
<1> QED
  BY <1>1, <1>2, SettleKeeps DEF Finish

LEMMA RejectKeeps ==
  ASSUME IInv, NEW i \in RunIds, Reject(i)
  PROVE  IInv'
<1>1. told' = told /\ cached' = cached /\ Failed \in Answers
  BY DEF Reject, Settle, Answers
<1>2. cached' \in Version \cup {None} /\ CacheIsCurrent'
  BY <1>1 DEF IInv, TypeOK, CacheIsCurrent
<1> QED
  BY <1>1, <1>2, SettleKeeps DEF Reject

-----------------------------------------------------------------------------
\* What asking again does to a panel: a request on its way is superseded, or
\* one is sent, which no one has handled.
LEMMA RequestedOK ==
  ASSUME IInv, NEW p, PanelOK(p), NEW fresh \in BOOLEAN
  PROVE  /\ PanelOK(Requested(p, fresh))
         /\ Requested(p, fresh).superseded \/ Requested(p, fresh).request.phase = "sent"
<1>1. p \in Clients /\ told \in Nat /\ 0 <= told
  BY Numbers DEF PanelOK, IInv, TypeOK
<1>2. CASE p.request.phase # "idle"
  <2> DEFINE q == [p EXCEPT !.superseded = TRUE, !.queued = TRUE, !.queuedFresh = @ \/ fresh]
  <2>1. Requested(p, fresh) = q
    BY <1>2 DEF Requested
  <2>2. (p.queuedFresh \/ fresh) \in BOOLEAN
    OBVIOUS
  <2>3. q \in Clients /\ q.request = p.request /\ q.superseded = TRUE /\ q.heard = p.heard
    BY <1>1, <2>2 DEF Clients
  <2> HIDE DEF q
  <2> QED
    BY <2>1, <2>3 DEF PanelOK, Newest
<1>3. CASE p.request.phase = "idle"
  <2> DEFINE q == [p EXCEPT !.request = Sent(fresh), !.superseded = FALSE]
  <2>1. Requested(p, fresh) = q
    BY <1>3 DEF Requested
  <2>2. q \in Clients /\ q.request = Sent(fresh) /\ q.heard = p.heard
    BY <1>1, RequestTyped DEF Clients
  <2>3. Sent(fresh).phase = "sent" /\ Sent(fresh).since = 0
    BY RequestTyped
  <2> HIDE DEF q
  <2> QED
    BY <1>1, <2>1, <2>2, <2>3 DEF PanelOK, Newest
<1> QED
  BY <1>2, <1>3

LEMMA ContinuedOK ==
  ASSUME IInv, NEW p, PanelOK(p)
  PROVE  PanelOK(Continued(p)) /\ Continued(p).shown = p.shown
<1>1. p \in Clients /\ told \in Nat /\ 0 <= told
  BY Numbers DEF PanelOK, IInv, TypeOK
<1>2. CASE p.queued
  <2> DEFINE q == [p EXCEPT !.request = Sent(p.queuedFresh), !.superseded = FALSE,
                            !.queued = FALSE, !.queuedFresh = FALSE]
  <2>1. Continued(p) = q
    BY <1>2 DEF Continued
  <2>2. Sent(p.queuedFresh) \in Requests /\ Sent(p.queuedFresh).phase = "sent"
        /\ Sent(p.queuedFresh).since = 0
    BY <1>1, RequestTyped DEF Clients
  <2>3. q \in Clients /\ q.request = Sent(p.queuedFresh) /\ q.heard = p.heard /\ q.shown = p.shown
    BY <1>1, <2>2 DEF Clients
  <2> HIDE DEF q
  <2> QED
    BY <1>1, <2>1, <2>2, <2>3 DEF PanelOK, Newest
<1>3. CASE ~p.queued
  <2> DEFINE q == [p EXCEPT !.request = Idle]
  <2>1. Continued(p) = q
    BY <1>3 DEF Continued
  <2>2. q \in Clients /\ q.request = Idle /\ q.heard = p.heard /\ q.shown = p.shown
    BY <1>1, RequestTyped DEF Clients
  <2>3. Idle.phase = "idle" /\ Idle.since = 0
    BY RequestTyped
  <2> HIDE DEF q
  <2> QED
    BY <1>1, <2>1, <2>2, <2>3 DEF PanelOK, Newest
<1> QED
  BY <1>2, <1>3

\* A step of one panel that leaves the runs as they are.
LEMMA OnePanelMovesAlone ==
  ASSUME IInv, UNCHANGED <<disk, told, cached, runs, running, closed>>,
         NEW c \in Panels, NEW p, panel' = [panel EXCEPT ![c] = p], PanelOK(p)
  PROVE  IInv'
<1>1. PanelOK(p)'
  BY DEF PanelOK, Newest
<1>2. /\ runs' \in [RunIds -> RunStates] /\ RunsSeeTheirGeneration'
      /\ (running \in RunIds \cup {None})' /\ closed' \in BOOLEAN
      /\ (running # None => runs[running].phase # "free")'
  BY DEF IInv, TypeOK, RunsSeeTheirGeneration, ReadersFollowTheirRun
<1> QED
  BY <1>1, <1>2, OnePanelMoves

LEMMA HearRefreshKeeps ==
  ASSUME IInv, NEW c \in Panels, HearRefresh(c)
  PROVE  IInv'
<1> DEFINE q == Requested(panel[c], FALSE)
           p == [q EXCEPT !.heard = told]
<1>1. panel' = [panel EXCEPT ![c] = p]
  BY DEF HearRefresh
<1>2. PanelOK(q) /\ (q.superseded \/ q.request.phase = "sent")
  BY PanelsAreOK, RequestedOK
<1>3. told \in Version /\ told \in Nat /\ told <= told
  BY Numbers DEF IInv, TypeOK
<1> HIDE DEF q
<1>4. p \in Clients /\ p.request = q.request /\ p.heard = told /\ p.superseded = q.superseded
  BY <1>2, <1>3 DEF PanelOK, Clients
<1> HIDE DEF p
<1>5. PanelOK(p)
  BY <1>2, <1>3, <1>4 DEF PanelOK, Newest
<1> QED
  BY <1>1, <1>5, OnePanelMovesAlone DEF HearRefresh, server

LEMMA CheckAgainKeeps ==
  ASSUME IInv, NEW c \in Panels, CheckAgain(c)
  PROVE  IInv'
<1> DEFINE p == Requested(panel[c], TRUE)
<1>1. panel' = [panel EXCEPT ![c] = p]
  BY DEF CheckAgain
<1>2. PanelOK(p)
  BY PanelsAreOK, RequestedOK
<1> HIDE DEF p
<1> QED
  BY <1>1, <1>2, OnePanelMovesAlone DEF CheckAgain, server

\* What a panel renders saw every save it had heard of.
LEMMA RenderKeeps ==
  ASSUME IInv, NEW c \in Panels, Render(c)
  PROVE  /\ IInv'
         /\ \A d \in Panels :
              panel'[d].shown # panel[d].shown =>
                /\ panel'[d].shown = panel[d].request.answer
                /\ panel[d].request.phase = "answered" /\ Newest(panel[d])
<1> DEFINE p == panel[c]
           seen == IF Newest(p) THEN [p EXCEPT !.shown = p.request.answer] ELSE p
<1>1. panel' = [panel EXCEPT ![c] = Continued(seen)] /\ p.request.phase = "answered"
  BY DEF Render
<1>2. PanelOK(p) /\ p \in Clients
  BY PanelsAreOK DEF PanelOK
<1>3. /\ seen \in Clients /\ seen.request = p.request /\ seen.heard = p.heard
      /\ seen.superseded = p.superseded
      /\ seen.shown # p.shown => Newest(p) /\ seen.shown = p.request.answer
  BY <1>2 DEF Clients, Requests
<1> HIDE DEF seen
<1>4. PanelOK(seen)
  BY <1>2, <1>3 DEF PanelOK, Newest
<1>5. PanelOK(Continued(seen)) /\ Continued(seen).shown = seen.shown
  BY <1>4, ContinuedOK
<1>6. IInv'
  BY <1>1, <1>5, OnePanelMovesAlone DEF Render, server
<1>7. panel'[c] = Continued(seen) /\ \A d \in Panels \ {c} : panel'[d] = panel[d]
  BY <1>1 DEF IInv, TypeOK
<1> QED
  BY <1>1, <1>3, <1>5, <1>6, <1>7

-----------------------------------------------------------------------------
\* A read joins what may be shared, is answered from the cache, or starts a run.
LEMMA ServeKeeps ==
  ASSUME IInv, NEW c \in Panels, Serve(c)
  PROVE  IInv'
<1> DEFINE p == panel[c]
           req == p.request
           joined(i) == [req EXCEPT !.phase = "joined", !.run = i, !.since = told]
           answered == [req EXCEPT !.phase = "answered", !.answer = cached, !.since = told]
           with(r) == [p EXCEPT !.request = r]
<1>1. PanelOK(p) /\ p \in Clients /\ req \in Requests /\ panel \in [Panels -> Clients]
  BY PanelsAreOK DEF PanelOK, Clients, IInv, TypeOK
<1>2. told \in Version /\ told \in Nat /\ runs \in [RunIds -> RunStates]
      /\ UNCHANGED <<disk, told, cached, closed>> /\ closed' \in BOOLEAN
  BY Numbers DEF IInv, TypeOK, Serve
<1>3. p.heard <= told /\ p.heard \in Nat
  BY <1>1, Numbers DEF PanelOK, Clients
<1>4. CASE Joins(req.fresh) /\ panel' = [panel EXCEPT ![c].request = joined(running)]
           /\ UNCHANGED <<runs, running>>
  <2>1. running \in RunIds /\ runs[running].phase # "free"
        /\ (runs[running].phase # "waiting" => runs[running].generation = told)
    BY <1>4 DEF Joins, IInv, TypeOK, ReadersFollowTheirRun
  <2>2. joined(running) \in Requests /\ joined(running).phase = "joined"
        /\ joined(running).run = running /\ joined(running).since = told
    BY <1>1, <1>2, <2>1 DEF Requests
  <2>3. panel' = [panel EXCEPT ![c] = with(joined(running))]
    BY <1>1, <1>4
  <2> HIDE DEF joined
  <2>4. with(joined(running)) \in Clients /\ with(joined(running)).request = joined(running)
        /\ with(joined(running)).heard = p.heard
    BY <1>1, <2>2 DEF Clients
  <2> HIDE DEF with
  <2>5. PanelOK(with(joined(running)))
    BY <1>2, <1>3, <2>1, <2>2, <2>4 DEF PanelOK, Newest
  <2> QED
    BY <1>2, <1>4, <2>3, <2>5, OnePanelMovesAlone
<1>5. CASE ServesCache(req.fresh) /\ panel' = [panel EXCEPT ![c].request = answered]
           /\ UNCHANGED <<runs, running>>
  <2>1. cached \in Version /\ cached >= told
    BY <1>5 DEF ServesCache, IInv, TypeOK, CacheIsCurrent
  <2>2. answered \in Requests /\ answered.phase = "answered"
        /\ answered.answer = cached /\ answered.since = told
    BY <1>1, <1>2, <2>1 DEF Requests, Answers
  <2>3. panel' = [panel EXCEPT ![c] = with(answered)]
    BY <1>1, <1>5
  <2> HIDE DEF answered
  <2>4. with(answered) \in Clients /\ with(answered).request = answered
        /\ with(answered).heard = p.heard
    BY <1>1, <2>2 DEF Clients
  <2> HIDE DEF with
  <2>5. PanelOK(with(answered))
    BY <1>2, <1>3, <2>1, <2>2, <2>4 DEF PanelOK, Newest
  <2> QED
    BY <1>2, <1>5, <2>3, <2>5, OnePanelMovesAlone
<1>6. ASSUME NEW i \in RunIds \ InFlight,
             running' = i, panel' = [panel EXCEPT ![c].request = joined(i)],
             runs' = [runs EXCEPT ![i] = IF wave THEN [Free EXCEPT !.phase = "waiting"]
                                         ELSE Started(Free)]
      PROVE  IInv'
  <2> DEFINE new == IF wave THEN [Free EXCEPT !.phase = "waiting"] ELSE Started(Free)
  <2>1. new \in RunStates /\ new.phase \in {"waiting", "loading"} /\ new.generation <= told
        /\ (new.phase # "waiting" => new.generation = told)
    <3>1. Free \in RunStates /\ Free.generation = 0 /\ 0 <= told
      BY <1>2, RequestTyped
    <3> HIDE DEF new
    <3>2. CASE wave
      <4>1. new = [Free EXCEPT !.phase = "waiting"]
        BY <3>2 DEF new
      <4>2. new \in RunStates /\ new.phase = "waiting" /\ new.generation = 0
        BY <3>1, <4>1 DEF RunStates
      <4> QED
        BY <3>1, <4>2
    <3>3. CASE ~wave
      <4>1. new = [Free EXCEPT !.phase = "loading", !.generation = told]
        BY <3>3 DEF new, Started
      <4>2. new \in RunStates /\ new.phase = "loading" /\ new.generation = told
        BY <1>2, <3>1, <4>1 DEF RunStates
      <4> QED
        BY <1>2, <4>2
    <3> QED
      BY <3>2, <3>3
  <2>2. runs[i].phase = "free" /\ i \in RunIds
    BY DEF InFlight
  <2>3. runs' \in [RunIds -> RunStates] /\ runs'[i] = new /\ \A j \in RunIds \ {i} : runs'[j] = runs[j]
    BY <1>2, <1>6, <2>1
  <2> HIDE DEF new
  <2>4. RunsSeeTheirGeneration'
    BY <1>2, <2>1, <2>3 DEF IInv, RunsSeeTheirGeneration
  <2>5. \A j \in RunIds : runs[j].phase # "free" => runs'[j] = runs[j]
    BY <2>2, <2>3
  <2>6. joined(i) \in Requests /\ joined(i).phase = "joined"
        /\ joined(i).run = i /\ joined(i).since = told
    BY <1>1, <1>2, <2>2 DEF Requests
  <2>7. panel' = [panel EXCEPT ![c] = with(joined(i))]
    BY <1>1, <1>6
  <2> HIDE DEF joined
  <2>11. with(joined(i)) \in Clients /\ with(joined(i)).request = joined(i)
         /\ with(joined(i)).heard = p.heard
    BY <1>1, <2>6 DEF Clients
  <2> HIDE DEF with
  <2>8. PICK q \in Clients : /\ q = with(joined(i)) /\ q.request = joined(i)
                             /\ q.heard = p.heard
    BY <2>11
  <2>9. PanelOK(q)'
    BY <1>2, <1>3, <2>1, <2>2, <2>3, <2>6, <2>8 DEF PanelOK, Newest
  <2>10. running' \in RunIds \cup {None} /\ runs'[running'].phase # "free"
    BY <1>6, <2>1, <2>2, <2>3
  <2> QED
    BY <1>2, <2>3, <2>4, <2>5, <2>7, <2>8, <2>9, <2>10, OnePanelMoves
<1> QED
  <2>1. \/ Joins(req.fresh) /\ panel' = [panel EXCEPT ![c].request = joined(running)]
           /\ UNCHANGED <<runs, running>>
        \/ ServesCache(req.fresh) /\ panel' = [panel EXCEPT ![c].request = answered]
           /\ UNCHANGED <<runs, running>>
        \/ \E i \in RunIds \ InFlight :
             /\ running' = i /\ panel' = [panel EXCEPT ![c].request = joined(i)]
             /\ runs' = [runs EXCEPT ![i] = IF wave THEN [Free EXCEPT !.phase = "waiting"]
                                            ELSE Started(Free)]
    BY DEF Serve
  <2> HIDE DEF joined, answered
  <2> QED
    BY <1>4, <1>5, <1>6, <2>1

-----------------------------------------------------------------------------
\* Only a response that is rendered changes what a panel shows.
LEMMA OnlyRenderShows ==
  ASSUME IInv, Next, NEW d \in Panels, panel'[d].shown # panel[d].shown
  PROVE  \E c \in Panels : Render(c)
<1>1. panel \in [Panels -> Clients]
  BY DEF IInv, TypeOK
<1>2. \A p \in Clients, fresh \in BOOLEAN :
        Requested(p, fresh) \in Clients /\ Requested(p, fresh).shown = p.shown
  <2> SUFFICES ASSUME NEW p \in Clients, NEW fresh \in BOOLEAN
               PROVE  Requested(p, fresh) \in Clients /\ Requested(p, fresh).shown = p.shown
    OBVIOUS
  <2>1. (p.queuedFresh \/ fresh) \in BOOLEAN /\ Sent(fresh) \in Requests
    BY RequestTyped
  <2> QED
    BY <2>1 DEF Requested, Clients
<1>3. ASSUME NEW c \in Panels, HearRefresh(c) PROVE FALSE
  <2> DEFINE q == Requested(panel[c], FALSE)
  <2>1. q \in Clients /\ q.shown = panel[c].shown
    BY <1>1, <1>2
  <2>2. panel' = [panel EXCEPT ![c] = [q EXCEPT !.heard = told]]
    BY <1>3 DEF HearRefresh
  <2> HIDE DEF q
  <2>3. [q EXCEPT !.heard = told].shown = panel[c].shown
    BY <2>1 DEF Clients
  <2> QED
    BY <1>1, <2>2, <2>3
<1>4. ASSUME NEW c \in Panels, CheckAgain(c) PROVE FALSE
  <2>1. panel' = [panel EXCEPT ![c] = Requested(panel[c], TRUE)]
        /\ Requested(panel[c], TRUE).shown = panel[c].shown
    BY <1>1, <1>2, <1>4 DEF CheckAgain
  <2> QED
    BY <1>1, <2>1
<1>5. ASSUME NEW c \in Panels, Serve(c) PROVE FALSE
  <2>1. PICK r : panel' = [panel EXCEPT ![c].request = r]
    BY <1>5 DEF Serve
  <2>2. [panel[c] EXCEPT !.request = r].shown = panel[c].shown
    BY <1>1 DEF Clients
  <2> QED
    BY <1>1, <2>1, <2>2
<1>6. ASSUME NEW i \in RunIds, NEW result, Settle(i, result) PROVE FALSE
  <2>1. CASE panel[d].request.phase = "joined" /\ panel[d].request.run = i
    <3>1. panel'[d] = [panel[d] EXCEPT !.request.phase = "answered",
                         !.request.run = None, !.request.answer = result]
      BY <1>6, <2>1 DEF Settle
    <3> QED
      BY <1>1, <3>1 DEF Clients
  <2>2. CASE ~(panel[d].request.phase = "joined" /\ panel[d].request.run = i)
    <3>1. panel'[d] = panel[d]
      BY <1>6, <2>2 DEF Settle
    <3> QED
      BY <3>1
  <2> QED
    BY <2>1, <2>2
<1>7. ASSUME NEW i \in RunIds, TakeBrowser(i) \/ Measure(i) \/ Finish(i) \/ Reject(i)
      PROVE  FALSE
  BY <1>6, <1>7 DEF TakeBrowser, Measure, Finish, Reject, client
<1>8. CASE Save \/ FileEvent \/ TimerFires \/ Close
  BY <1>8 DEF Save, FileEvent, TimerFires, Close, client
<1>9. ASSUME NEW c \in Panels, Connect(c) \/ Drop(c) PROVE FALSE
  BY <1>9 DEF Connect, Drop
<1> QED
  BY <1>3, <1>4, <1>5, <1>7, <1>8, <1>9 DEF Next

LEMMA NextKeeps ==
  ASSUME IInv, [Next]_vars
  PROVE  IInv'
<1>1. CASE UNCHANGED vars
  BY <1>1 DEF vars, server, client, IInv, TypeOK, CacheIsCurrent, RunsSeeTheirGeneration,
     ReadersFollowTheirRun, NewestIsAfterHeard, ReaderSeesTheSave, Newest
<1>2. ASSUME NEW c \in Panels, Connect(c) \/ Drop(c)
      PROVE  IInv'
  BY <1>2 DEF Connect, Drop, server, IInv, TypeOK, CacheIsCurrent, RunsSeeTheirGeneration,
     ReadersFollowTheirRun, NewestIsAfterHeard, ReaderSeesTheSave, Newest
<1>3. ASSUME NEW c \in Panels, Serve(c) \/ HearRefresh(c) \/ CheckAgain(c) \/ Render(c)
      PROVE  IInv'
  BY <1>3, ServeKeeps, HearRefreshKeeps, CheckAgainKeeps, RenderKeeps
<1>4. ASSUME NEW i \in RunIds, TakeBrowser(i) \/ Measure(i) \/ Finish(i) \/ Reject(i)
      PROVE  IInv'
  BY <1>4, TakeBrowserKeeps, MeasureKeeps, FinishKeeps, RejectKeeps
<1>5. CASE Save \/ FileEvent \/ TimerFires \/ Close
  BY <1>5, SaveKeeps, FileEventKeeps, TimerFiresKeeps, CloseKeeps
<1> QED
  BY <1>1, <1>2, <1>3, <1>4, <1>5 DEF Next

\* The overlay's inductive invariant holds of every behavior, for any number of
\* panels, saves and presses of "Check again".
THEOREM Invariance == Spec => []IInv
<1> QED
  BY InitHolds, NextKeeps, PTL DEF Spec

\* No read is answered with a result older than what the watcher had reported
\* when the server handled the read (surfaces/overlay-host.ts: the cache, the
\* joined run and the run that waits out a wave).
THEOREM ReadersSeeTheSave == Spec => []ReaderSeesTheSave
<1>1. IInv => ReaderSeesTheSave
  BY DEF IInv
<1> QED
  BY <1>1, Invariance, PTL

\* A panel never renders a result older than a save it has heard of
\* (surfaces/overlay-client.ts: superseded requests are not rendered).
THEOREM NoPanelGoesBack == Spec => PanelNeverGoesBack
<1> DEFINE Forward == \A c \in Panels :
      (panel'[c].shown # panel[c].shown /\ panel'[c].shown \in Version)
        => panel'[c].shown >= panel[c].heard
<1>1. ASSUME IInv, Next PROVE Forward
  <2> SUFFICES ASSUME NEW d \in Panels, panel'[d].shown # panel[d].shown, panel'[d].shown \in Version
               PROVE  panel'[d].shown >= panel[d].heard
    OBVIOUS
  <2>1. PICK c \in Panels : Render(c)
    BY <1>1, OnlyRenderShows
  <2>2. /\ panel'[d].shown = panel[d].request.answer
        /\ panel[d].request.phase = "answered" /\ Newest(panel[d])
    BY <1>1, <2>1, RenderKeeps
  <2>3. PanelOK(panel[d])
    BY <1>1, PanelsAreOK
  <2>4. panel[d].request.answer # Failed
    BY <2>2, Numbers
  <2>5. panel[d].request.answer >= panel[d].request.since /\ panel[d].request.since >= panel[d].heard
    BY <2>2, <2>3, <2>4 DEF PanelOK
  <2>6. panel[d].request.answer \in Nat /\ panel[d].request.since \in Nat /\ panel[d].heard \in Nat
    BY <2>3, Numbers DEF PanelOK, Clients, Requests
  <2> QED
    BY <2>2, <2>5, <2>6
<1>2. IInv /\ [Next]_vars => [Forward]_vars
  BY <1>1
<1>3. Spec => [][Forward]_vars
  BY <1>2, Invariance, PTL DEF Spec
<1> QED
  BY <1>3 DEF PanelNeverGoesBack

-----------------------------------------------------------------------------
(* ---------------------------- SharedBrowser ---------------------------- *)

\* The processes that were launched.
Launched == {p \in Processes : process[p].state # "new"}

Calls == [pc : {"idle", "acquire", "discarding", "waiting", "context", "page",
                "dropping", "open", "failed"},
          on : Processes \cup {NoProcess},
          error : {"none", "refused", "closed", "crashed", "context", "page"}]

BrowserTypeOK ==
  /\ process \in [Processes -> [state : {"new", "up", "gone"}, sandboxed : BOOLEAN,
                                failures : Nat]]
  /\ streak \in [Processes -> Nat]
  /\ current \in Processes \cup {NoProcess}
  /\ ending \in Processes \cup {NoProcess}
  /\ launching \in {"no", "auto", "require"}
  /\ browserClosed \in BOOLEAN
  /\ closing \in {"no", "waiting", "ending", "done"}
  /\ open \in [Opens -> Calls]

\* Nobody launches while a process is in use.
LaunchIsNeeded == launching # "no" => current = NoProcess

CloseIsUnderWay == closing # "no" => browserClosed

\* What is in use, or asked for a page, was launched.
OnLaunched ==
  /\ current \in Launched \cup {NoProcess}
  /\ ending \in Launched \cup {NoProcess}
  /\ \A o \in Opens : open[o].pc \in {"context", "page", "dropping"}
                        => open[o].on \in Launched

\* The count beside a process is its own: the contexts in a row it refused.
CountIsStreak ==
  \A p \in Processes : /\ process[p].failures = streak[p]
                       /\ process[p].state = "new" => streak[p] = 0

BrowserInv ==
  /\ BrowserTypeOK
  /\ LaunchIsNeeded
  /\ CloseIsUnderWay
  /\ OnLaunched
  /\ CountIsStreak
  /\ NoOrphan

-----------------------------------------------------------------------------
LEMMA ProcessesAreNumbers ==
  /\ Processes \subseteq Nat \ {0}
  /\ NoProcess \notin Processes
  BY SharedBrowserAssumption DEF Processes, NoProcess

LEMMA CallTyped ==
  /\ \A pc \in {"idle", "acquire", "discarding", "waiting", "context", "page", "dropping", "open"} :
       \A p \in Processes \cup {NoProcess} : At(pc, p) \in Calls /\ At(pc, p).pc = pc /\ At(pc, p).on = p
  /\ \A e \in {"refused", "closed", "crashed", "context", "page"} :
       FailedOpen(e) \in Calls /\ FailedOpen(e).pc = "failed"
  /\ IdleOpen \in Calls /\ IdleOpen.pc = "idle"
  BY DEF At, FailedOpen, IdleOpen, Calls

LEMMA BrowserInitHolds == BrowserInit => BrowserInv
<1> SUFFICES ASSUME BrowserInit PROVE BrowserInv
  OBVIOUS
<1>1. /\ current = NoProcess /\ ending = NoProcess /\ launching = "no" /\ closing = "no" /\ browserClosed = FALSE
      /\ open = [o \in Opens |-> IdleOpen] /\ streak = [p \in Processes |-> 0]
      /\ process = [p \in Processes |-> [state |-> "new", sandboxed |-> FALSE, failures |-> 0]]
  BY DEF BrowserInit
<1>2. \A p \in Processes : /\ process[p].state = "new" /\ process[p].failures = 0
                           /\ streak[p] = 0
  BY <1>1
<1>3. BrowserTypeOK
  BY <1>1, CallTyped DEF BrowserTypeOK
<1>4. \A o \in Opens : open[o].pc = "idle"
  BY <1>1, CallTyped
<1> QED
  BY <1>1, <1>2, <1>3, <1>4 DEF BrowserInv, LaunchIsNeeded, CloseIsUnderWay, OnLaunched, CountIsStreak,
                                NoOrphan, Live

\* One call moves, and may forget the process in use: a dead one, or one that it
\* closes from now on.
LEMMA CallKeeps ==
  ASSUME BrowserInv, BrowserTypeOK', CountIsStreak', NEW o \in Opens, NEW call \in Calls,
         open' = [open EXCEPT ![o] = call], open[o].pc # "dropping",
         \A p \in Processes : process'[p].state = process[p].state,
         UNCHANGED <<browserClosed, closing, ending>>,
         launching' # "no" => current' = NoProcess,
         call.pc \in {"context", "page", "dropping"} => call.on \in Launched,
         \/ current' = current
         \/ current' = NoProcess /\ ~Live(current)
         \/ current' = NoProcess /\ call.pc = "dropping" /\ call.on = current
  PROVE  BrowserInv'
<1>1. BrowserTypeOK /\ OnLaunched /\ NoOrphan
  BY DEF BrowserInv
<1>2. open'[o] = call /\ \A q \in Opens \ {o} : open'[q] = open[q]
  BY <1>1 DEF BrowserTypeOK
<1>3. Launched' = Launched /\ \A p \in Processes : Live(p)' <=> Live(p)
  BY DEF Launched, Live
<1>4. OnLaunched'
  BY <1>1, <1>2, <1>3 DEF OnLaunched
<1>5. NoOrphan'
  BY <1>1, <1>2, <1>3 DEF NoOrphan, Live
<1> QED
  BY <1>4, <1>5 DEF BrowserInv, LaunchIsNeeded, CloseIsUnderWay

\* A process goes; whoever was closing it may be done.
LEMMA GoneKeeps ==
  ASSUME BrowserInv, NEW p \in Processes, process' = [process EXCEPT ![p].state = "gone"],
         p \in Launched,
         UNCHANGED <<streak, current, launching, browserClosed, ending>>,
         closing' = closing \/ (closing = "ending" /\ ending = p /\ closing' = "done"),
         \/ UNCHANGED open
         \/ \E o \in Opens : /\ open[o].pc = "dropping" /\ open[o].on = p
                             /\ open' = [open EXCEPT ![o] = FailedOpen("context")]
  PROVE  BrowserInv'
<1>1. BrowserTypeOK
  BY DEF BrowserInv
<1>2. BrowserTypeOK'
  <2>1. process' \in [Processes -> [state : {"new", "up", "gone"}, sandboxed : BOOLEAN,
                                    failures : Nat]]
    BY <1>1 DEF BrowserTypeOK
  <2>2. open' \in [Opens -> Calls]
    BY <1>1, CallTyped DEF BrowserTypeOK
  <2> QED
    BY <1>1, <2>1, <2>2 DEF BrowserTypeOK
<1>3. /\ process'[p].state = "gone" /\ process'[p].failures = process[p].failures
      /\ \A q \in Processes \ {p} : process'[q] = process[q]
  BY <1>1 DEF BrowserTypeOK
<1>4. Launched' = Launched
  BY <1>3 DEF Launched
<1>5. \A q \in Opens : open'[q] = open[q] \/ (open'[q].pc = "failed" /\ open[q].on = p)
  BY <1>1, CallTyped DEF BrowserTypeOK
<1>6. OnLaunched'
  BY <1>4, <1>5 DEF BrowserInv, OnLaunched
<1>7. NoOrphan'
  <2> SUFFICES ASSUME NEW q \in Processes, Live(q)'
               PROVE  \/ q = current'
                      \/ closing' = "ending" /\ ending' = q
                      \/ \E o \in Opens : open'[o].pc = "dropping" /\ open'[o].on = q
    BY DEF NoOrphan
  <2>1. q # p /\ Live(q)
    BY <1>3 DEF Live
  <2> QED
    BY <1>5, <2>1 DEF BrowserInv, NoOrphan
<1>8. CountIsStreak'
  BY <1>3 DEF BrowserInv, CountIsStreak, Launched
<1> QED
  BY <1>2, <1>6, <1>7, <1>8 DEF BrowserInv, LaunchIsNeeded, CloseIsUnderWay

-----------------------------------------------------------------------------
\* The steps of acquire.
LEMMA AcquireKeeps ==
  ASSUME BrowserInv, NEW o \in Opens,
         Start(o) \/ FindsClosed(o) \/ FindsDead(o) \/ Acquire(o) \/ AcquireAfterDiscard(o)
  PROVE  BrowserInv'
<1>1. BrowserTypeOK /\ OnLaunched /\ LaunchIsNeeded
  BY DEF BrowserInv
<1>2. UNCHANGED <<process, streak, browserClosed, closing, ending>> /\ open[o].pc # "dropping"
  BY DEF Start, FindsClosed, FindsDead, Acquire, AcquireAfterDiscard
<1>3. CountIsStreak'
  BY <1>2 DEF BrowserInv, CountIsStreak
<1>4. CASE Start(o) \/ FindsClosed(o)
  <2>1. PICK call \in {At("acquire", NoProcess), FailedOpen("closed")} : open' = [open EXCEPT ![o] = call]
    BY <1>4 DEF Start, FindsClosed, Becomes
  <2>2. UNCHANGED <<current, launching>>
    BY <1>4 DEF Start, FindsClosed
  <2>3. call \in Calls /\ call.pc \in {"acquire", "failed"}
    BY CallTyped
  <2>4. BrowserTypeOK'
    BY <1>1, <1>2, <2>1, <2>2, <2>3 DEF BrowserTypeOK
  <2> QED
    BY <1>1, <1>2, <1>3, <2>1, <2>2, <2>3, <2>4, CallKeeps DEF LaunchIsNeeded
<1>5. CASE FindsDead(o)
  <2>1. open' = [open EXCEPT ![o] = At("discarding", current)] /\ current' = NoProcess
        /\ ~Live(current) /\ UNCHANGED launching
    BY <1>5 DEF FindsDead, Becomes
  <2>2. At("discarding", current) \in Calls /\ At("discarding", current).pc = "discarding"
    BY <1>1, CallTyped DEF BrowserTypeOK
  <2>3. BrowserTypeOK'
    BY <1>1, <1>2, <2>1, <2>2 DEF BrowserTypeOK
  <2> QED
    BY <1>2, <1>3, <2>1, <2>2, <2>3, CallKeeps
<1>6. CASE Acquire(o) \/ AcquireAfterDiscard(o)
  <2>1. Takes(o) /\ UNCHANGED current
    BY <1>6 DEF Acquire, AcquireAfterDiscard
  <2>2. CASE current # NoProcess /\ Becomes(o, Given(o, current, process[current].sandboxed))
             /\ UNCHANGED launching
    <3>1. PICK call \in {At("context", current), FailedOpen("refused")} : open' = [open EXCEPT ![o] = call]
      BY <2>2 DEF Becomes, Given
    <3>2. call \in Calls /\ (call.pc = "context" => call.on = current) /\ call.pc \in {"context", "failed"}
      BY <1>1, CallTyped DEF BrowserTypeOK
    <3>3. BrowserTypeOK'
      BY <1>1, <1>2, <2>1, <2>2, <3>1, <3>2 DEF BrowserTypeOK
    <3>4. launching' # "no" => current' = NoProcess
      BY <1>1, <2>1, <2>2 DEF LaunchIsNeeded
    <3>5. current \in Launched
      BY <1>1, <2>2 DEF OnLaunched
    <3> QED
      BY <1>2, <1>3, <2>1, <3>1, <3>2, <3>3, <3>4, <3>5, CallKeeps
  <2>3. CASE current = NoProcess /\ JoinsLaunch(o)
    <3>1. open' = [open EXCEPT ![o] = At("waiting", NoProcess)] /\ launching' \in {launching, Policy[o]}
      BY <2>3 DEF JoinsLaunch, Becomes
    <3>2. At("waiting", NoProcess) \in Calls /\ At("waiting", NoProcess).pc = "waiting"
      BY CallTyped
    <3>3. BrowserTypeOK'
      BY <1>1, <1>2, <2>1, <3>1, <3>2, SharedBrowserAssumption DEF BrowserTypeOK
    <3> QED
      BY <1>2, <1>3, <2>1, <2>3, <3>1, <3>2, <3>3, CallKeeps
  <2> QED
    BY <2>1, <2>2, <2>3 DEF Takes
<1> QED
  BY <1>4, <1>5, <1>6

\* Discarding a process drops it only while it is the one in use.
LEMMA DiscardKeeps ==
  ASSUME BrowserInv, NEW o \in Opens, open[o].pc \in {"context", "page"},
         NEW error \in {"context", "page"},
         \/ Discards(o, error)
         \/ Becomes(o, FailedOpen(error)) /\ UNCHANGED current,
         UNCHANGED <<launching, browserClosed, closing, ending>>,
         process' \in [Processes -> [state : {"new", "up", "gone"}, sandboxed : BOOLEAN,
                                     failures : Nat]],
         streak' \in [Processes -> Nat],
         \A p \in Processes : process'[p].state = process[p].state,
         CountIsStreak'
  PROVE  BrowserInv'
<1>1. BrowserTypeOK /\ open[o].on \in Launched /\ Launched \subseteq Processes
  BY DEF BrowserInv, OnLaunched, Launched
<1>2. PICK call \in {At("dropping", open[o].on), FailedOpen(error)} :
        /\ open' = [open EXCEPT ![o] = call]
        /\ \/ current' = current
           \/ current' = NoProcess /\ call = At("dropping", open[o].on) /\ current = open[o].on
  BY DEF Discards, Becomes
<1>3. call \in Calls /\ call.pc \in {"dropping", "failed"}
      /\ (call = At("dropping", open[o].on) => call.pc = "dropping")
      /\ (call.pc = "dropping" => call.on = open[o].on)
  BY <1>1, CallTyped
<1>4. BrowserTypeOK'
  BY <1>1, <1>2, <1>3 DEF BrowserTypeOK
<1>5. launching' # "no" => current' = NoProcess
  BY <1>2 DEF BrowserInv, LaunchIsNeeded
<1> QED
  BY <1>1, <1>2, <1>3, <1>4, <1>5, CallKeeps

\* The steps of openPage on the process it acquired.
LEMMA PageStepsKeep ==
  ASSUME BrowserInv, NEW o \in Opens,
         NewContext(o) \/ NoContext(o) \/ PageReady(o) \/ PageFails(o) \/ Leave(o)
  PROVE  BrowserInv'
<1> DEFINE on == open[o].on
<1>1. BrowserTypeOK /\ OnLaunched /\ LaunchIsNeeded /\ CountIsStreak
  BY DEF BrowserInv
<1>2. UNCHANGED <<launching, browserClosed, closing, ending>>
  BY DEF NewContext, NoContext, PageReady, PageFails, Leave
<1>3. open[o].pc \in {"context", "page"} => on \in Processes /\ process[on].state # "new"
  BY <1>1 DEF OnLaunched, Launched
<1>4. CASE NewContext(o)
  <2>1. /\ open[o].pc = "context" /\ open' = [open EXCEPT ![o] = At("page", on)]
        /\ process' = [process EXCEPT ![on].failures = 0] /\ streak' = [streak EXCEPT ![on] = 0]
        /\ UNCHANGED current
    BY <1>4 DEF NewContext, Becomes
  <2>2. process' \in [Processes -> [state : {"new", "up", "gone"}, sandboxed : BOOLEAN,
                                    failures : Nat]]
        /\ streak' \in [Processes -> Nat]
    BY <1>1, <1>3, <2>1 DEF BrowserTypeOK
  <2>3. \A p \in Processes : process'[p].state = process[p].state
    BY <1>1, <1>3, <2>1 DEF BrowserTypeOK
  <2>4. CountIsStreak'
    BY <1>1, <1>3, <2>1 DEF BrowserTypeOK, CountIsStreak
  <2>5. At("page", on) \in Calls /\ At("page", on).pc = "page" /\ At("page", on).on = on
    BY <1>3, <2>1, CallTyped
  <2>6. BrowserTypeOK'
    BY <1>1, <1>2, <2>1, <2>2, <2>5 DEF BrowserTypeOK
  <2> QED
    BY <1>1, <1>2, <1>3, <2>1, <2>3, <2>4, <2>5, <2>6, CallKeeps DEF LaunchIsNeeded, Launched
<1>5. CASE NoContext(o)
  <2>1. /\ open[o].pc = "context"
        /\ process' = [process EXCEPT ![on].failures = process[on].failures + 1]
        /\ streak' = [streak EXCEPT ![on] = @ + 1]
        /\ Discards(o, "context") \/ (Becomes(o, FailedOpen("context")) /\ UNCHANGED current)
    BY <1>5 DEF NoContext, Charged
  <2>2. process' \in [Processes -> [state : {"new", "up", "gone"}, sandboxed : BOOLEAN,
                                    failures : Nat]]
        /\ streak' \in [Processes -> Nat]
    BY <1>1, <1>3, <2>1 DEF BrowserTypeOK
  <2>3. \A p \in Processes : process'[p].state = process[p].state
    BY <1>1, <1>3, <2>1 DEF BrowserTypeOK
  <2>4. CountIsStreak'
    BY <1>1, <1>3, <2>1 DEF BrowserTypeOK, CountIsStreak
  <2> QED
    BY <1>2, <2>1, <2>2, <2>3, <2>4, DiscardKeeps
<1>6. CASE PageReady(o) \/ Leave(o)
  <2>1. PICK call \in Calls : open' = [open EXCEPT ![o] = call] /\ call.pc \in {"open", "idle"}
    <3>1. CASE PageReady(o)
      <4>1. At("open", on) \in Calls /\ At("open", on).pc = "open"
        BY <1>3, <3>1, CallTyped DEF PageReady
      <4> QED
        BY <3>1, <4>1 DEF PageReady, Becomes
    <3>2. CASE Leave(o)
      BY <3>2, CallTyped DEF Leave, Becomes
    <3> QED
      BY <1>6, <3>1, <3>2
  <2>2. UNCHANGED <<process, streak, current>> /\ open[o].pc # "dropping"
    BY <1>6 DEF PageReady, Leave
  <2>3. call \in Calls /\ call.pc \in {"open", "idle"}
    BY <2>1
  <2>4. BrowserTypeOK' /\ CountIsStreak'
    BY <1>1, <1>2, <2>1, <2>2, <2>3 DEF BrowserTypeOK, CountIsStreak
  <2> QED
    BY <1>1, <1>2, <2>1, <2>2, <2>3, <2>4, CallKeeps DEF LaunchIsNeeded
<1>7. CASE PageFails(o)
  <2>1. /\ open[o].pc = "page" /\ UNCHANGED <<process, streak>>
        /\ Discards(o, "page") \/ (Becomes(o, FailedOpen("page")) /\ UNCHANGED current)
    BY <1>7 DEF PageFails
  <2>2. CountIsStreak'
    BY <1>1, <2>1 DEF CountIsStreak
  <2> QED
    BY <1>1, <1>2, <2>1, <2>2, DiscardKeeps DEF BrowserTypeOK
<1> QED
  BY <1>4, <1>5, <1>6, <1>7

\* A process ends: it was dropped and has closed, it died, or close ended it.
LEMMA EndsKeep ==
  ASSUME BrowserInv, (\E o \in Opens : Dropped(o)) \/ (\E p \in Processes : Dies(p)) \/ Closes
  PROVE  BrowserInv'
<1>1. BrowserTypeOK /\ OnLaunched
  BY DEF BrowserInv
<1>2. ASSUME NEW o \in Opens, Dropped(o) PROVE BrowserInv'
  <2>1. open[o].on \in Launched /\ open[o].on \in Processes
    BY <1>1, <1>2 DEF Dropped, OnLaunched, Launched
  <2> QED
    BY <1>2, <2>1, GoneKeeps DEF Dropped, Becomes
<1>3. ASSUME NEW p \in Processes, Dies(p) PROVE BrowserInv'
  <2>1. p \in Launched
    BY <1>3 DEF Dies, Live, Launched
  <2> QED
    BY <1>3, <2>1, GoneKeeps DEF Dies
<1>4. CASE Closes
  <2>1. closing = "ending" /\ closing' = "done" /\ UNCHANGED <<streak, current, launching, browserClosed, ending, open>>
    BY <1>4 DEF Closes
  <2>2. CASE ending = NoProcess
    <3>1. UNCHANGED process
      BY <1>4, <2>2 DEF Closes
    <3> QED
      BY <1>1, <2>1, <2>2, <3>1, ProcessesAreNumbers
      DEF BrowserInv, BrowserTypeOK, LaunchIsNeeded, CloseIsUnderWay, OnLaunched, Launched, CountIsStreak, NoOrphan, Live
  <2>3. CASE ending # NoProcess
    <3>1. ending \in Processes /\ process' = [process EXCEPT ![ending].state = "gone"]
      BY <1>1, <1>4, <2>3 DEF BrowserTypeOK, Closes
    <3>2. ending \in Launched
      BY <1>1, <2>3 DEF OnLaunched
    <3> QED
      BY <2>1, <3>1, <3>2, GoneKeeps
  <2> QED
    BY <2>2, <2>3
<1> QED
  BY <1>2, <1>3, <1>4

\* Whoever waited for a launch is answered, and close, if it waited too, takes
\* the process.
LEMMA OpenSettleKeeps ==
  ASSUME BrowserInv, launching # "no", NEW p \in Processes \cup {NoProcess}, CloseResumes(p),
         NEW answer \in [Waiting -> Calls],
         open' = [o \in Opens |-> IF o \in Waiting THEN answer[o] ELSE open[o]],
         \A o \in Waiting : answer[o].pc \in {"context", "page", "dropping"}
                              => answer[o].pc = "context" /\ answer[o].on = p /\ p # NoProcess,
         UNCHANGED <<streak, browserClosed>>,
         \/ p = NoProcess /\ UNCHANGED process /\ launching' \in {"no", "auto", "require"}
         \/ /\ p # NoProcess /\ process[p].state = "new" /\ launching' = "no"
            /\ \E sandboxed \in BOOLEAN : process' = [process EXCEPT
                 ![p] = [state |-> "up", sandboxed |-> sandboxed, failures |-> 0]]
  PROVE  BrowserInv'
<1>1. BrowserTypeOK /\ OnLaunched /\ CountIsStreak /\ NoOrphan /\ current = NoProcess /\ CloseIsUnderWay
  BY DEF BrowserInv, LaunchIsNeeded
<1>2. /\ process' \in [Processes -> [state : {"new", "up", "gone"}, sandboxed : BOOLEAN,
                                     failures : Nat]]
      /\ p # NoProcess => process'[p].state = "up" /\ process'[p].failures = 0 /\ p \in Processes
      /\ \A q \in Processes : q # p => process'[q] = process[q]
  BY <1>1, ProcessesAreNumbers DEF BrowserTypeOK
<1>3. /\ closing = "waiting" => closing' = "ending" /\ ending' = p /\ current' = NoProcess
      /\ closing # "waiting" => current' = p /\ UNCHANGED <<closing, ending>>
  BY <1>1 DEF CloseResumes
<1>4. open' \in [Opens -> Calls]
  BY <1>1 DEF BrowserTypeOK, Waiting
<1>5. BrowserTypeOK'
  BY <1>1, <1>2, <1>3, <1>4 DEF BrowserTypeOK
<1>6. Launched \subseteq Launched' /\ (p # NoProcess => p \in Launched')
  BY <1>2 DEF Launched
<1>7. OnLaunched'
  <2>1. \A o \in Opens : open'[o].pc \in {"context", "page", "dropping"} => open'[o].on \in Launched'
    BY <1>1, <1>6 DEF OnLaunched
  <2> QED
    BY <1>1, <1>3, <1>6, <2>1 DEF OnLaunched
<1>8. CountIsStreak'
  BY <1>1, <1>2 DEF CountIsStreak
<1>9. NoOrphan'
  <2> SUFFICES ASSUME NEW q \in Processes, Live(q)'
               PROVE  \/ q = current'
                      \/ closing' = "ending" /\ ending' = q
                      \/ \E o \in Opens : open'[o].pc = "dropping" /\ open'[o].on = q
    BY DEF NoOrphan
  <2>1. CASE q = p
    BY <1>3, <2>1
  <2>2. CASE q # p
    <3>1. Live(q)
      BY <1>2, <2>2 DEF Live
    <3>2. \A o \in Opens : open[o].pc = "dropping" => open'[o] = open[o]
      BY DEF Waiting
    <3> QED
      BY <1>1, <1>3, <3>1, <3>2, ProcessesAreNumbers DEF NoOrphan
  <2> QED
    BY <2>1, <2>2
<1>10. LaunchIsNeeded' /\ CloseIsUnderWay'
  BY <1>1, <1>3 DEF LaunchIsNeeded, CloseIsUnderWay
<1> QED
  BY <1>5, <1>7, <1>8, <1>9, <1>10 DEF BrowserInv

LEMMA LaunchKeeps == BrowserInv /\ LaunchSteps => BrowserInv'
<1> SUFFICES ASSUME BrowserInv, LaunchSteps PROVE BrowserInv'
  OBVIOUS
<1>1. ASSUME NEW p \in Processes, LaunchUp(p) PROVE BrowserInv'
  <2>1. PICK sandboxed \in BOOLEAN :
          /\ launching = "auto" \/ (launching = "require" /\ sandboxed)
          /\ process[p].state = "new"
          /\ process' = [process EXCEPT
               ![p] = [state |-> "up", sandboxed |-> sandboxed, failures |-> 0]]
          /\ launching' = "no"
          /\ open' = [o \in Opens |->
               IF o \in Waiting
               THEN IF browserClosed THEN FailedOpen("closed") ELSE Given(o, p, sandboxed)
               ELSE open[o]]
          /\ CloseResumes(p)
          /\ UNCHANGED <<mortal, streak, browserClosed>>
    BY <1>1 DEF LaunchUp
  <2> DEFINE answer == [o \in Waiting |-> IF browserClosed THEN FailedOpen("closed") ELSE Given(o, p, sandboxed)]
  <2>2. ASSUME NEW o \in Waiting
        PROVE  /\ answer[o] \in Calls /\ answer[o].pc \in {"context", "failed"}
               /\ answer[o].pc = "context" => answer[o].on = p
    BY CallTyped DEF Given
  <2>3. answer \in [Waiting -> Calls]
    BY <2>2
  <2>4. open' = [o \in Opens |-> IF o \in Waiting THEN answer[o] ELSE open[o]]
    BY <2>1
  <2> HIDE DEF answer
  <2> QED
    BY <2>1, <2>2, <2>3, <2>4, ProcessesAreNumbers, OpenSettleKeeps
<1>2. CASE LaunchCrashes
  <2> DEFINE answer == [o \in Waiting |-> FailedOpen("crashed")]
  <2>1. answer \in [Waiting -> Calls] /\ \A o \in Waiting : answer[o].pc = "failed"
    BY CallTyped
  <2>2. open' = [o \in Opens |-> IF o \in Waiting THEN answer[o] ELSE open[o]]
    BY <1>2 DEF LaunchCrashes
  <2> HIDE DEF answer
  <2> QED
    BY <1>2, <2>1, <2>2, OpenSettleKeeps DEF LaunchCrashes
<1>3. CASE LaunchRefused
  <2> DEFINE answer == [o \in Waiting |-> RefusedLaunch(o)]
  <2>1. ASSUME NEW o \in Waiting
        PROVE  answer[o] \in Calls /\ answer[o].pc \in {"failed", "waiting"}
    <3>1. Policy[o] \in {"auto", "require"} /\ browserClosed \in BOOLEAN
      BY SharedBrowserAssumption DEF Waiting, BrowserInv, BrowserTypeOK
    <3>2. RefusedLaunch(o) \in {FailedOpen("refused"), FailedOpen("closed"), At("waiting", NoProcess)}
      BY <3>1 DEF RefusedLaunch
    <3> QED
      BY <3>2, CallTyped
  <2>2. answer \in [Waiting -> Calls]
    BY <2>1
  <2>3. open' = [o \in Opens |-> IF o \in Waiting THEN answer[o] ELSE open[o]]
    BY <1>3 DEF LaunchRefused
  <2> HIDE DEF answer
  <2>4. launching' \in {"no", "auto", "require"} /\ launching # "no"
    BY <1>3 DEF LaunchRefused
  <2> QED
    BY <1>3, <2>1, <2>2, <2>3, <2>4, OpenSettleKeeps DEF LaunchRefused
<1> QED
  BY <1>1, <1>2, <1>3 DEF LaunchSteps

LEMMA CloseBrowserKeeps == BrowserInv /\ CloseBrowser => BrowserInv'
<1> SUFFICES ASSUME BrowserInv, CloseBrowser PROVE BrowserInv'
  OBVIOUS
<1>1. /\ ~browserClosed /\ browserClosed' = TRUE /\ UNCHANGED <<process, streak, launching, open>>
      /\ \/ closing' = "waiting" /\ UNCHANGED <<ending, current>>
         \/ closing' = "ending" /\ ending' = current /\ current' = NoProcess
  BY DEF CloseBrowser
<1>2. closing = "no"
  BY <1>1 DEF BrowserInv, CloseIsUnderWay
<1> QED
  BY <1>1, <1>2, ProcessesAreNumbers
  DEF BrowserInv, BrowserTypeOK, LaunchIsNeeded, CloseIsUnderWay, OnLaunched, Launched, CountIsStreak, NoOrphan, Live

LEMMA BrowserNextKeeps == BrowserInv /\ [BrowserNext]_browserVars => BrowserInv'
<1> SUFFICES ASSUME BrowserInv, [BrowserNext]_browserVars PROVE BrowserInv'
  OBVIOUS
<1>1. CASE UNCHANGED browserVars
  BY <1>1 DEF browserVars, BrowserInv, BrowserTypeOK, LaunchIsNeeded, CloseIsUnderWay, OnLaunched, Launched,
              CountIsStreak, NoOrphan, Live
<1>2. CASE BrowserNext
  BY <1>2, AcquireKeeps, PageStepsKeep, EndsKeep, LaunchKeeps, CloseBrowserKeeps DEF BrowserNext, OpenSteps
<1> QED
  BY <1>1, <1>2

\* The shared browser's inductive invariant holds of every behavior, for any
\* number of opens, processes and refusals in a row.
THEOREM BrowserInvariance == BrowserSpec => []BrowserInv
  BY BrowserInitHolds, BrowserNextKeeps, PTL DEF BrowserSpec

\* No open, launch or close leaves a browser process behind that is neither in
\* use nor being closed (deps/real.ts, makeSharedBrowser).
THEOREM BrowserNoOrphan == BrowserSpec => []NoOrphan
  BY BrowserInvariance, PTL DEF BrowserInv

-----------------------------------------------------------------------------
\* A process stops being the one in use when it died, refused too often, or the
\* browser was closed.
GivenUp(p) == ~Live(p) \/ streak'[p] >= MaxContextFailures \/ browserClosed'

LEMMA StepGivesUp ==
  ASSUME BrowserInv, [BrowserNext]_browserVars, NEW p \in Processes, current = p, current' # p
  PROVE  GivenUp(p)
<1> USE DEF GivenUp
<1>1. BrowserTypeOK /\ CountIsStreak /\ OnLaunched /\ LaunchIsNeeded /\ CloseIsUnderWay /\ current # NoProcess
  BY ProcessesAreNumbers DEF BrowserInv
<1>2. launching = "no"
  BY <1>1 DEF LaunchIsNeeded
<1>3. ~LaunchSteps
  BY <1>2 DEF LaunchSteps, LaunchUp, LaunchCrashes, LaunchRefused
<1>4. ~UNCHANGED current
  OBVIOUS
<1>5. CloseBrowser \/ \E o \in Opens : FindsDead(o) \/ NoContext(o) \/ PageFails(o)
  BY <1>3, <1>4 DEF BrowserNext, OpenSteps, Start, FindsClosed, Acquire, AcquireAfterDiscard, NewContext,
                    PageReady, Dropped, Leave, Closes, Dies, browserVars
<1>6. ASSUME NEW o \in Opens, FindsDead(o) PROVE GivenUp(p)
  BY <1>6 DEF FindsDead
<1>7. ASSUME NEW o \in Opens, NoContext(o) PROVE GivenUp(p)
  <2>1. open[o].on = p /\ open[o].pc = "context"
    BY <1>7 DEF NoContext, Discards
  <2>2. ~Live(p) \/ process[p].failures + 1 >= MaxContextFailures
    BY <1>7, <2>1 DEF NoContext, Charged
  <2>3. streak'[p] = process[p].failures + 1
    BY <1>1, <1>7, <2>1 DEF NoContext, CountIsStreak, BrowserTypeOK
  <2> QED
    BY <2>2, <2>3
<1>8. ASSUME NEW o \in Opens, PageFails(o) PROVE GivenUp(p)
  BY <1>8 DEF PageFails, Discards
<1>9. CASE CloseBrowser
  BY <1>9 DEF CloseBrowser
<1> QED
  BY <1>5, <1>6, <1>7, <1>8, <1>9

\* A browser process that works is not given up: only its own death, its own
\* refusals in a row or the close of the browser take it out of use, however
\* late an open on a replaced process settles (deps/real.ts, discard).
THEOREM HealthyBrowserIsKept == BrowserSpec => HealthyIsKept
<1>1. BrowserInv /\ [BrowserNext]_browserVars =>
        [\A p \in Processes : (current = p /\ current' # p) =>
           \/ ~Live(p)
           \/ streak'[p] >= MaxContextFailures
           \/ browserClosed']_browserVars
  BY StepGivesUp DEF GivenUp
<1> QED
  BY <1>1, BrowserInvariance, PTL DEF BrowserSpec, HealthyIsKept
=============================================================================
