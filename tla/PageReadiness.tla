--------------------------- MODULE PageReadiness ---------------------------
(***************************************************************************)
(* A page that goes on changing, and the wait that decides it has rendered *)
(* (src/deps/real.ts: the network and worker trackers, waitForRendered).   *)
(* The application sends requests, answers arrive, the document is         *)
(* replaced and a service worker installs, all beside the wait.  The rules *)
(* that read what the page recorded (reachability.ts, redirected.ts) are   *)
(* operators over the same record.                                         *)
(***************************************************************************)
EXTENDS Naturals, Sequences, FiniteSets

CONSTANTS
  AppAddrs,       \* data addresses on the application's own host
  Declared,       \* those on the path a surface declares as reachedWhen.response
  Samples,        \* SETTLE_SAMPLES_REQUIRED
  QuietWindow,    \* NETWORK_QUIET_WINDOW_MS, in sleeps of the wait
  Budget,         \* readyTimeoutMs, in sleeps
  Cap,            \* signalTimeoutMs, in sleeps
  MaxMoves        \* bound on what the application does by itself

ASSUME ReadinessAssumption ==
  /\ Declared \subseteq AppAddrs
  /\ Samples \in Nat \ {0} /\ QuietWindow \in Nat /\ Budget \in Nat
  /\ Cap \in Nat /\ MaxMoves \in Nat

VARIABLES
  world,   \* what does not change: caller, session, signal, isolated, and
           \* which part of the page is restless (a bound of the instance)
  dom,     \* the document: what it shows and its element count
  net,     \* requests in flight, the data record, the quiet time, the walk mark
  moves,   \* changes the application has still to make
  wait     \* the locals of waitForRendered

pageVars == <<dom, net, moves>>

NoCap == Cap + 1
Shows == {"shell", "screen", "signin"}
Sizes == 1..2
\* "lost" leaves no data record: a failed request, or one that is not data.
Kinds == {"ok", "html", "refused", "lost"}

\* The shell has none of the screen's content; a sign-in page has an address of
\* its own and a password field.
Password(shows) == shows = "signin"
Away(shows) == shows = "signin"
Matches(shows) == shows = "screen"

Worlds ==
  [caller: {"cli", "checkPage"}, session: {"none", "good", "expired"},
   signal: {"none", "selector", "response", "both"}, isolated: BOOLEAN,
   restless: {"page", "frames", "keys", "workers", "faults"}]

DeclaresSelector == world.signal \in {"selector", "both"}
DeclaresResponse == world.signal \in {"response", "both"}

(* ------------------------- the trackers ------------------------------- *)

Busy == net.open # {} \/ net.installing
Quiet == ~Busy /\ net.idle >= QuietWindow

\* The count reached zero: idleness starts now.
Settled(n) == IF n.open = {} /\ ~n.installing THEN [n EXCEPT !.idle = 0] ELSE n

Request(a) == [addr |-> a, early |-> ~net.marked]

Send(a) ==
  /\ moves > 0 /\ Request(a) \notin net.open
  /\ net' = [net EXCEPT !.open = @ \cup {Request(a)}]
  /\ moves' = moves - 1
  /\ UNCHANGED dom

\* A redirect hop is a new request; the record keeps the first one's place.
Redirect(r, a) ==
  /\ moves > 0 /\ r \in net.open /\ [r EXCEPT !.addr = a] \notin net.open
  /\ net' = [net EXCEPT !.open = (@ \ {r}) \cup {[r EXCEPT !.addr = a]}]
  /\ moves' = moves - 1
  /\ UNCHANGED dom

RefusedOnce(a) == \E i \in DOMAIN net.log : net.log[i].addr = a /\ net.log[i].kind = "refused"

\* A server does not answer an expired session with data, except to an
\* anonymous retry of an address it has just refused.
CanAnswer(a, kind) == world.session = "expired" /\ kind = "ok" => RefusedOnce(a)

Answer(r, kind) ==
  /\ r \in net.open /\ CanAnswer(r.addr, kind)
  /\ LET entry == [addr |-> r.addr, kind |-> kind, early |-> r.early]
         log == IF kind = "lost" THEN net.log ELSE Append(net.log, entry)
     IN net' = Settled([net EXCEPT !.open = @ \ {r}, !.log = log])
  /\ UNCHANGED <<dom, moves>>

\* A service worker starts to install, and ends.
WorkerInstalls == moves > 0 /\ ~net.installing /\ net' = [net EXCEPT !.installing = TRUE]
                  /\ moves' = moves - 1 /\ UNCHANGED dom
WorkerActive == net.installing /\ net' = Settled([net EXCEPT !.installing = FALSE])
                /\ UNCHANGED <<dom, moves>>

DomChanges ==
  /\ moves > 0
  /\ \E shows \in Shows, size \in Sizes :
       dom' = [shows |-> shows, size |-> size] /\ dom' # dom
  /\ moves' = moves - 1
  /\ UNCHANGED net

PageMoves ==
  \/ \E a \in AppAddrs : Send(a) \/ \E r \in net.open : Redirect(r, a)
  \/ \E r \in net.open, kind \in Kinds : Answer(r, kind)
  \/ WorkerInstalls \/ WorkerActive \/ DomChanges

(* -------------------- what the record says ----------------------------- *)

\* responseSignalSeen: a success that is data, to a declared address, sent
\* before the walk.  Before the mark every request counts as sent before it.
ResponseSeen(log, addrs) ==
  \E i \in DOMAIN log : log[i].kind = "ok" /\ log[i].early /\ log[i].addr \in addrs

SelectorPart(shows) == IF DeclaresSelector THEN {Matches(shows)} ELSE {}
ResponsePart(log) == IF DeclaresResponse THEN {ResponseSeen(log, Declared)} ELSE {}

\* readinessMet: nothing declared is no claim; a declared part that failed is
\* a failure.  A measurement is the set of its parts, {} where none is declared.
Met(parts) == parts # {} /\ FALSE \notin parts

Refused(log) == {log[i].addr : i \in {j \in DOMAIN log : log[j].kind = "refused"}}

LastKind(log, a) ==
  LET at == {i \in DOMAIN log : log[i].addr = a}
  IN log[CHOOSE i \in at : \A j \in at : j <= i].kind

Unrecovered(log) == {a \in Refused(log) : LastKind(log, a) # "ok"}

\* Mutant of RecoveryStandsDown: the retry of a refused address counts.
StandsDownOnAnyAnswer(selector, log) ==
  DeclaresResponse /\ FALSE \notin selector /\ ResponseSeen(log, Declared)

\* The declared path was answered at an address this record never refused.
RecoveryStandsDown(selector, log) ==
  /\ DeclaresResponse /\ FALSE \notin selector
  /\ ResponseSeen(log, Declared \ Refused(log))

\* redirectedAwayGap, rules A, B and C.  An observation holds the document's
\* address and password field and the selector and response as first read.
RuleA(o, log) ==
  /\ world.session # "none"
  /\ (IF RecoveryStandsDown(o.selector, log) THEN Unrecovered(log) ELSE Refused(log)) # {}
RuleB(o) == world.session # "none" /\ o.password /\ ~Met(o.selector \cup o.response)
RuleC(o) == o.away /\ o.password
RedirectedAway(o, log) == RuleA(o, log) \/ RuleB(o) \/ RuleC(o)

(* --------------------- waitForRendered ---------------------------------- *)

NoWait == [previous |-> 0, repeats |-> 0, quiet |-> FALSE, settled |-> FALSE,
           cap |-> NoCap, left |-> Budget]

Cut(x) == IF x = 0 THEN 0 ELSE x - 1

\* One sample: element count and network at one moment.
Sampled ==
  LET repeats == IF dom.size = wait.previous
                 THEN (IF wait.repeats < Samples THEN wait.repeats + 1 ELSE Samples) ELSE 1
      settled == repeats >= Samples /\ Quiet
  IN [wait EXCEPT !.previous = dom.size, !.repeats = repeats, !.quiet = Quiet,
                  !.settled = settled,
                  !.cap = IF settled /\ DeclaresSelector /\ @ = NoCap THEN Cap ELSE @]

\* The probe held; it counts if the page still reads as it did before it.
StillSettled == dom.size = wait.previous /\ Quiet

ProbeWasLate ==
  [wait EXCEPT !.previous = dom.size, !.quiet = Quiet, !.settled = FALSE,
               !.repeats = IF dom.size = wait.previous THEN @ ELSE 1]

\* Mutant of BudgetIsOver: only a settled page runs out of it.
BudgetIsOverWhenSettled == wait.left = 0 /\ wait.settled

CapIsOver == wait.cap = 0
BudgetIsOver == wait.left = 0

\* One sleep of the wait, or the time a probe takes.
PassTime ==
  /\ wait' = [wait EXCEPT !.left = Cut(@), !.cap = IF @ = NoCap THEN @ ELSE Cut(@)]
  /\ net' = [net EXCEPT !.idle = IF Busy \/ @ = QuietWindow THEN @ ELSE @ + 1]
=============================================================================
