----------------------------- MODULE JudgedPage -----------------------------
(***************************************************************************)
(* What the judge's isolated browser sees of a page's traffic              *)
(* (src/deps/real.ts: the filter openPage installs, watchUnfilteredWorkers).*)
(* Requests are routed and stopped; redirect hops and answers from a wrong *)
(* address are caught when the browser reports them; a worker is held at   *)
(* its start until its sockets are watched.  Reports arrive in their own   *)
(* time, and one of them is read after the page and before it closes.      *)
(***************************************************************************)
EXTENDS Naturals, FiniteSets

VARIABLE judged

\* stage of the page's one worker: none, held (paused at its start), sent
\* (asked to report its sockets, then released), refused (it would not), free
NoTraffic == [worker |-> "none", reports |-> {}, known |-> FALSE, watched |-> FALSE,
              pending |-> FALSE, caught |-> FALSE, leaked |-> FALSE]

Report(x) == [judged EXCEPT !.reports = @ \cup {x}]
Reported(x) == x \in judged.reports
Heard(x) == [judged EXCEPT !.reports = @ \ {x}]

\* A request outside the allowed origins is routed: stopped and recorded.
RequestStopped == judged' = [judged EXCEPT !.caught = TRUE]
\* A redirect hop is not routed.  It leaves, and the browser reports it.
HopLeaves == judged' = [Report("hop") EXCEPT !.leaked = TRUE]
\* An allowed origin is answered by a server it should not reach.
WrongServer == judged' = [Report("answer") EXCEPT !.leaked = TRUE]

\* A worker the page's session holds at its start, or one it never meets.
ServiceWorkerStarts(held) ==
  /\ judged.worker = "none"
  /\ judged' = [judged EXCEPT !.worker = IF held THEN "held" ELSE "free",
                              !.reports = @ \cup {"created"} \cup (IF held THEN {"attached"} ELSE {})]
SharedWorkerStarts ==
  /\ judged.worker = "none"
  /\ judged' = [Report("shared") EXCEPT !.worker = "shared", !.leaked = TRUE]

\* The worker handles Network.enable before the release sent after it.
WorkerEnables(ok) ==
  /\ judged.worker = "asked"
  /\ judged' = [Report(IF ok THEN "enabled" ELSE "refused") EXCEPT !.worker = IF ok THEN "watched" ELSE "free"]

SocketOpens ==
  /\ judged.worker \in {"free", "watched"}
  /\ judged' = [IF judged.worker = "watched" THEN Report("socket") ELSE judged EXCEPT !.leaked = TRUE]

TrafficMoves ==
  \/ RequestStopped \/ HopLeaves \/ WrongServer
  \/ \E held \in BOOLEAN : ServiceWorkerStarts(held)
  \/ SharedWorkerStarts \/ SocketOpens

\* The reports, in any order, and the check of a server address that an
\* answer starts and that ends later.
Hears(x) ==
  /\ Reported(x)
  /\ judged' = CASE x = "created"  -> [Heard(x) EXCEPT !.known = TRUE]
                 [] x = "attached" -> [Heard(x) EXCEPT !.worker = "asked"]
                 [] x = "enabled"  -> [Heard(x) EXCEPT !.watched = TRUE]
                 [] x = "answer"   -> [Heard(x) EXCEPT !.pending = TRUE]
                 [] OTHER          -> [Heard(x) EXCEPT !.caught = TRUE]
AddressChecked == judged.pending /\ judged' = [judged EXCEPT !.pending = FALSE, !.caught = TRUE]

Hearing == (\E x \in judged.reports : Hears(x)) \/ AddressChecked \/ \E ok \in BOOLEAN : WorkerEnables(ok)

\* blockedRequests: after the pending checks, with every worker known and not
\* watched counted as caught.
CanReadBlocked == ~judged.pending
Blocked == judged.caught \/ (judged.known /\ ~judged.watched)
=============================================================================
