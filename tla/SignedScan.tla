----------------------------- MODULE SignedScan -----------------------------
(***************************************************************************)
(* The session and the scan: a run resolves its session before there is a  *)
(* browser (src/deps/build.ts) and the browser reads the file again when   *)
(* it opens the screen (src/deps/real.ts), with people, other sign-ins and *)
(* time between the two.  checkPage is handed an open page and resolves    *)
(* nothing.                                                                *)
(***************************************************************************)
EXTENDS ScreenScan, SignIn

allVars == <<vars, signVars>>

Waiting == [NewScan EXCEPT !.pc = "waiting"]

\* Nothing of the page is there before the scan begins.
Init ==
  /\ SignInit /\ scan = Waiting
  /\ world = [caller |-> "cli", session |-> "none", signal |-> "none", isolated |-> FALSE, restless |-> "keys"]
  /\ dom = Screen /\ net = QuietNet /\ moves = MaxMoves /\ wait = NoWait
  /\ tree = OnlyTop /\ axe = NoRun /\ keys = NoKeys /\ judged = NoTraffic

\* The context of the screen is made from the file as it is now.
FileNow == IF use.from = "named" THEN named ELSE saved
Opens == use.from = "none" \/ FileNow.kind = "state"

\* A server need not take a session, and takes none that holds nothing.
SessionsNow ==
  IF use.from = "none" THEN {"none"}
  ELSE IF FileNow.state = Nothing \/ Spent(FileNow.state) THEN {"expired"} ELSE {"good", "expired"}

\* The page's side of a scan; what the sign-in left behind is not read again.
Begin(worlds) ==
  /\ scan.pc = "waiting"
  /\ world' \in worlds /\ dom' \in FirstDoms(world')
  /\ place' = "desk" /\ saved' = NoFile /\ git' = "ignored" /\ edits' = 0
  /\ named' = CHOOSE f \in Named : TRUE
  /\ signing' = [p \in SignIns |-> Idle] /\ use' = [NoUse EXCEPT !.pc = "scanning"]
  /\ UNCHANGED <<net, moves, wait, tree, axe, keys, judged>>

BeginRun ==
  /\ use.pc = "resolved" /\ Opens
  /\ Begin({w \in ScanWorlds : w.caller = "cli" /\ w.session \in SessionsNow})
  /\ scan' = NewScan

\* The file is gone or is no storage state: newContext throws.
BeginFails ==
  /\ use.pc = "resolved" /\ ~Opens
  /\ Begin({w \in ScanWorlds : w.caller = "cli" /\ w.session = "good"})
  /\ scan' = [EndWith("failed", {"open"}) EXCEPT !.pc = "unseen"]

BeginPage ==
  /\ use.pc = "none"
  /\ Begin({w \in ScanWorlds : w.caller = "checkPage"})
  /\ scan' = NewScan

Before == scan.pc = "waiting" /\ use.pc # "stopped" /\ SignNext /\ UNCHANGED vars

Ended == (~Scanning \/ use.pc = "stopped") /\ UNCHANGED allVars

Next ==
  \/ Before \/ BeginRun \/ BeginFails \/ BeginPage
  \/ use.pc = "scanning" /\ ScanNext /\ UNCHANGED signVars
  \/ Ended

ScanStep == use.pc = "scanning" /\ Step /\ UNCHANGED signVars
ReportArrives == use.pc = "scanning" /\ HearingStep /\ UNCHANGED signVars

\* The scanner goes on while it can, and what the browser has to say reaches
\* it.  Nothing is asked of people, of the page or of the session.
Spec == Init /\ [][Next]_allVars /\ WF_allVars(ScanStep) /\ WF_allVars(ReportArrives)
=============================================================================
