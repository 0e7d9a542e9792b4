---------------------------- MODULE KeyboardWalk ----------------------------
(***************************************************************************)
(* The Tab walk over a screen's focus order, as the keyboard provider makes*)
(* it (src/providers/keyboard-walk/index.ts).  The order is met one Tab at *)
(* a time: to another control, to the body after the last one, back to a   *)
(* control already met, or into a frame nobody can read.                   *)
(***************************************************************************)
EXTENDS Naturals, Sequences, FiniteSets

CONSTANTS
  Controls,   \* the controls Tab can reach
  TabCap      \* Tab presses the walk makes at most

ASSUME WalkAssumption == TabCap \in Nat

VARIABLE keys   \* the walk

Dialogs == {"dialog"}

\* A control as the walk met it: the open modal dialogs that hold it.
Stop == [at: Controls, modals: SUBSET Dialogs]

NoKeys == [pc |-> "idle", walked |-> <<>>, presses |-> 0, reason |-> "none", trap |-> FALSE, unsure |-> FALSE]

Walked == {keys.walked[i].at : i \in DOMAIN keys.walked}
CycleFrom(c) ==
  LET first == CHOOSE i \in DOMAIN keys.walked : keys.walked[i].at = c
  IN {keys.walked[i] : i \in first..Len(keys.walked)}
InsideOneModal(cycle) == \E d \in Dialogs : \A s \in cycle : d \in s.modals

KeysEnd(reason, trap) ==
  keys' = [keys EXCEPT !.pc = "done", !.reason = reason, !.trap = trap,
                       !.unsure = @ \/ reason # "complete"]

WalkStart == keys.pc = "idle" /\ keys' = [NoKeys EXCEPT !.pc = "tab"]

TabCapRunsOut == keys.pc = "tab" /\ keys.presses = TabCap /\ KeysEnd("tab-cap", FALSE)
ClockRunsOut == keys.pc = "tab" /\ KeysEnd("wall-clock", FALSE)
TabOntoUnreadable == keys.pc = "tab" /\ keys.presses < TabCap /\ KeysEnd("frame-unreadable", FALSE)
TabOntoBody == keys.pc = "tab" /\ keys.presses < TabCap /\ KeysEnd("complete", FALSE)

\* A control met before is a cycle that never passed the body.
TabOntoWalked ==
  /\ keys.pc = "tab" /\ keys.presses < TabCap
  /\ \E c \in Walked : IF InsideOneModal(CycleFrom(c)) THEN KeysEnd("modal-dialog", FALSE)
                                                        ELSE KeysEnd("focus-trap", TRUE)

\* A new control, whose role and name the browser may not know.
TabOntoNew ==
  /\ keys.pc = "tab" /\ keys.presses < TabCap
  /\ \E c \in Controls \ Walked, modals \in SUBSET Dialogs, known \in BOOLEAN :
       keys' = [keys EXCEPT !.walked = Append(@, [at |-> c, modals |-> modals]),
                            !.presses = @ + 1, !.unsure = @ \/ ~known]

KeysStep == TabCapRunsOut \/ ClockRunsOut \/ TabOntoUnreadable \/ TabOntoBody \/ TabOntoWalked \/ TabOntoNew
=============================================================================
