----------------------------- MODULE RecordLog -----------------------------
(***************************************************************************)
(* What the history branch promises to the runs that read it: a log of     *)
(* records that only grows at its end, one entry at a time, closed for     *)
(* good by a line nobody can read.  A job that reports success has its     *)
(* record in the log.  Delivery is at least once: the log may hold a       *)
(* record more than once.                                                  *)
(***************************************************************************)
EXTENDS Naturals, Sequences

CONSTANTS
    Jobs,   \* one record each
    Bad     \* a line usabl refuses

VARIABLES
    log,    \* the records in the order runs read them
    acked   \* the jobs that reported success

vars == <<log, acked>>

Logged(j) == \E i \in 1..Len(log) : log[i] = j

Closed == \E i \in 1..Len(log) : log[i] = Bad

Init == log = <<>> /\ acked = {}

\* The record reaches the log; its job may or may not come to know.
Deliver(j) ==
    /\ ~Closed
    /\ log' = Append(log, j)
    /\ acked' \in {acked, acked \cup {j}}

Close ==
    /\ ~Closed
    /\ log' = Append(log, Bad)
    /\ UNCHANGED acked

Next == (\E j \in Jobs : Deliver(j)) \/ Close

Spec == Init /\ [][Next]_vars
=============================================================================
