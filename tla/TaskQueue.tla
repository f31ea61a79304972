----------------------------- MODULE TaskQueue -----------------------------
(***************************************************************************)
(* What the thread pool promises about the tasks given to it: a bounded    *)
(* queue, first in first out, which no task enters or leaves twice.        *)
(***************************************************************************)
EXTENDS Integers, Sequences

CONSTANTS
  Task,     \* the tasks
  Capacity  \* how many of them the queue holds

VARIABLES
  queued,   \* the tasks in the queue, the oldest first
  served    \* the tasks that have left it

vars == <<queued, served>>

InQueue(t) == \E i \in DOMAIN queued : queued[i] = t

Init ==
  /\ queued = << >>
  /\ served = {}

Put(t) ==
  /\ ~InQueue(t) /\ t \notin served
  /\ Len(queued) < Capacity
  /\ queued' = Append(queued, t)
  /\ UNCHANGED served

Take ==
  /\ queued # << >>
  /\ queued' = Tail(queued)
  /\ served' = served \cup {Head(queued)}

Next == Take \/ \E t \in Task : Put(t)

Spec == Init /\ [][Next]_vars
=============================================================================
