---------------------------- MODULE EventChannel ----------------------------
(***************************************************************************)
(* What Schedjuice is promised: events that happened, each handled at most *)
(* once and in any order, and for a handled event at most one task.        *)
(***************************************************************************)
EXTENDS Naturals

CONSTANTS Seqs, Released
VARIABLES happened, handled, tasks

vars == <<happened, handled, tasks>>

Init == happened = {} /\ handled = {} /\ tasks = [s \in Released |-> 0]

Happen == /\ \E s \in Seqs \ happened : happened' = happened \cup {s}
          /\ UNCHANGED <<handled, tasks>>

HandleOnce == /\ \E s \in happened \ handled : handled' = handled \cup {s}
              /\ UNCHANGED <<happened, tasks>>

QueueOnce == /\ \E s \in handled \cap Released : /\ tasks[s] = 0
                                                 /\ tasks' = [tasks EXCEPT ![s] = 1]
             /\ UNCHANGED <<happened, handled>>

Next == Happen \/ HandleOnce \/ QueueOnce

Spec == Init /\ [][Next]_vars
=============================================================================
