---------------------------- MODULE LatestAnswer ----------------------------
(***************************************************************************)
(* What the server promises a device about answers: it accepts them in any *)
(* grouping and order, and shows, for each question, the value of the      *)
(* accepted answer with the highest sequence number.                       *)
(***************************************************************************)
EXTENDS Naturals

CONSTANT Answers   \* records with the fields q, val and seq

VARIABLES accepted, shown

On(S, q) == {a \in S : a.q = q}

\* The values a question may show: those of the answers nothing in S is newer than.
Newest(S, q) == {a.val : a \in {x \in On(S, q) : \A y \in On(S, q) : y.seq <= x.seq}}

Shows(S, view) ==
    /\ DOMAIN view = {a.q : a \in S}
    /\ \A q \in DOMAIN view : view[q] \in Newest(S, q)

Init == accepted = {} /\ shown = <<>>

Accept == /\ \E S \in SUBSET Answers : accepted' = accepted \cup S
          /\ Shows(accepted', shown')

Spec == Init /\ [][Accept]_<<accepted, shown>>
=============================================================================
