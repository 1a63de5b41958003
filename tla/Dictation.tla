------------------------------ MODULE Dictation ------------------------------
(***************************************************************************)
(* What a taker is promised on a page that stays open: whatever becomes of *)
(* the requests, the server writes down what the taker enters in the order *)
(* in which it was entered, leaving nothing out.  The sheet is the screen  *)
(* as it once was, and so is whatever paper is marked.                     *)
(***************************************************************************)
EXTENDS Naturals

CONSTANTS Questions, Blank,
          Entries      \* answers and flags, records numbered by `seq`

VARIABLES entered,     \* the entries made so far
          noted,       \* those the server has
          screen,      \* what the taker sees of each question, a value and a flag
          sheet,       \* what the server has on it
          paper        \* the values that were marked, if any were

vars == <<entered, noted, screen, sheet, paper>>

Of(S, kind, q) == {m \in S : m.kind = kind /\ m.q = q}
Newest(S) == {m \in S : \A n \in S : n.seq <= m.seq}

Value(S, q, v) == IF Of(S, "answer", q) = {} THEN v = Blank
                  ELSE \E m \in Newest(Of(S, "answer", q)) : v = m.val
Flag(S, q, b) == IF Of(S, "mark", q) = {} THEN b = FALSE
                 ELSE \E m \in Newest(Of(S, "mark", q)) : b = m.on

\* view is what the entries S amount to.
Shows(S, view) == \A q \in Questions : Value(S, q, view[q].val) /\ Flag(S, q, view[q].flag)

\* What had been entered at some moment.
IsMoment(S) == /\ S \subseteq entered
               /\ \A m \in S, n \in entered : n.seq < m.seq => n \in S

NoPaper == [q \in Questions |-> Blank]
Untouched == [q \in Questions |-> [val |-> Blank, flag |-> FALSE]]

Init == /\ entered = {} /\ noted = {} /\ paper = NoPaper
        /\ screen = Untouched /\ sheet = Untouched

Enter ==
    /\ entered' # entered
    /\ \E m \in entered' : /\ m \in Entries /\ \A n \in entered : n.seq < m.seq
                           /\ entered' = entered \cup {m}
    /\ Shows(entered', screen')
    /\ UNCHANGED <<noted, sheet, paper>>

Note ==
    /\ noted' # noted
    /\ noted \subseteq noted' /\ IsMoment(noted')
    /\ Shows(noted', sheet')
    /\ UNCHANGED <<entered, screen, paper>>

Mark ==
    /\ paper' # paper
    /\ \E S \in SUBSET noted : IsMoment(S) /\ \A q \in Questions : Value(S, q, paper'[q])
    /\ UNCHANGED <<entered, noted, screen, sheet>>

Next == Enter \/ Note \/ Mark

Spec == Init /\ [][Next]_vars
=============================================================================
