---------------------------- MODULE AttemptRecord ----------------------------
(***************************************************************************)
(* What becomes of attempts, as students, teachers and readers of the      *)
(* event log may rely on it: each is started once, handed in, marked an    *)
(* essay at a time, and released when all of it is marked.  Requests that  *)
(* do not overlap leave a status and a total that are those of the marks,  *)
(* and tell the log so.  What overlaps may spoil is said here too: a       *)
(* hand-in that began before another landed undoes the status and the      *)
(* total, and a marker who missed another's mark may leave a total without *)
(* it and take a grade back, of which the log is not told.                 *)
(***************************************************************************)
EXTENDS Naturals, Sequences

CONSTANTS Attempts, Written, Scores, NoScore, Hands, Markers

VARIABLES stage,   \* of each attempt
          handed,  \* the attempts that have been handed in
          marks,   \* what each written answer was given
          total,   \* the marks that the attempt's total is of
          story,   \* what the event log says of each attempt
          handing, \* the hand-ins under way, with their attempts
          marking, \* the markers under way, with their attempts
          stale    \* the markers who missed a mark that landed on the attempt since

vars == <<stage, handed, marks, total, story, handing, marking, stale>>

Sheets == [Written -> Scores \cup {NoScore}]
Blanks == [w \in Written |-> NoScore]

Init == /\ stage = [a \in Attempts |-> "none"] /\ handed = {}
        /\ marks = [a \in Attempts |-> Blanks] /\ total = [a \in Attempts |-> Blanks]
        /\ story = [a \in Attempts |-> <<>>]
        /\ handing = {} /\ marking = {} /\ stale = {}

Becomes(a, s) == stage' = [stage EXCEPT ![a] = s]
Told(a, type) == story' = [story EXCEPT ![a] = Append(@, type)]

Start(a) ==
    /\ stage[a] = "none"
    /\ Becomes(a, "in_progress") /\ Told(a, "started")
    /\ total' = [total EXCEPT ![a] = Blanks]
    /\ UNCHANGED <<handed, marks, handing, marking, stale>>

\* Nobody hands in what is in already.
BeginHandIn(s, a) ==
    /\ stage[a] # "none" /\ a \notin handed
    /\ handing' = handing \cup {<<s, a>>}
    /\ UNCHANGED <<stage, handed, marks, total, story, marking, stale>>

\* Without a written answer the machine has marked it all.
HandIn(s, a) ==
    /\ <<s, a>> \in handing /\ handing' = handing \ {<<s, a>>}
    /\ handed' = handed \cup {a} /\ total' = [total EXCEPT ![a] = Blanks]
    /\ LET st == IF Written = {} THEN "graded" ELSE "submitted" IN Becomes(a, st) /\ Told(a, st)
    /\ UNCHANGED <<marks, marking, stale>>

BeginMark(m, a) ==
    /\ a \in handed /\ marking' = marking \cup {<<m, a>>}
    /\ UNCHANGED <<stage, handed, marks, total, story, handing, stale>>

\* One answer is marked, or marked again; the others who mark this attempt may miss it.
Mark(m, a) ==
    LET others == {o \in Markers \ {m} : <<o, a>> \in marking}
    IN  /\ <<m, a>> \in marking /\ marking' = marking \ {<<m, a>>}
        /\ \E w \in Written, n \in Scores : marks' = [marks EXCEPT ![a][w] = n]
        /\ \E S \in SUBSET others : stale' = (stale \ (others \cup {m})) \cup S
        /\ \E seen \in Sheets :
              /\ m \in stale \/ seen = marks'[a]
              /\ \A w \in Written : seen[w] # NoScore => marks'[a][w] # NoScore
              /\ total' = [total EXCEPT ![a] = seen]
              /\ IF \E w \in Written : seen[w] = NoScore
                 THEN Becomes(a, "submitted") /\ UNCHANGED story
                 ELSE Becomes(a, "graded") /\ Told(a, "graded")
        /\ UNCHANGED <<handed, handing>>

\* A request that comes to nothing.
HandInDies(s, a) ==
    /\ <<s, a>> \in handing /\ handing' = handing \ {<<s, a>>}
    /\ UNCHANGED <<stage, handed, marks, total, story, marking, stale>>
MarkDies(m, a) ==
    /\ <<m, a>> \in marking /\ marking' = marking \ {<<m, a>>} /\ stale' = stale \ {m}
    /\ UNCHANGED <<stage, handed, marks, total, story, handing>>

\* All that is graded, at once.
Release ==
    LET R == {a \in Attempts : stage[a] = "graded"}
    IN  /\ stage' = [a \in Attempts |-> IF a \in R THEN "released" ELSE stage[a]]
        /\ story' = [a \in Attempts |-> IF a \in R THEN Append(story[a], "released") ELSE story[a]]
        /\ UNCHANGED <<handed, marks, total, handing, marking, stale>>

HandInStep(a) == \E s \in Hands : BeginHandIn(s, a) \/ HandIn(s, a) \/ HandInDies(s, a)
MarkStep(a) == \E m \in Markers : BeginMark(m, a) \/ Mark(m, a) \/ MarkDies(m, a)

Next == Release \/ \E a \in Attempts : Start(a) \/ HandInStep(a) \/ MarkStep(a)

Spec == Init /\ [][Next]_vars
=============================================================================
