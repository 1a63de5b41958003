----------------------- MODULE AttemptLifecycle_proofs -----------------------
(***************************************************************************)
(* What holds of AttemptLifecycle however many requests run at once.       *)
(***************************************************************************)
EXTENDS AttemptLifecycle, FiniteSetTheorems, TLAPS

\* A rewritten attempt is submitted or graded, whatever marks it is rewritten from.
LEMMA StatusForType == ASSUME NEW seen PROVE StatusFor(seen) \in {"submitted", "graded"}
  BY DEF StatusFor

\* No marks at all is a sheet of marks.
LEMMA UnmarkedType == Unmarked \in Sheet
  BY DEF Unmarked, Sheet

\* The empty tables are well typed.
LEMMA InitType == ASSUME LifecycleAssumption, Init PROVE TypeOK
  BY UnmarkedType DEF LifecycleAssumption, Init, TypeOK, NewStart, NoRow, Attempts,
     Statuses, EventTypes, StartRequest, SubmitRequest, MarkRequest, AttemptRow

\* Appending an event keeps the log well typed.
LEMMA LoggedType ==
  ASSUME TypeOK, NEW a \in Attempts, NEW type \in EventTypes, Logged(a, type)
  PROVE  log' \in [Attempts -> Seq(EventTypes)]
  BY DEF TypeOK, Logged

\* A start request that moves on keeps its type.
LEMMA StartGoesType ==
  ASSUME TypeOK, NEW r \in Starts, StartGoes(r, "refused") \/ StartGoes(r, "allowed")
                                      \/ StartGoes(r, "identified") \/ StartGoes(r, "done")
  PROVE  start' \in [Starts -> StartRequest]
  <1>1. PICK p \in {"refused", "allowed", "identified", "done"} : StartGoes(r, p)
    OBVIOUS
  <1>2. start[r] \in StartRequest
    BY DEF TypeOK
  <1>3. [start[r] EXCEPT !.phase = p] \in StartRequest
    BY <1>2 DEF StartRequest
  <1>4. start' = [start EXCEPT ![r] = [start[r] EXCEPT !.phase = p]]
    BY <1>1 DEF StartGoes
  <1> QED
    BY <1>3, <1>4 DEF TypeOK

\* startAttempt keeps the type invariant.
LEMMA StartType ==
  ASSUME LifecycleAssumption, TypeOK, NEW r \in Starts, StartStep(r) PROVE TypeOK'
  <1>1. CASE Admit(r)
    <2>1. start' \in [Starts -> StartRequest]
      BY <1>1 DEF TypeOK, Admit, StartRequest
    <2> QED
      BY <1>1, <2>1 DEF TypeOK, Admit
  <1>2. CASE TakeTheirWord(r)
    BY <1>2, StartGoesType DEF TypeOK, TakeTheirWord
  <1>3. CASE ClaimTicket(r)
    <2>1. start' \in [Starts -> StartRequest]
      <3>1. PICK p \in {"refused", "identified"} :
               start' = [start EXCEPT ![r] =
                            [start[r] EXCEPT !.phase = p, !.taker = Bearer[start[r].ticket]]]
        BY <1>3 DEF ClaimTicket
      <3>2. start[r] \in StartRequest /\ Bearer[start[r].ticket] \in Takers
        BY <1>3 DEF LifecycleAssumption, TypeOK, ClaimTicket
      <3>3. [start[r] EXCEPT !.phase = p, !.taker = Bearer[start[r].ticket]] \in StartRequest
        BY <3>2 DEF StartRequest
      <3> QED
        BY <3>1, <3>3 DEF TypeOK
    <2> QED
      BY <1>3, <2>1 DEF TypeOK, ClaimTicket
  <1>4. CASE TicketSpent(r)
    BY <1>4, StartGoesType DEF TypeOK, TicketSpent
  <1>5. CASE CountTaken(r)
    <2>1. start' \in [Starts -> StartRequest]
      <3>1. \/ StartGoes(r, "refused")
            \/ StartGoes(r, "allowed")
        BY <1>5 DEF CountTaken
      <3> QED
        BY <3>1, StartGoesType
    <2>2. start[r].taker \in Takers \cup {NoTicket}
      BY DEF TypeOK, StartRequest
    <2>3. raced' \subseteq Takers \cup {NoTicket}
      BY <1>5, <2>2 DEF TypeOK, CountTaken
    <2> QED
      BY <1>5, <2>1, <2>3 DEF TypeOK, CountTaken
  <1>6. CASE InsertAttempt(r)
    <2>1. att' \in [Attempts -> AttemptRow]
      BY <1>6, UnmarkedType DEF TypeOK, InsertAttempt, Statuses, Attempts, AttemptRow, StartRequest
    <2>2. log' \in [Attempts -> Seq(EventTypes)]
      BY <1>6, LoggedType DEF InsertAttempt, EventTypes, Attempts
    <2> QED
      BY <1>6, <2>1, <2>2, StartGoesType DEF TypeOK, InsertAttempt
  <1>7. CASE StartDies(r)
    BY <1>7, StartGoesType DEF TypeOK, StartDies
  <1> QED
    BY <1>1, <1>2, <1>3, <1>4, <1>5, <1>6, <1>7 DEF StartStep

\* submitAttempt keeps the type invariant.
LEMMA SubmitType ==
  ASSUME TypeOK, NEW s \in Submits, SubmitStep(s) PROVE TypeOK'
  <1>1. CASE ReadForSubmit(s)
    BY <1>1 DEF TypeOK, ReadForSubmit, SubmitRequest
  <1>2. CASE WriteSubmit(s)
    <2>1. submit[s].attempt \in Attempts
      BY <1>2 DEF TypeOK, WriteSubmit, SubmitRequest, Finished
    <2>2. att' \in [Attempts -> AttemptRow]
      <3> DEFINE row == [att[submit[s].attempt] EXCEPT !.status = StatusFor(Unmarked),
                                                       !.submitted = TRUE, !.scored = Unmarked]
      <3>1. att' = [att EXCEPT ![submit[s].attempt] = row]
        BY <1>2 DEF WriteSubmit
      <3>2. att[submit[s].attempt] \in AttemptRow
        BY <2>1 DEF TypeOK
      <3>3. row \in AttemptRow
        BY <3>2, UnmarkedType, StatusForType DEF AttemptRow, Statuses
      <3> QED
        BY <2>1, <3>1, <3>3 DEF TypeOK
    <2>3. log' \in [Attempts -> Seq(EventTypes)]
      BY <1>2, <2>1, LoggedType, StatusForType DEF WriteSubmit, EventTypes
    <2> QED
      BY <1>2, <2>2, <2>3 DEF TypeOK, WriteSubmit, SubmitRequest
  <1>3. CASE SubmitDies(s)
    BY <1>3 DEF TypeOK, SubmitDies, SubmitRequest
  <1> QED
    BY <1>1, <1>2, <1>3 DEF SubmitStep

\* What a marking request knows, spelled out for the request that holds a lock.
LEMMA MarkingType ==
  ASSUME TypeOK, NEW m \in Marks, marking[m].phase = "scored"
  PROVE  /\ marking[m].attempt \in Attempts /\ marking[m].question \in Written
         /\ marking[m].score \in Scores /\ marking[m].seen \in Sheet
  BY DEF TypeOK, MarkRequest, Finished

\* scoreWrittenAnswer keeps the type invariant.
LEMMA MarkType ==
  ASSUME LifecycleAssumption, TypeOK, NEW m \in Marks, MarkStep(m) PROVE TypeOK'
  <1>1. CASE UpsertScore(m)
    <2>1. PICK a \in Attempts, w \in Written, n \in Scores :
             marking' = [marking EXCEPT ![m] =
                 [phase |-> "scored", attempt |-> a, question |-> w, score |-> n,
                  seen |-> [scores[a] EXCEPT ![w] = n]]]
      BY <1>1 DEF UpsertScore
    <2>2. [scores[a] EXCEPT ![w] = n] \in Sheet
      BY DEF TypeOK, Sheet
    <2> QED
      BY <1>1, <2>1, <2>2 DEF TypeOK, UpsertScore, MarkRequest
  <1>2. CASE Regrade(m)
    <2> DEFINE a == marking[m].attempt
    <2>1. a \in Attempts /\ marking[m].question \in Written
             /\ marking[m].score \in Scores /\ marking[m].seen \in Sheet
      BY <1>2, MarkingType DEF Regrade, Stored
    <2>2. att' \in [Attempts -> AttemptRow]
      <3> DEFINE row == [att[a] EXCEPT !.status = StatusFor(marking[m].seen),
                                       !.scored = marking[m].seen]
      <3>1. att' = [att EXCEPT ![a] = row]
        BY <1>2 DEF Regrade, Stored
      <3>2. att[a] \in AttemptRow
        BY <2>1 DEF TypeOK
      <3>3. row \in AttemptRow
        BY <2>1, <3>2, StatusForType DEF AttemptRow, Statuses
      <3> QED
        BY <2>1, <3>1, <3>3 DEF TypeOK
    <2>3. log' \in [Attempts -> Seq(EventTypes)]
      BY <1>2, <2>1, LoggedType DEF TypeOK, Regrade, Stored, EventTypes
    <2>4. scores' \in [Attempts -> Sheet]
      BY <1>2, <2>1 DEF TypeOK, Regrade, Stored, Sheet
    <2> QED
      BY <1>2, <2>2, <2>3, <2>4 DEF TypeOK, Regrade, Stored, MarkRequest
  <1>3. CASE MarkDies(m)
    BY <1>3 DEF TypeOK, MarkDies, MarkRequest
  <1> QED
    BY <1>1, <1>2, <1>3 DEF MarkStep

\* Every step keeps the type invariant.
LEMMA NextType == ASSUME LifecycleAssumption, TypeOK, [Next]_vars PROVE TypeOK'
  <1>1. CASE Release
    <2>1. att' \in [Attempts -> AttemptRow]
      <3>1. ASSUME NEW a \in Attempts PROVE [att[a] EXCEPT !.status = "released"] \in AttemptRow
        <4>1. att[a] \in AttemptRow
          BY DEF TypeOK
        <4> QED
          BY <4>1 DEF AttemptRow, Statuses
      <3> QED
        BY <1>1, <3>1 DEF TypeOK, Release, Releasable
    <2>2. log' \in [Attempts -> Seq(EventTypes)]
      BY <1>1 DEF TypeOK, Release, Releasable, EventTypes
    <2> QED
      BY <1>1, <2>1, <2>2 DEF TypeOK, Release, Releasable
  <1>2. CASE WindowMoves
    BY <1>2 DEF TypeOK, WindowMoves
  <1>3. CASE TicketExpires
    BY <1>3 DEF TypeOK, TicketExpires
  <1>4. CASE UNCHANGED vars
    BY <1>4 DEF TypeOK, vars
  <1> QED
    BY <1>1, <1>2, <1>3, <1>4, StartType, SubmitType, MarkType DEF Next

\* TypeOK holds throughout, for any set of requests and any test.
THEOREM LifecycleTypeOK == ASSUME LifecycleAssumption PROVE Spec => []TypeOK
  BY InitType, NextType, PTL DEF Spec

----------------------------------------------------------------------------
(***************************************************************************)
(* The inductive invariant.  A row exists once its start request is done;  *)
(* a hand-in under way is of a row that exists; a marker works on an       *)
(* attempt that is in, and saw no score that is not there to stay, its own *)
(* aside; and a redeemed ticket has at most one holder.                    *)
(***************************************************************************)
RowsFollowStarts ==
    \A a \in Attempts :
        /\ att[a].status = "none" <=> start[a].phase # "done"
        /\ att[a].status = "none" => /\ att[a].ticket = NoTicket
                                     /\ ~att[a].submitted
                                     /\ log[a] = <<>>
        /\ att[a].status # "none" => /\ att[a].ticket = start[a].ticket
                                     /\ att[a].by = start[a].taker

SubmitsHaveRows ==
    \A s \in Submits :
        submit[s].phase = "scored" => att[submit[s].attempt].status # "none"

MarkersSawWhatStays ==
    \A m \in Marks : marking[m].phase = "scored" =>
        /\ att[marking[m].attempt].submitted
        /\ marking[m].seen[marking[m].question] = marking[m].score
        /\ \A w \in Written \ {marking[m].question} :
              marking[m].seen[w] # NoScore => scores[marking[m].attempt][w] # NoScore

Holds(r) == /\ start[r].phase \in {"identified", "allowed", "done"}
            /\ start[r].ticket # NoTicket

TicketsHeldOnce ==
    /\ \A r \in Starts : Holds(r) => /\ start[r].ticket \in redeemed
                                     /\ start[r].taker = Bearer[start[r].ticket]
    /\ \A r, q \in Starts : Holds(r) /\ Holds(q) /\ start[r].ticket = start[q].ticket => r = q

LifecycleInv == /\ TypeOK /\ RowsFollowStarts /\ SubmitsHaveRows /\ MarkersSawWhatStays
                /\ TicketsHeldOnce /\ GradedIsFullyMarked /\ LogTellsTheStory

\* The empty tables satisfy the inductive invariant.
LEMMA InitLifecycle == ASSUME LifecycleAssumption, Init PROVE LifecycleInv
  <1>1. TypeOK
    BY InitType
  <1>2. RowsFollowStarts
    BY DEF Init, RowsFollowStarts, NoRow, NewStart, Attempts
  <1>3. SubmitsHaveRows /\ MarkersSawWhatStays
    BY DEF Init, SubmitsHaveRows, MarkersSawWhatStays
  <1>4. TicketsHeldOnce
    BY DEF Init, TicketsHeldOnce, Holds, NewStart
  <1>5. GradedIsFullyMarked
    BY DEF Init, GradedIsFullyMarked, NoRow
  <1>6. LogTellsTheStory
    BY DEF Init, LogTellsTheStory, WellTold, NoRow
  <1> QED
    BY <1>1, <1>2, <1>3, <1>4, <1>5, <1>6 DEF LifecycleInv

\* The fields of a row and of a request that each kind of write leaves alone.
LEMMA StartGoesOn ==
  ASSUME TypeOK, NEW r \in Starts, NEW phase, StartGoes(r, phase)
  PROVE  /\ start'[r].phase = phase
         /\ start'[r].ticket = start[r].ticket /\ start'[r].taker = start[r].taker
         /\ \A q \in Starts \ {r} : start'[q] = start[q]
  BY DEF TypeOK, StartGoes, StartRequest

\* A request that has not begun its insert is not done, and claims a ticket alone.
LEMMA StartKeepsRows ==
  ASSUME LifecycleAssumption, TypeOK, RowsFollowStarts, NEW r \in Starts, StartStep(r)
  PROVE  RowsFollowStarts'
  <1>1. CASE Admit(r)
    BY <1>1 DEF Admit, RowsFollowStarts, TypeOK, Attempts
  <1>2. CASE TakeTheirWord(r)
    BY <1>2, StartGoesOn DEF TakeTheirWord, RowsFollowStarts, Attempts
  <1>3. CASE ClaimTicket(r)
    <2>1. start[r].phase = "admitted" /\ start'[r].phase # "done"
      BY <1>3 DEF ClaimTicket, TypeOK, StartRequest
    <2>2. \A q \in Starts \ {r} : start'[q] = start[q]
      BY <1>3 DEF ClaimTicket, TypeOK
    <2> QED
      BY <1>3, <2>1, <2>2 DEF ClaimTicket, RowsFollowStarts, Attempts
  <1>4. CASE TicketSpent(r)
    BY <1>4, StartGoesOn DEF TicketSpent, RowsFollowStarts, Attempts
  <1>5. CASE CountTaken(r)
    BY <1>5, StartGoesOn DEF CountTaken, RowsFollowStarts, Attempts
  <1>6. CASE InsertAttempt(r)
    BY <1>6, StartGoesOn DEF InsertAttempt, RowsFollowStarts, TypeOK, Attempts, Logged
  <1>7. CASE StartDies(r)
    BY <1>7, StartGoesOn DEF StartDies, RowsFollowStarts, Attempts
  <1> QED
    BY <1>1, <1>2, <1>3, <1>4, <1>5, <1>6, <1>7 DEF StartStep

\* What a start request that does not insert leaves alone.
LEMMA StartLeavesTables ==
  ASSUME NEW r \in Starts, StartStep(r), ~InsertAttempt(r)
  PROVE  UNCHANGED <<submit, marking, att, scores, log>>
  BY DEF StartStep, Admit, TakeTheirWord, ClaimTicket, TicketSpent, CountTaken, StartDies

\* An insert writes a row nothing refers to yet.
LEMMA InsertIsFresh ==
  ASSUME TypeOK, RowsFollowStarts, NEW r \in Starts, InsertAttempt(r)
  PROVE  /\ att[r].status = "none" /\ ~att[r].submitted /\ log[r] = <<>>
         /\ att'[r] = [status |-> "in_progress", by |-> start[r].taker,
                       ticket |-> start[r].ticket, submitted |-> FALSE, scored |-> Unmarked]
         /\ log'[r] = <<"started">>
         /\ \A a \in Attempts \ {r} : att'[a] = att[a] /\ log'[a] = log[a]
         /\ UNCHANGED <<submit, marking, scores>>
  <1>1. start[r].phase = "allowed" /\ r \in Attempts
    BY DEF InsertAttempt, Attempts
  <1>2. att[r].status = "none" /\ ~att[r].submitted /\ log[r] = <<>>
    BY <1>1 DEF RowsFollowStarts, Attempts
  <1>3. /\ att'[r] = [status |-> "in_progress", by |-> start[r].taker,
                      ticket |-> start[r].ticket, submitted |-> FALSE, scored |-> Unmarked]
        /\ \A a \in Attempts \ {r} : att'[a] = att[a]
    BY <1>1 DEF InsertAttempt, TypeOK
  <1>4. log'[r] = Append(log[r], "started") /\ \A a \in Attempts \ {r} : log'[a] = log[a]
    BY <1>1 DEF InsertAttempt, TypeOK, Logged
  <1> QED
    BY <1>2, <1>3, <1>4 DEF InsertAttempt

\* startAttempt disturbs no hand-in, marker, mark or published status.
LEMMA StartKeepsRest ==
  ASSUME LifecycleAssumption, LifecycleInv, NEW r \in Starts, StartStep(r)
  PROVE  /\ SubmitsHaveRows' /\ MarkersSawWhatStays'
         /\ GradedIsFullyMarked' /\ LogTellsTheStory'
  <1>1. CASE InsertAttempt(r)
    <2> USE DEF LifecycleInv
    <2>0. /\ att[r].status = "none" /\ ~att[r].submitted /\ log[r] = <<>>
          /\ att'[r].status = "in_progress" /\ ~att'[r].submitted /\ log'[r] = <<"started">>
          /\ \A a \in Attempts \ {r} : att'[a] = att[a] /\ log'[a] = log[a]
          /\ UNCHANGED <<submit, marking, scores>>
      <3>1. TypeOK /\ RowsFollowStarts
        OBVIOUS
      <3>2. /\ att[r].status = "none" /\ ~att[r].submitted /\ log[r] = <<>>
            /\ att'[r] = [status |-> "in_progress", by |-> start[r].taker,
                          ticket |-> start[r].ticket, submitted |-> FALSE, scored |-> Unmarked]
            /\ log'[r] = <<"started">>
            /\ \A a \in Attempts \ {r} : att'[a] = att[a] /\ log'[a] = log[a]
            /\ UNCHANGED <<submit, marking, scores>>
        BY <1>1, <3>1, InsertIsFresh
      <3> QED
        BY <3>2
    <2>1. \A s \in Submits : submit[s].phase = "scored" => submit[s].attempt \in Attempts
      BY DEF TypeOK, SubmitRequest, Finished
    <2>2. SubmitsHaveRows'
      BY <2>0, <2>1 DEF SubmitsHaveRows
    <2>3. MarkersSawWhatStays'
      BY <2>0, MarkingType DEF MarkersSawWhatStays
    <2>4. GradedIsFullyMarked'
      BY <2>0 DEF GradedIsFullyMarked
    <2>5. LogTellsTheStory'
      BY <2>0 DEF LogTellsTheStory, WellTold
    <2> QED
      BY <2>2, <2>3, <2>4, <2>5
  <1>2. CASE ~InsertAttempt(r)
    BY <1>2, StartLeavesTables DEF LifecycleInv, SubmitsHaveRows, MarkersSawWhatStays,
       GradedIsFullyMarked, LogTellsTheStory
  <1> QED
    BY <1>1, <1>2

\* Only a claim makes a new holder, and it holds a ticket nobody had redeemed.
LEMMA StartKeepsTickets ==
  ASSUME LifecycleAssumption, TypeOK, TicketsHeldOnce, NEW r \in Starts, StartStep(r)
  PROVE  TicketsHeldOnce'
  <1>1. CASE Admit(r)
    <2>1. start'[r].phase = "admitted" /\ \A q \in Starts \ {r} : start'[q] = start[q]
      BY <1>1 DEF Admit, TypeOK
    <2> QED
      BY <1>1, <2>1 DEF Admit, TicketsHeldOnce, Holds
  <1>2. CASE TakeTheirWord(r)
    BY <1>2, StartGoesOn DEF TakeTheirWord, TicketsHeldOnce, Holds
  <1>3. CASE ClaimTicket(r)
    <2>1. /\ start'[r].ticket = start[r].ticket /\ start[r].ticket \in redeemed'
          /\ start[r].ticket \notin redeemed
          /\ start'[r].taker = Bearer[start[r].ticket]
      BY <1>3 DEF ClaimTicket, TypeOK, StartRequest
    <2>2. redeemed \subseteq redeemed' /\ \A q \in Starts \ {r} : start'[q] = start[q]
      BY <1>3 DEF ClaimTicket, TypeOK
    <2> QED
      BY <2>1, <2>2 DEF TicketsHeldOnce, Holds
  <1>4. CASE TicketSpent(r)
    BY <1>4, StartGoesOn DEF TicketSpent, TicketsHeldOnce, Holds
  <1>5. CASE CountTaken(r)
    BY <1>5, StartGoesOn DEF CountTaken, TicketsHeldOnce, Holds
  <1>6. CASE InsertAttempt(r)
    BY <1>6, StartGoesOn DEF InsertAttempt, TicketsHeldOnce, Holds
  <1>7. CASE StartDies(r)
    BY <1>7, StartGoesOn DEF StartDies, TicketsHeldOnce, Holds
  <1> QED
    BY <1>1, <1>2, <1>3, <1>4, <1>5, <1>6, <1>7 DEF StartStep

----------------------------------------------------------------------------
\* An event added to a log that has some keeps its story, as long as it is not a
\* second start and a release comes straight after a grading.
LEMMA StoryGoesOn ==
  ASSUME NEW old \in Seq(EventTypes), old # <<>>, WellTold(old),
         NEW type \in {"submitted", "graded", "released"},
         type = "released" => Last(old) = "graded"
  PROVE  /\ Append(old, type) # <<>> /\ Last(Append(old, type)) = type
         /\ WellTold(Append(old, type))
  <1> DEFINE new == Append(old, type)
  <1>1. Len(old) \in Nat \ {0} /\ DOMAIN old = 1 .. Len(old)
    OBVIOUS
  <1>2. Len(new) = Len(old) + 1 /\ DOMAIN new = 1 .. Len(old) + 1
    OBVIOUS
  <1>3. new[Len(old) + 1] = type /\ \A i \in 1 .. Len(old) : new[i] = old[i]
    OBVIOUS
  <1>4. Last(new) = type /\ new # <<>>
    BY <1>1, <1>2, <1>3 DEF Last
  <1>5. ASSUME NEW i \in DOMAIN new
        PROVE  /\ new[i] = "started" <=> i = 1
               /\ new[i] = "released" => new[i - 1] = "graded"
    <2>1. CASE i \in 1 .. Len(old)
      <3>1. new[i] = old[i] /\ i \in DOMAIN old
        BY <1>1, <1>3, <2>1
      <3>2. i # 1 => new[i - 1] = old[i - 1]
        BY <1>1, <1>3, <2>1
      <3>3. new[i] = "released" => i # 1
        BY <3>1 DEF WellTold
      <3> QED
        BY <3>1, <3>2, <3>3 DEF WellTold
    <2>2. CASE i = Len(old) + 1
      <3>1. new[i] = type /\ i # 1 /\ new[i - 1] = Last(old)
        <4>1. i - 1 = Len(old) /\ Len(old) \in 1 .. Len(old)
          BY <1>1, <2>2
        <4> QED
          BY <1>1, <1>3, <2>2, <4>1 DEF Last
      <3> QED
        BY <3>1
    <2> QED
      BY <1>1, <1>2, <2>1, <2>2
  <1> QED
    BY <1>4, <1>5 DEF WellTold

\* submitAttempt keeps the invariant, however stale the attempt it read.
LEMMA SubmitKeeps ==
  ASSUME LifecycleInv, NEW s \in Submits, SubmitStep(s)
  PROVE  /\ RowsFollowStarts' /\ SubmitsHaveRows' /\ MarkersSawWhatStays' /\ TicketsHeldOnce'
         /\ GradedIsFullyMarked' /\ LogTellsTheStory'
  <1> USE DEF LifecycleInv
  <1>1. CASE ReadForSubmit(s)
    <2>1. SubmitsHaveRows'
      BY <1>1 DEF ReadForSubmit, SubmitsHaveRows, Finished, TypeOK
    <2> QED
      BY <1>1, <2>1 DEF ReadForSubmit, RowsFollowStarts, MarkersSawWhatStays, TicketsHeldOnce,
         Holds, GradedIsFullyMarked, LogTellsTheStory
  <1>2. CASE WriteSubmit(s)
    <2> DEFINE a == submit[s].attempt
               status == StatusFor(Unmarked)
    <2>1. a \in Attempts /\ att[a].status # "none" /\ att[a] \in AttemptRow
      <3>1. submit[s].phase = "scored" /\ submit[s] \in SubmitRequest
        BY <1>2 DEF WriteSubmit, TypeOK
      <3>2. a \in Attempts
        BY <3>1 DEF SubmitRequest, Finished
      <3> QED
        BY <3>1, <3>2 DEF TypeOK, SubmitsHaveRows
    <2>2. att' = [att EXCEPT ![a] = [att[a] EXCEPT !.status = status, !.submitted = TRUE,
                                                   !.scored = Unmarked]]
      BY <1>2 DEF WriteSubmit
    <2>3. /\ att'[a].status = status /\ att'[a].submitted /\ att'[a].scored = Unmarked
          /\ att'[a].ticket = att[a].ticket /\ att'[a].by = att[a].by
          /\ \A b \in Attempts \ {a} : att'[b] = att[b]
      BY <2>1, <2>2 DEF AttemptRow, TypeOK
    <2>4. /\ log'[a] = Append(log[a], status)
          /\ \A b \in Attempts \ {a} : log'[b] = log[b]
      BY <1>2, <2>1 DEF WriteSubmit, Logged, TypeOK
    <2>5. status \in {"submitted", "graded"}
      BY StatusForType
    <2>6. UNCHANGED <<start, redeemed, marking, scores>>
      BY <1>2 DEF WriteSubmit
    <2>7. RowsFollowStarts'
      BY <2>1, <2>3, <2>4, <2>5, <2>6 DEF RowsFollowStarts
    <2>8. SubmitsHaveRows'
      <3>1. ASSUME NEW z \in Submits, submit'[z].phase = "scored"
            PROVE  submit[z].phase = "scored" /\ submit'[z] = submit[z]
        BY <1>2, <3>1 DEF WriteSubmit, Finished, TypeOK
      <3>2. ASSUME NEW z \in Submits, submit[z].phase = "scored"
            PROVE  submit[z].attempt \in Attempts
        BY <3>2 DEF TypeOK, SubmitRequest, Finished
      <3> QED
        BY <2>1, <2>3, <2>5, <3>1, <3>2 DEF SubmitsHaveRows
    <2>9. MarkersSawWhatStays'
      BY <2>1, <2>3, <2>6, MarkingType DEF MarkersSawWhatStays
    <2>10. TicketsHeldOnce'
      BY <2>6 DEF TicketsHeldOnce, Holds
    <2>11. GradedIsFullyMarked'
      <3>1. status = "graded" => Written = {}
        BY DEF StatusFor, Unmarked
      <3> QED
        BY <2>1, <2>3, <2>5, <2>6, <3>1 DEF GradedIsFullyMarked
    <2>12. LogTellsTheStory'
      <3>1. log[a] \in Seq(EventTypes) /\ log[a] # <<>>
        BY <2>1 DEF TypeOK, LogTellsTheStory
      <3>2. log'[a] # <<>> /\ Last(log'[a]) = status /\ WellTold(log'[a])
        BY <2>1, <2>4, <2>5, <3>1, StoryGoesOn DEF LogTellsTheStory
      <3> QED
        BY <2>3, <2>4, <2>5, <3>2 DEF LogTellsTheStory
    <2> QED
      BY <2>7, <2>8, <2>9, <2>10, <2>11, <2>12
  <1>3. CASE SubmitDies(s)
    <2>1. SubmitsHaveRows'
      BY <1>3 DEF SubmitDies, SubmitsHaveRows, Finished, TypeOK
    <2> QED
      BY <1>3, <2>1 DEF SubmitDies, RowsFollowStarts, MarkersSawWhatStays, TicketsHeldOnce,
         Holds, GradedIsFullyMarked, LogTellsTheStory
  <1> QED
    BY <1>1, <1>2, <1>3 DEF SubmitStep

\* scoreWrittenAnswer keeps the invariant, though what it read may be out of date:
\* scores are only ever added, so a paper seen whole is whole.
LEMMA MarkKeeps ==
  ASSUME LifecycleAssumption, LifecycleInv, NEW m \in Marks, MarkStep(m)
  PROVE  /\ RowsFollowStarts' /\ SubmitsHaveRows' /\ MarkersSawWhatStays' /\ TicketsHeldOnce'
         /\ GradedIsFullyMarked' /\ LogTellsTheStory'
  <1> USE DEF LifecycleInv
  <1>1. CASE UpsertScore(m)
    <2>1. MarkersSawWhatStays'
      <3>1. PICK a \in Attempts, w \in Written, n \in Scores :
               /\ att[a].submitted
               /\ marking' = [marking EXCEPT ![m] =
                     [phase |-> "scored", attempt |-> a, question |-> w, score |-> n,
                      seen |-> [scores[a] EXCEPT ![w] = n]]]
        BY <1>1 DEF UpsertScore
      <3>2. marking'[m].attempt = a /\ marking'[m].question = w
               /\ marking'[m].seen = [scores[a] EXCEPT ![w] = n]
        BY <3>1 DEF TypeOK
      <3>3. /\ marking'[m].seen[w] = marking'[m].score
            /\ \A v \in Written \ {w} : marking'[m].seen[v] = scores[a][v]
        BY <3>1, <3>2 DEF TypeOK, Sheet
      <3>4. \A z \in Marks \ {m} : marking'[z] = marking[z]
        BY <3>1 DEF TypeOK
      <3>5. UNCHANGED <<att, scores>>
        BY <1>1 DEF UpsertScore
      <3> QED
        BY <3>1, <3>2, <3>3, <3>4, <3>5 DEF MarkersSawWhatStays
    <2> QED
      BY <1>1, <2>1 DEF UpsertScore, RowsFollowStarts, SubmitsHaveRows, TicketsHeldOnce,
         Holds, GradedIsFullyMarked, LogTellsTheStory
  <1>2. CASE Regrade(m)
    <2> DEFINE a == marking[m].attempt
               w == marking[m].question
               seen == marking[m].seen
               status == StatusFor(seen)
    <2>1. /\ a \in Attempts /\ w \in Written /\ marking[m].score \in Scores /\ seen \in Sheet
          /\ att[a].submitted /\ att[a].status # "none" /\ att[a] \in AttemptRow
      <3>1. marking[m].phase = "scored"
        BY <1>2 DEF Regrade, Stored
      <3>2. a \in Attempts /\ w \in Written /\ marking[m].score \in Scores /\ seen \in Sheet
        BY <3>1, MarkingType
      <3>3. att[a].submitted
        BY <3>1 DEF MarkersSawWhatStays
      <3> QED
        BY <3>2, <3>3 DEF TypeOK, RowsFollowStarts
    <2>2. att' = [att EXCEPT ![a] = [att[a] EXCEPT !.status = status, !.scored = seen]]
      BY <1>2 DEF Regrade, Stored
    <2>3. /\ att'[a].status = status /\ att'[a].submitted /\ att'[a].scored = seen
          /\ att'[a].ticket = att[a].ticket /\ att'[a].by = att[a].by
          /\ \A b \in Attempts \ {a} : att'[b] = att[b]
      BY <2>1, <2>2 DEF AttemptRow, TypeOK
    <2>4. /\ scores'[a][w] = marking[m].score
          /\ \A v \in Written \ {w} : scores'[a][v] = scores[a][v]
          /\ \A b \in Attempts \ {a} : scores'[b] = scores[b]
      BY <1>2, <2>1 DEF Regrade, Stored, TypeOK, Sheet
    <2>5. status \in {"submitted", "graded"}
      BY StatusForType
    <2>6. UNCHANGED <<start, submit, redeemed>>
      BY <1>2 DEF Regrade, Stored
    <2>7. \A b \in Attempts \ {a} : log'[b] = log[b]
      BY <1>2, <2>1 DEF Regrade, Stored, Logged, TypeOK
    <2>8. \/ status = "graded" /\ log'[a] = Append(log[a], "graded")
          \/ status = "submitted" /\ log'[a] = log[a]
      BY <1>2, <2>1, <2>5 DEF Regrade, Stored, Logged, TypeOK
    <2>9. RowsFollowStarts'
      BY <2>1, <2>3, <2>5, <2>6, <2>7 DEF RowsFollowStarts
    <2>10. SubmitsHaveRows'
      <3>1. \A s \in Submits : submit[s].phase = "scored" => submit[s].attempt \in Attempts
        BY DEF TypeOK, SubmitRequest, Finished
      <3> QED
        BY <2>1, <2>3, <2>5, <2>6, <3>1 DEF SubmitsHaveRows
    <2>11. MarkersSawWhatStays'
      <3>1. ASSUME NEW z \in Marks, marking'[z].phase = "scored"
            PROVE  marking[z].phase = "scored" /\ marking'[z] = marking[z]
        BY <1>2, <3>1 DEF Regrade, Stored, Finished, TypeOK
      <3>2. ASSUME NEW b \in Attempts, NEW v \in Written, scores[b][v] # NoScore
            PROVE  scores'[b][v] # NoScore
        BY <2>1, <2>4, <3>2 DEF LifecycleAssumption
      <3>3. ASSUME NEW b \in Attempts, att[b].submitted PROVE att'[b].submitted
        BY <2>3, <3>3
      <3>4. ASSUME NEW z \in Marks, marking'[z].phase = "scored"
            PROVE  marking[z].attempt \in Attempts /\ marking[z].question \in Written
        BY <3>1, <3>4, MarkingType
      <3> QED
        BY <3>1, <3>2, <3>3, <3>4 DEF MarkersSawWhatStays
    <2>12. TicketsHeldOnce'
      BY <2>6 DEF TicketsHeldOnce, Holds
    <2>13. GradedIsFullyMarked'
      <3>1. status = "graded" => \A v \in Written : seen[v] # NoScore
        BY DEF StatusFor
      <3>2. ASSUME NEW v \in Written, status = "graded" PROVE scores'[a][v] # NoScore
        <4>1. CASE v = w
          BY <2>1, <2>4, <4>1 DEF LifecycleAssumption
        <4>2. CASE v # w
          <5>1. scores[a][v] # NoScore
            BY <1>2, <3>1, <3>2, <4>2 DEF Regrade, Stored, MarkersSawWhatStays
          <5> QED
            BY <2>4, <4>2, <5>1
        <4> QED
          BY <4>1, <4>2
      <3> HIDE DEF a, w, seen, status
      <3> QED
        BY <2>3, <2>4, <2>5, <3>1, <3>2 DEF GradedIsFullyMarked
    <2>14. LogTellsTheStory'
      <3>1. log[a] \in Seq(EventTypes) /\ log[a] # <<>> /\ WellTold(log[a])
        BY <2>1 DEF TypeOK, LogTellsTheStory
      <3>2. /\ log'[a] # <<>> /\ WellTold(log'[a])
            /\ status = "graded" => Last(log'[a]) = "graded"
        BY <2>8, <3>1, StoryGoesOn
      <3> HIDE DEF a, w, seen, status
      <3> QED
        BY <2>3, <2>5, <2>7, <3>2 DEF LogTellsTheStory
    <2> QED
      BY <2>9, <2>10, <2>11, <2>12, <2>13, <2>14
  <1>3. CASE MarkDies(m)
    <2>1. MarkersSawWhatStays'
      BY <1>3 DEF MarkDies, MarkersSawWhatStays, Finished, TypeOK
    <2> QED
      BY <1>3, <2>1 DEF MarkDies, RowsFollowStarts, SubmitsHaveRows, TicketsHeldOnce,
         Holds, GradedIsFullyMarked, LogTellsTheStory
  <1> QED
    BY <1>1, <1>2, <1>3 DEF MarkStep

\* releaseResults touches graded attempts only, whose log ends with a grading.
LEMMA ReleaseKeeps ==
  ASSUME LifecycleInv, Release
  PROVE  /\ RowsFollowStarts' /\ SubmitsHaveRows' /\ MarkersSawWhatStays' /\ TicketsHeldOnce'
         /\ GradedIsFullyMarked' /\ LogTellsTheStory'
  <1> USE DEF LifecycleInv
  <1>1. ASSUME NEW a \in Attempts
        PROVE  /\ att'[a].submitted = att[a].submitted /\ att'[a].scored = att[a].scored
               /\ att'[a].ticket = att[a].ticket /\ att'[a].by = att[a].by
               /\ \/ att[a].status = "graded" /\ att'[a].status = "released"
                     /\ log'[a] = Append(log[a], "released")
                  \/ att[a].status # "graded" /\ att'[a].status = att[a].status
                     /\ log'[a] = log[a]
    <2>1. att[a] \in AttemptRow
      BY DEF TypeOK
    <2> QED
      BY <2>1 DEF Release, Releasable, AttemptRow
  <1>2. UNCHANGED <<start, submit, marking, scores, redeemed>>
    BY DEF Release, Releasable
  <1>3. RowsFollowStarts'
    BY <1>1, <1>2 DEF RowsFollowStarts
  <1>4. SubmitsHaveRows'
    <2>1. \A s \in Submits : submit[s].phase = "scored" => submit[s].attempt \in Attempts
      BY DEF TypeOK, SubmitRequest, Finished
    <2> QED
      BY <1>1, <1>2, <2>1 DEF SubmitsHaveRows
  <1>5. MarkersSawWhatStays'
    BY <1>1, <1>2, MarkingType DEF MarkersSawWhatStays
  <1>6. TicketsHeldOnce'
    BY <1>2 DEF TicketsHeldOnce, Holds
  <1>7. GradedIsFullyMarked'
    BY <1>1, <1>2 DEF GradedIsFullyMarked
  <1>8. LogTellsTheStory'
    <2> SUFFICES ASSUME NEW a \in Attempts
                 PROVE  /\ att'[a].status # "none" => log'[a] # <<>>
                        /\ WellTold(log'[a])
                        /\ att'[a].status \in {"graded", "released"} => Last(log'[a]) = att'[a].status
      BY DEF LogTellsTheStory
    <2>1. CASE att[a].status = "graded"
      <3>1. /\ log[a] \in Seq(EventTypes) /\ log[a] # <<>> /\ WellTold(log[a])
            /\ Last(log[a]) = "graded"
        BY <2>1 DEF TypeOK, LogTellsTheStory
      <3> QED
        BY <1>1, <2>1, <3>1, StoryGoesOn
    <2>2. CASE att[a].status # "graded"
      BY <1>1, <2>2 DEF LogTellsTheStory
    <2> QED
      BY <2>1, <2>2
  <1> QED
    BY <1>3, <1>4, <1>5, <1>6, <1>7, <1>8

\* Every step keeps the inductive invariant.
LEMMA NextLifecycle ==
  ASSUME LifecycleAssumption, LifecycleInv, [Next]_vars PROVE LifecycleInv'
  <1>1. TypeOK'
    BY NextType DEF LifecycleInv
  <1>2. CASE \E r \in Starts : StartStep(r)
    BY <1>1, <1>2, StartKeepsRows, StartKeepsRest, StartKeepsTickets DEF LifecycleInv
  <1>3. CASE \E s \in Submits : SubmitStep(s)
    BY <1>1, <1>3, SubmitKeeps DEF LifecycleInv
  <1>4. CASE \E m \in Marks : MarkStep(m)
    BY <1>1, <1>4, MarkKeeps DEF LifecycleInv
  <1>5. CASE Release
    BY <1>1, <1>5, ReleaseKeeps DEF LifecycleInv
  <1>6. CASE WindowMoves \/ TicketExpires \/ UNCHANGED vars
    BY <1>1, <1>6 DEF LifecycleInv, WindowMoves, TicketExpires, vars, RowsFollowStarts,
       SubmitsHaveRows, MarkersSawWhatStays, TicketsHeldOnce, Holds, GradedIsFullyMarked,
       LogTellsTheStory
  <1> QED
    BY <1>2, <1>3, <1>4, <1>5, <1>6 DEF Next

\* LifecycleInv is an invariant of the lifecycle.
THEOREM LifecycleInvariant == ASSUME LifecycleAssumption PROVE Spec => []LifecycleInv
  BY InitLifecycle, NextLifecycle, PTL DEF Spec

\* No interleaving of hand-ins, markers and releases publishes an unmarked answer.
THEOREM NothingUnmarkedIsPublished ==
  ASSUME LifecycleAssumption PROVE Spec => []GradedIsFullyMarked
  <1>1. LifecycleInv => GradedIsFullyMarked
    BY DEF LifecycleInv
  <1> QED
    BY <1>1, LifecycleInvariant, PTL

\* A consumer of the events is told the story of every attempt in order.
THEOREM EventsTellTheStory == ASSUME LifecycleAssumption PROVE Spec => []LogTellsTheStory
  <1>1. LifecycleInv => LogTellsTheStory
    BY DEF LifecycleInv
  <1> QED
    BY <1>1, LifecycleInvariant, PTL

\* However many requests race for a ticket, it admits one sitting, its bearer's.
THEOREM TicketAdmitsOne == ASSUME LifecycleAssumption PROVE Spec => []OneSittingPerTicket
  <1>1. ASSUME LifecycleInv PROVE OneSittingPerTicket
    <2> SUFFICES ASSUME NEW a \in Attempts, NEW b \in Attempts, att[a].ticket # NoTicket
                 PROVE  /\ att[a].by = Bearer[att[a].ticket]
                        /\ att[b].ticket = att[a].ticket => a = b
      BY DEF OneSittingPerTicket
    <2>1. ASSUME NEW c \in Attempts, att[c].ticket # NoTicket
          PROVE  Holds(c) /\ att[c].ticket = start[c].ticket /\ att[c].by = start[c].taker
      BY <1>1, <2>1 DEF LifecycleInv, RowsFollowStarts, Holds
    <2> QED
      BY <1>1, <2>1 DEF LifecycleInv, TicketsHeldOnce, Attempts
  <1> QED
    BY <1>1, LifecycleInvariant, PTL

\* The only steps that write the attempts table, a score or an event.
LEMMA WhoWrites ==
  ASSUME [Next]_vars
  PROVE  \/ UNCHANGED <<att, scores, log>> \/ \E r \in Starts : InsertAttempt(r)
         \/ (\E s \in Submits : WriteSubmit(s)) \/ (\E m \in Marks : Regrade(m)) \/ Release
  <1>1. ASSUME NEW r \in Starts, StartStep(r)
        PROVE  InsertAttempt(r) \/ UNCHANGED <<att, scores, log>>
    BY <1>1, StartLeavesTables
  <1>2. ASSUME NEW s \in Submits, SubmitStep(s)
        PROVE  WriteSubmit(s) \/ UNCHANGED <<att, scores, log>>
    BY <1>2 DEF SubmitStep, ReadForSubmit, SubmitDies
  <1>3. ASSUME NEW m \in Marks, MarkStep(m)
        PROVE  Regrade(m) \/ UNCHANGED <<att, scores, log>>
    BY <1>3 DEF MarkStep, UpsertScore, MarkDies
  <1>4. CASE WindowMoves \/ TicketExpires \/ UNCHANGED vars
    BY <1>4 DEF WindowMoves, TicketExpires, vars
  <1> QED
    BY <1>1, <1>2, <1>3, <1>4 DEF Next

\* Nothing a request writes, however stale what it read, takes back a hand-in or a mark.
THEOREM MarkingStands == ASSUME LifecycleAssumption PROVE Spec => NothingIsUnmarked
  <1> DEFINE Stands ==
        \A a \in Attempts :
          /\ att[a].submitted => att'[a].submitted
          /\ \A w \in Written : scores[a][w] # NoScore => scores'[a][w] # NoScore
  <1>1. ASSUME LifecycleInv,
               \/ UNCHANGED <<att, scores, log>> \/ \E r \in Starts : InsertAttempt(r)
               \/ (\E s \in Submits : WriteSubmit(s)) \/ (\E m \in Marks : Regrade(m)) \/ Release
        PROVE  Stands
    <2> USE <1>1 DEF LifecycleInv
    <2>1. CASE \E r \in Starts : InsertAttempt(r)
      <3>1. PICK r \in Starts : InsertAttempt(r)
        BY <2>1
      <3>2. /\ ~att[r].submitted /\ UNCHANGED scores
            /\ \A a \in Attempts \ {r} : att'[a] = att[a]
        BY <3>1, InsertIsFresh
      <3> QED
        BY <3>2
    <2>2. CASE \E s \in Submits : WriteSubmit(s)
      <3>1. PICK s \in Submits : WriteSubmit(s)
        BY <2>2
      <3>2. ASSUME NEW a \in Attempts, att[a].submitted PROVE att'[a].submitted
        <4>1. att[a] \in AttemptRow
          BY DEF TypeOK
        <4> QED
          BY <3>1, <3>2, <4>1 DEF WriteSubmit, TypeOK, AttemptRow
      <3>3. UNCHANGED scores
        BY <3>1 DEF WriteSubmit
      <3> QED
        BY <3>2, <3>3
    <2>3. CASE \E m \in Marks : Regrade(m)
      <3>1. PICK m \in Marks : Regrade(m)
        BY <2>3
      <3>2. /\ marking[m].attempt \in Attempts /\ marking[m].question \in Written
            /\ marking[m].score \in Scores
        BY <3>1, MarkingType DEF Regrade, Stored
      <3>3. \A a \in Attempts : att'[a].submitted = att[a].submitted
        BY <3>1, <3>2 DEF Regrade, Stored, TypeOK, AttemptRow
      <3>4. \A a \in Attempts, w \in Written : scores[a][w] # NoScore => scores'[a][w] # NoScore
        BY <3>1, <3>2 DEF Regrade, Stored, TypeOK, Sheet, LifecycleAssumption
      <3> QED
        BY <3>3, <3>4
    <2>4. CASE Release
      BY <2>4 DEF Release, Releasable, TypeOK, AttemptRow
    <2>5. CASE UNCHANGED <<att, scores, log>>
      BY <2>5
    <2> QED
      BY <2>1, <2>2, <2>3, <2>4, <2>5
  <1>2. LifecycleInv /\ [Next]_vars => [Stands]_vars
    BY <1>1, WhoWrites
  <1> QED
    BY <1>2, LifecycleInvariant, PTL DEF Spec, NothingIsUnmarked

----------------------------------------------------------------------------
(***************************************************************************)
(* The lifecycle implements AttemptRecord.  Each step of a hand-in or of a *)
(* marker is one of its steps, as is an insert and a release; the rest of  *)
(* a start, and time, are hidden from it.                                  *)
(***************************************************************************)
\* An insert starts an attempt.
LEMMA InsertStarts ==
  ASSUME LifecycleInv, NEW r \in Starts, InsertAttempt(r)
  PROVE  Record!Start(r)
  <1>1. /\ att[r].status = "none" /\ ~att[r].submitted /\ log[r] = <<>>
        /\ att'[r].status = "in_progress" /\ ~att'[r].submitted /\ log'[r] = <<"started">>
        /\ att'[r].scored = Unmarked
        /\ \A a \in Attempts \ {r} : att'[a] = att[a] /\ log'[a] = log[a]
        /\ UNCHANGED <<submit, marking, scores>>
    <2>1. TypeOK /\ RowsFollowStarts
      BY DEF LifecycleInv
    <2>2. /\ att[r].status = "none" /\ ~att[r].submitted /\ log[r] = <<>>
          /\ att'[r] = [status |-> "in_progress", by |-> start[r].taker,
                        ticket |-> start[r].ticket, submitted |-> FALSE, scored |-> Unmarked]
          /\ log'[r] = <<"started">>
          /\ \A a \in Attempts \ {r} : att'[a] = att[a] /\ log'[a] = log[a]
          /\ UNCHANGED <<submit, marking, scores>>
      BY <2>1, InsertIsFresh
    <2> QED
      BY <2>2
  <1>2. Logged(r, "started")
    BY DEF InsertAttempt
  <1>3. UNCHANGED <<HandInsUnderWay, MarkersUnderWay, StaleMarkers>>
    BY <1>1 DEF HandInsUnderWay, MarkersUnderWay, StaleMarkers
  <1>4. /\ [a \in Attempts |-> att'[a].status] =
              [[a \in Attempts |-> att[a].status] EXCEPT ![r] = "in_progress"]
        /\ [a \in Attempts |-> att'[a].scored] =
              [[a \in Attempts |-> att[a].scored] EXCEPT ![r] = Unmarked]
    BY <1>1 DEF Attempts
  <1>5. {a \in Attempts : att'[a].submitted} = {a \in Attempts : att[a].submitted}
    BY <1>1
  <1> QED
    BY <1>1, <1>2, <1>3, <1>4, <1>5 DEF Record!Start, Record!Becomes, Record!Told,
       Record!Blanks, Unmarked, Logged, Attempts

\* The requests under way after one of them has moved on.
LEMMA HandInsMove ==
  ASSUME NEW s \in Submits, submit' = [submit EXCEPT ![s] = Finished], LifecycleInv
  PROVE  HandInsUnderWay' = HandInsUnderWay \ ({s} \X Attempts)
  BY DEF HandInsUnderWay, Finished, LifecycleInv, TypeOK

\* A marker that ends is under way no more; nobody else is any the staler for it.
LEMMA MarkersMove ==
  ASSUME NEW m \in Marks, marking' = [marking EXCEPT ![m] = Finished], LifecycleInv
  PROVE  /\ MarkersUnderWay' = MarkersUnderWay \ ({m} \X Attempts)
         /\ UNCHANGED scores => StaleMarkers' = StaleMarkers \ {m}
  BY DEF MarkersUnderWay, StaleMarkers, Finished, LifecycleInv, TypeOK

\* What a hand-in about to commit is about.
LEMMA HandInType ==
  ASSUME LifecycleInv, NEW s \in Submits, submit[s].phase = "scored"
  PROVE  submit[s].attempt \in Attempts /\ att[submit[s].attempt].status # "none"
  <1>1. submit[s] \in SubmitRequest
    BY DEF LifecycleInv, TypeOK
  <1> QED
    BY <1>1 DEF SubmitRequest, Finished, LifecycleInv, SubmitsHaveRows

\* A hand-in that reads begins, or finds the attempt in and is over.
LEMMA ReadBeginsHandIn ==
  ASSUME LifecycleInv, NEW s \in Submits, ReadForSubmit(s)
  PROVE  (\E a \in Attempts : Record!BeginHandIn(s, a)) \/ UNCHANGED Record!vars
  <1>1. PICK a \in Attempts :
           /\ att[a].status # "none"
           /\ submit' = [submit EXCEPT ![s] = IF att[a].submitted THEN Finished
                                              ELSE [phase |-> "scored", attempt |-> a]]
    BY DEF ReadForSubmit
  <1>2. submit[s].phase = "new" /\ submit \in [Submits -> SubmitRequest]
    BY DEF ReadForSubmit, LifecycleInv, TypeOK
  <1>3. UNCHANGED <<att, scores, log, marking>>
    BY DEF ReadForSubmit
  <1>4. UNCHANGED <<MarkersUnderWay, StaleMarkers>>
    BY <1>3 DEF MarkersUnderWay, StaleMarkers
  <1>5. CASE att[a].submitted
    <2>1. UNCHANGED HandInsUnderWay
      BY <1>1, <1>2, <1>5 DEF HandInsUnderWay, Finished
    <2> QED
      BY <1>3, <1>4, <2>1 DEF Record!vars
  <1>6. CASE ~att[a].submitted
    <2>1. HandInsUnderWay' = HandInsUnderWay \cup {<<s, a>>}
      BY <1>1, <1>2, <1>6 DEF HandInsUnderWay
    <2> QED
      BY <1>1, <1>3, <1>4, <1>6, <2>1 DEF Record!BeginHandIn
  <1> QED
    BY <1>5, <1>6

\* A hand-in's transaction hands in, the first time and the second.
LEMMA WriteHandsIn ==
  ASSUME LifecycleInv, NEW s \in Submits, WriteSubmit(s)
  PROVE  \E a \in Attempts : Record!HandIn(s, a)
  <1> DEFINE status == StatusFor(Unmarked)
  <1>1. PICK a \in Attempts : a = submit[s].attempt /\ submit[s].phase = "scored"
    BY HandInType DEF WriteSubmit
  <1>2. status = IF Written = {} THEN "graded" ELSE "submitted"
    BY DEF StatusFor, Unmarked
  <1>3. /\ att'[a].status = status /\ att'[a].submitted /\ att'[a].scored = Unmarked
        /\ \A b \in Attempts \ {a} : att'[b] = att[b]
        /\ Logged(a, status) /\ UNCHANGED <<scores, marking>>
    BY <1>1 DEF WriteSubmit, LifecycleInv, TypeOK, AttemptRow
  <1> HIDE DEF status
  <1>4. UNCHANGED <<MarkersUnderWay, StaleMarkers>>
    BY <1>3 DEF MarkersUnderWay, StaleMarkers
  <1>5. <<s, a>> \in HandInsUnderWay /\ HandInsUnderWay' = HandInsUnderWay \ {<<s, a>>}
    <2>1. HandInsUnderWay' = HandInsUnderWay \ ({s} \X Attempts)
      BY HandInsMove DEF WriteSubmit
    <2> QED
      BY <1>1, <2>1 DEF HandInsUnderWay
  <1>6. /\ [b \in Attempts |-> att'[b].status] =
              [[b \in Attempts |-> att[b].status] EXCEPT ![a] = status]
        /\ [b \in Attempts |-> att'[b].scored] =
              [[b \in Attempts |-> att[b].scored] EXCEPT ![a] = Unmarked]
        /\ {b \in Attempts : att'[b].submitted} = {b \in Attempts : att[b].submitted} \cup {a}
    BY <1>1, <1>3
  <1>7. Record!HandIn(s, a)
    BY <1>1, <1>2, <1>3, <1>4, <1>5, <1>6 DEF Record!HandIn, Record!Becomes, Record!Told,
       Record!Blanks, Unmarked, Logged
  <1> QED
    BY <1>1, <1>7

\* A hand-in that dies comes to nothing.
LEMMA HandInComesToNothing ==
  ASSUME LifecycleInv, NEW s \in Submits, SubmitDies(s)
  PROVE  \E a \in Attempts : Record!HandInDies(s, a)
  <1>1. PICK a \in Attempts : a = submit[s].attempt /\ submit[s].phase = "scored"
    BY HandInType DEF SubmitDies
  <1>2. UNCHANGED <<att, scores, log, marking>>
    BY DEF SubmitDies
  <1>3. UNCHANGED <<MarkersUnderWay, StaleMarkers>>
    BY <1>2 DEF MarkersUnderWay, StaleMarkers
  <1>4. <<s, a>> \in HandInsUnderWay /\ HandInsUnderWay' = HandInsUnderWay \ {<<s, a>>}
    <2>1. HandInsUnderWay' = HandInsUnderWay \ ({s} \X Attempts)
      BY HandInsMove DEF SubmitDies
    <2> QED
      BY <1>1, <2>1 DEF HandInsUnderWay
  <1>5. Record!HandInDies(s, a)
    BY <1>2, <1>3, <1>4 DEF Record!HandInDies
  <1> QED
    BY <1>5

\* A marker that reads begins, and has missed nothing yet.
LEMMA UpsertBeginsMark ==
  ASSUME LifecycleInv, NEW m \in Marks, UpsertScore(m)
  PROVE  \E a \in Attempts : Record!BeginMark(m, a)
  <1>1. PICK a \in Attempts, w \in Written, n \in Scores :
           /\ att[a].submitted
           /\ marking' = [marking EXCEPT ![m] =
                 [phase |-> "scored", attempt |-> a, question |-> w, score |-> n,
                  seen |-> [scores[a] EXCEPT ![w] = n]]]
    BY DEF UpsertScore
  <1>2. marking[m].phase = "new" /\ marking \in [Marks -> MarkRequest] /\ scores[a] \in Sheet
    BY DEF UpsertScore, LifecycleInv, TypeOK
  <1>3. UNCHANGED <<att, scores, log, submit>>
    BY DEF UpsertScore
  <1>4. UNCHANGED HandInsUnderWay
    BY <1>3 DEF HandInsUnderWay
  <1>5. MarkersUnderWay' = MarkersUnderWay \cup {<<m, a>>}
    BY <1>1, <1>2 DEF MarkersUnderWay
  <1>6. UNCHANGED StaleMarkers
    <2>1. \A o \in Marks \ {m} : marking'[o] = marking[o]
      BY <1>1, <1>2
    <2>2. /\ marking'[m].attempt = a /\ marking'[m].question = w
          /\ \A v \in Written \ {w} : marking'[m].seen[v] = scores[a][v]
      BY <1>1, <1>2 DEF Sheet
    <2>3. m \notin StaleMarkers /\ m \notin StaleMarkers'
      BY <1>2, <1>3, <2>2 DEF StaleMarkers
    <2>4. \A o \in Marks \ {m} : o \in StaleMarkers' <=> o \in StaleMarkers
      BY <1>3, <2>1 DEF StaleMarkers
    <2> QED
      BY <2>3, <2>4 DEF StaleMarkers
  <1>7. Record!BeginMark(m, a)
    BY <1>1, <1>3, <1>4, <1>5, <1>6 DEF Record!BeginMark
  <1> QED
    BY <1>7

\* A marker that dies comes to nothing.
LEMMA MarkComesToNothing ==
  ASSUME LifecycleInv, NEW m \in Marks, MarkDies(m)
  PROVE  \E a \in Attempts : Record!MarkDies(m, a)
  <1>1. PICK a \in Attempts : a = marking[m].attempt /\ marking[m].phase = "scored"
    BY MarkingType DEF MarkDies, LifecycleInv
  <1>2. UNCHANGED <<att, scores, log, submit>>
    BY DEF MarkDies
  <1>3. UNCHANGED HandInsUnderWay
    BY <1>2 DEF HandInsUnderWay
  <1>4. /\ MarkersUnderWay' = MarkersUnderWay \ ({m} \X Attempts)
        /\ StaleMarkers' = StaleMarkers \ {m}
    BY <1>2, MarkersMove DEF MarkDies
  <1>5. <<m, a>> \in MarkersUnderWay /\ MarkersUnderWay' = MarkersUnderWay \ {<<m, a>>}
    BY <1>1, <1>4 DEF MarkersUnderWay
  <1>6. Record!MarkDies(m, a)
    BY <1>2, <1>3, <1>4, <1>5 DEF Record!MarkDies
  <1> QED
    BY <1>6

\* A mark that lands can make stale those who mark the same attempt, and nobody else.
LEMMA MarkLeavesStale ==
  ASSUME LifecycleAssumption, LifecycleInv, NEW m \in Marks, Regrade(m),
         NEW a \in Attempts, a = marking[m].attempt
  PROVE  \E S \in SUBSET {o \in Marks \ {m} : <<o, a>> \in MarkersUnderWay} :
            StaleMarkers' =
                (StaleMarkers \ ({o \in Marks \ {m} : <<o, a>> \in MarkersUnderWay} \cup {m})) \cup S
  <1> DEFINE others == {o \in Marks \ {m} : <<o, a>> \in MarkersUnderWay}
             S == {o \in others : o \in StaleMarkers'}
  <1>1. /\ marking' = [marking EXCEPT ![m] = Finished] /\ marking \in [Marks -> MarkRequest]
        /\ marking[m].phase = "scored"
    BY DEF Regrade, LifecycleInv, TypeOK
  <1>2. \A b \in Attempts \ {a} : scores'[b] = scores[b]
    BY DEF Regrade, Stored, LifecycleInv, TypeOK
  <1>3. m \notin StaleMarkers'
    BY <1>1 DEF StaleMarkers, Finished
  <1>4. \A o \in Marks \ {m} : o \notin others => (o \in StaleMarkers' <=> o \in StaleMarkers)
    <2> SUFFICES ASSUME NEW o \in Marks \ {m}, o \notin others
                 PROVE  o \in StaleMarkers' <=> o \in StaleMarkers
      OBVIOUS
    <2>1. marking'[o] = marking[o]
      BY <1>1
    <2>2. CASE marking[o].phase # "scored"
      BY <2>1, <2>2 DEF StaleMarkers
    <2>3. CASE marking[o].phase = "scored"
      <3>1. marking[o].attempt \in Attempts \ {a}
        BY <2>3, MarkingType DEF MarkersUnderWay, LifecycleInv
      <3>2. scores'[marking[o].attempt] = scores[marking[o].attempt]
        BY <1>2, <3>1
      <3> QED
        BY <2>1, <3>2 DEF StaleMarkers
    <2> QED
      BY <2>2, <2>3
  <1>5. StaleMarkers \subseteq Marks /\ StaleMarkers' \subseteq Marks
    BY DEF StaleMarkers
  <1>6. StaleMarkers' = (StaleMarkers \ (others \cup {m})) \cup S
    BY <1>3, <1>4, <1>5
  <1> QED
    BY <1>6

\* A marker's transaction marks one answer.  What it takes for marked is marked for good,
\* and unless it has missed a mark it saw the marks as they are once it commits.
LEMMA RegradeMarks ==
  ASSUME LifecycleAssumption, LifecycleInv, NEW m \in Marks, Regrade(m)
  PROVE  \E a \in Attempts : Record!Mark(m, a)
  <1> DEFINE w == marking[m].question
             n == marking[m].score
             seen == marking[m].seen
             status == StatusFor(seen)
  <1>1. PICK a \in Attempts :
           /\ a = marking[m].attempt /\ marking[m].phase = "scored"
           /\ w \in Written /\ n \in Scores /\ seen \in Sheet /\ att[a].submitted
    BY MarkingType DEF Regrade, LifecycleInv, MarkersSawWhatStays
  <1>2. /\ att'[a].status = status /\ att'[a].submitted = att[a].submitted
        /\ att'[a].scored = seen
        /\ \A b \in Attempts \ {a} : att'[b] = att[b]
    BY <1>1 DEF Regrade, LifecycleInv, TypeOK, AttemptRow
  <1>3. scores' = [scores EXCEPT ![a][w] = n] /\ scores[a] \in Sheet /\ scores'[a] \in Sheet
    BY <1>1 DEF Regrade, Stored, LifecycleInv, TypeOK, Sheet
  <1>4. seen[w] = n
    BY <1>1 DEF LifecycleInv, MarkersSawWhatStays
  <1>5. \A v \in Written : seen[v] # NoScore => scores'[a][v] # NoScore
    <2> SUFFICES ASSUME NEW v \in Written, seen[v] # NoScore PROVE scores'[a][v] # NoScore
      OBVIOUS
    <2>1. v # w => scores[a][v] # NoScore
      BY <1>1 DEF LifecycleInv, MarkersSawWhatStays
    <2> QED
      BY <1>1, <1>3, <2>1 DEF LifecycleInv, TypeOK, Sheet, LifecycleAssumption
  <1>6. m \in StaleMarkers \/ seen = scores'[a]
    <2> SUFFICES ASSUME m \notin StaleMarkers PROVE seen = scores'[a]
      OBVIOUS
    <2>1. \A v \in Written \ {w} : seen[v] = scores[a][v]
      BY <1>1 DEF StaleMarkers
    <2>2. \A v \in Written : seen[v] = scores'[a][v]
      BY <1>1, <1>3, <1>4, <2>1 DEF LifecycleInv, TypeOK, Sheet
    <2> QED
      BY <1>1, <1>3, <2>2 DEF Sheet
  <1>7. IF \E v \in Written : seen[v] = NoScore
        THEN status = "submitted" /\ UNCHANGED log
        ELSE status = "graded" /\ Logged(a, "graded")
    BY <1>1 DEF Regrade, StatusFor
  <1> HIDE DEF status
  <1>8. [b \in Attempts |-> att'[b].status] = [[b \in Attempts |-> att[b].status] EXCEPT ![a] = status]
    BY <1>1, <1>2
  <1>9. /\ [b \in Attempts |-> att'[b].scored] =
              [[b \in Attempts |-> att[b].scored] EXCEPT ![a] = seen]
        /\ {b \in Attempts : att'[b].submitted} = {b \in Attempts : att[b].submitted}
    BY <1>1, <1>2
  <1>10. UNCHANGED HandInsUnderWay
    BY DEF Regrade, HandInsUnderWay
  <1>11. <<m, a>> \in MarkersUnderWay /\ MarkersUnderWay' = MarkersUnderWay \ {<<m, a>>}
    <2>1. MarkersUnderWay' = MarkersUnderWay \ ({m} \X Attempts)
      BY MarkersMove DEF Regrade
    <2> QED
      BY <1>1, <2>1 DEF MarkersUnderWay
  <1>12. \E S \in SUBSET {o \in Marks \ {m} : <<o, a>> \in MarkersUnderWay} :
            StaleMarkers' =
                (StaleMarkers \ ({o \in Marks \ {m} : <<o, a>> \in MarkersUnderWay} \cup {m})) \cup S
    BY <1>1, MarkLeavesStale
  <1>13. seen \in Record!Sheets
    BY <1>1 DEF Sheet, Record!Sheets
  <1> HIDE DEF w, n, seen
  <1>14. Record!Mark(m, a)
    <2>1. \E v \in Written, k \in Scores : scores' = [scores EXCEPT ![a][v] = k]
      BY <1>1, <1>3
    <2>2. \E sheet \in Record!Sheets :
             /\ m \in StaleMarkers \/ sheet = scores'[a]
             /\ \A v \in Written : sheet[v] # NoScore => scores'[a][v] # NoScore
             /\ [b \in Attempts |-> att'[b].scored] =
                   [[b \in Attempts |-> att[b].scored] EXCEPT ![a] = sheet]
             /\ IF \E v \in Written : sheet[v] = NoScore
                THEN Record!Becomes(a, "submitted") /\ UNCHANGED log
                ELSE Record!Becomes(a, "graded") /\ Record!Told(a, "graded")
      <3>1. IF \E v \in Written : seen[v] = NoScore
            THEN Record!Becomes(a, "submitted") /\ UNCHANGED log
            ELSE Record!Becomes(a, "graded") /\ Record!Told(a, "graded")
        BY <1>7, <1>8 DEF Record!Becomes, Record!Told, Logged
      <3> QED
        BY <1>5, <1>6, <1>9, <1>13, <3>1
    <2> QED
      BY <1>9, <1>10, <1>11, <1>12, <2>1, <2>2 DEF Record!Mark
  <1> QED
    BY <1>14

\* A release releases what is graded.
LEMMA ReleaseReleases ==
  ASSUME LifecycleInv, Release
  PROVE  Record!Release
  <1>1. \A a \in Attempts :
           /\ att'[a].submitted = att[a].submitted /\ att'[a].scored = att[a].scored
           /\ att'[a].status = IF att[a].status = "graded" THEN "released" ELSE att[a].status
           /\ log'[a] = IF att[a].status = "graded" THEN Append(log[a], "released") ELSE log[a]
    <2> SUFFICES ASSUME NEW a \in Attempts
                 PROVE  /\ att'[a].submitted = att[a].submitted
                        /\ att'[a].scored = att[a].scored
                        /\ att'[a].status = IF att[a].status = "graded" THEN "released"
                                                                        ELSE att[a].status
                        /\ log'[a] = IF att[a].status = "graded" THEN Append(log[a], "released")
                                                                 ELSE log[a]
      OBVIOUS
    <2>1. att[a] \in AttemptRow
      BY DEF LifecycleInv, TypeOK
    <2> QED
      BY <2>1 DEF Release, Releasable, AttemptRow
  <1>2. UNCHANGED <<scores, submit, marking>> /\ log' = [a \in Attempts |-> log'[a]]
    BY DEF Release
  <1>3. UNCHANGED <<HandInsUnderWay, MarkersUnderWay, StaleMarkers>>
    BY <1>2 DEF HandInsUnderWay, MarkersUnderWay, StaleMarkers
  <1> QED
    BY <1>1, <1>2, <1>3 DEF Record!Release

\* Whatever requests overlap, die or decide on what they read before, attempts go the way
\* AttemptRecord says: status, total and log are those of the marks but where a hand-in
\* or a marker missed what landed after it had read, and no mark is lost (startAttempt,
\* submitAttempt, scoreWrittenAnswer, releaseResults).
THEOREM AttemptsAreOnRecord == ASSUME LifecycleAssumption PROVE Spec => RefinesAttemptRecord
  <1>1. Init => Record!Init
    <2> SUFFICES ASSUME Init PROVE Record!Init
      OBVIOUS
    <2>1. HandInsUnderWay = {} /\ MarkersUnderWay = {} /\ StaleMarkers = {}
      BY DEF Init, HandInsUnderWay, MarkersUnderWay, StaleMarkers
    <2> QED
      BY <2>1 DEF Init, NoRow, Unmarked, Record!Init, Record!Blanks
  <1>2. ASSUME LifecycleInv, [Next]_vars
        PROVE  [Record!Next]_(Record!vars)
    <2>1. ASSUME NEW a \in Attempts, Record!Start(a)
          PROVE  Record!Next
      BY <2>1 DEF Record!Next
    <2>2. ASSUME NEW a \in Attempts, NEW s \in Submits,
                 Record!BeginHandIn(s, a) \/ Record!HandIn(s, a) \/ Record!HandInDies(s, a)
          PROVE  Record!Next
      BY <2>2 DEF Record!Next, Record!HandInStep
    <2>3. ASSUME NEW a \in Attempts, NEW m \in Marks,
                 Record!BeginMark(m, a) \/ Record!Mark(m, a) \/ Record!MarkDies(m, a)
          PROVE  Record!Next
      BY <2>3 DEF Record!Next, Record!MarkStep
    <2>4. CASE UNCHANGED <<submit, marking, att, scores, log>>
      <3>1. UNCHANGED <<HandInsUnderWay, MarkersUnderWay, StaleMarkers>>
        BY <2>4 DEF HandInsUnderWay, MarkersUnderWay, StaleMarkers
      <3> QED
        BY <2>4, <3>1 DEF Record!vars
    <2>5. ASSUME NEW r \in Starts, StartStep(r)
          PROVE  [Record!Next]_(Record!vars)
      <3>1. CASE InsertAttempt(r)
        BY <1>2, <2>1, <3>1, InsertStarts DEF Attempts
      <3>2. CASE ~InsertAttempt(r)
        BY <2>4, <2>5, <3>2, StartLeavesTables
      <3> QED
        BY <3>1, <3>2
    <2>6. ASSUME NEW s \in Submits, SubmitStep(s)
          PROVE  [Record!Next]_(Record!vars)
      <3>1. CASE ReadForSubmit(s)
        BY <1>2, <2>2, <3>1, ReadBeginsHandIn
      <3>2. CASE WriteSubmit(s)
        BY <1>2, <2>2, <3>2, WriteHandsIn
      <3>3. CASE SubmitDies(s)
        BY <1>2, <2>2, <3>3, HandInComesToNothing
      <3> QED
        BY <2>6, <3>1, <3>2, <3>3 DEF SubmitStep
    <2>7. ASSUME NEW m \in Marks, MarkStep(m)
          PROVE  [Record!Next]_(Record!vars)
      <3>1. CASE UpsertScore(m)
        BY <1>2, <2>3, <3>1, UpsertBeginsMark
      <3>2. CASE Regrade(m)
        BY <1>2, <2>3, <3>2, RegradeMarks
      <3>3. CASE MarkDies(m)
        BY <1>2, <2>3, <3>3, MarkComesToNothing
      <3> QED
        BY <2>7, <3>1, <3>2, <3>3 DEF MarkStep
    <2>8. CASE Release
      BY <1>2, <2>8, ReleaseReleases DEF Record!Next
    <2>9. CASE WindowMoves \/ TicketExpires \/ UNCHANGED vars
      BY <2>4, <2>9 DEF WindowMoves, TicketExpires, vars
    <2> QED
      BY <1>2, <2>5, <2>6, <2>7, <2>8, <2>9 DEF Next
  <1> QED
    BY <1>1, <1>2, LifecycleInvariant, PTL DEF Spec, RefinesAttemptRecord, Record!Spec

----------------------------------------------------------------------------
(***************************************************************************)
(* The limit on attempts.  What startAttempt counts are the starts that    *)
(* are done.  For a taker whose starts never overlapped, at most one start *)
(* is between its count and its insert, and there is room for its row.     *)
(***************************************************************************)
DoneOf(t) == {r \in Starts : start[r].phase = "done" /\ start[r].taker = t}
AllowedOf(t) == {r \in Starts : start[r].phase = "allowed" /\ start[r].taker = t}

Room(t) == /\ Cardinality(DoneOf(t)) <= MaxAttempts
           /\ AllowedOf(t) # {} => Cardinality(DoneOf(t)) < MaxAttempts
           /\ \A r, q \in AllowedOf(t) : r = q

RoomForTheAllowed == \A t \in Takers \ raced : Room(t)

\* The rows a start counts are those of the starts that are done.
LEMMA SittingsAreDone == ASSUME RowsFollowStarts, NEW t PROVE SittingsOf(t) = DoneOf(t)
  BY DEF RowsFollowStarts, SittingsOf, DoneOf, Attempts

\* The starts of a taker that are done are finitely many.
LEMMA DoneIsFinite ==
  ASSUME LifecycleAssumption, NEW t
  PROVE  IsFiniteSet(DoneOf(t)) /\ Cardinality(DoneOf(t)) \in Nat
  BY FS_Subset, FS_CardinalityType DEF LifecycleAssumption, DoneOf

\* A taker keeps their room while none of their starts is newly allowed or done.
LEMMA RoomStays ==
  ASSUME NEW t, Room(t), DoneOf(t)' = DoneOf(t), AllowedOf(t)' \subseteq AllowedOf(t)
  PROVE  Room(t)'
  BY DEF Room

\* A start that neither passes the count nor inserts takes no room.
LEMMA OthersTakeNoRoom ==
  ASSUME TypeOK, RoomForTheAllowed, NEW r \in Starts, StartStep(r),
         ~CountTaken(r), ~InsertAttempt(r)
  PROVE  RoomForTheAllowed'
  <1>1. /\ \A q \in Starts \ {r} : start'[q] = start[q]
        /\ start[r].phase # "done" /\ start'[r].phase \notin {"allowed", "done"}
        /\ UNCHANGED raced
    <2>1. CASE Admit(r)
      BY <2>1 DEF Admit, TypeOK
    <2>2. CASE ClaimTicket(r)
      BY <2>2 DEF ClaimTicket, TypeOK, StartRequest
    <2>3. CASE TakeTheirWord(r) \/ TicketSpent(r) \/ StartDies(r)
      BY <2>3, StartGoesOn DEF TakeTheirWord, TicketSpent, StartDies
    <2> QED
      BY <2>1, <2>2, <2>3 DEF StartStep
  <1> SUFFICES ASSUME NEW t \in Takers \ raced PROVE Room(t)'
    BY <1>1 DEF RoomForTheAllowed
  <1>2. DoneOf(t)' = DoneOf(t) /\ AllowedOf(t)' \subseteq AllowedOf(t)
    BY <1>1 DEF DoneOf, AllowedOf
  <1> QED
    BY <1>2, RoomStays DEF RoomForTheAllowed

\* A start that passes the count found room, and is alone in it or a race.
LEMMA CountFindsRoom ==
  ASSUME LifecycleAssumption, TypeOK, RowsFollowStarts, RoomForTheAllowed,
         NEW r \in Starts, CountTaken(r)
  PROVE  RoomForTheAllowed'
  <1> DEFINE taker == start[r].taker
  <1>1. start[r].phase = "identified"
    BY DEF CountTaken
  <1> SUFFICES ASSUME NEW t \in Takers \ raced' PROVE Room(t)'
    BY DEF RoomForTheAllowed
  <1>2. t \in Takers \ raced /\ Room(t)
    BY DEF CountTaken, RoomForTheAllowed
  <1>3. CASE UsedUp(taker)
    <2>1. StartGoes(r, "refused")
      BY <1>3 DEF CountTaken
    <2>2. DoneOf(t)' = DoneOf(t) /\ AllowedOf(t)' \subseteq AllowedOf(t)
      BY <1>1, <2>1, StartGoesOn DEF DoneOf, AllowedOf
    <2> QED
      BY <1>2, <2>2, RoomStays
  <1>4. CASE ~UsedUp(taker)
    <2>1. /\ start'[r].phase = "allowed" /\ start'[r].taker = taker
          /\ \A q \in Starts \ {r} : start'[q] = start[q]
      <3>1. StartGoes(r, "allowed")
        BY <1>4 DEF CountTaken
      <3> QED
        BY <3>1, StartGoesOn
    <2>2. DoneOf(t)' = DoneOf(t)
      BY <1>1, <2>1 DEF DoneOf
    <2>3. CASE t # taker
      <3>1. AllowedOf(t)' \subseteq AllowedOf(t)
        BY <2>1, <2>3 DEF AllowedOf
      <3> QED
        BY <1>2, <2>2, <3>1, RoomStays
    <2>4. CASE t = taker
      <3>1. AllowedOf(t) = {}
        BY <1>4, <2>4 DEF CountTaken, AllowedOf
      <3>2. AllowedOf(t)' = {r}
        BY <2>1, <2>4, <3>1 DEF AllowedOf
      <3>3. Cardinality(DoneOf(t)) < MaxAttempts
        BY <1>4, <2>4, SittingsAreDone, DoneIsFinite DEF UsedUp, LifecycleAssumption
      <3>4. Cardinality(DoneOf(t)) <= MaxAttempts
        BY <1>2 DEF Room
      <3> QED
        BY <2>2, <3>2, <3>3, <3>4 DEF Room
    <2> QED
      BY <2>3, <2>4
  <1> QED
    BY <1>3, <1>4

\* An insert takes the room that was there for it, and leaves nobody else allowed.
LEMMA InsertTakesRoom ==
  ASSUME LifecycleAssumption, TypeOK, RoomForTheAllowed, NEW r \in Starts, InsertAttempt(r)
  PROVE  RoomForTheAllowed'
  <1> DEFINE taker == start[r].taker
  <1>1. /\ start[r].phase = "allowed"
        /\ start'[r].phase = "done" /\ start'[r].taker = taker
        /\ \A q \in Starts \ {r} : start'[q] = start[q]
    BY StartGoesOn DEF InsertAttempt
  <1> SUFFICES ASSUME NEW t \in Takers \ raced PROVE Room(t)'
    BY DEF RoomForTheAllowed, InsertAttempt
  <1>2. Room(t)
    BY DEF RoomForTheAllowed
  <1>3. CASE t # taker
    <2>1. DoneOf(t)' = DoneOf(t) /\ AllowedOf(t)' \subseteq AllowedOf(t)
      BY <1>1, <1>3 DEF DoneOf, AllowedOf
    <2> QED
      BY <1>2, <2>1, RoomStays
  <1>4. CASE t = taker
    <2>1. r \in AllowedOf(t)
      BY <1>1, <1>4 DEF AllowedOf
    <2>2. AllowedOf(t)' = {}
      BY <1>1, <1>2, <2>1 DEF AllowedOf, Room
    <2>3. DoneOf(t)' = DoneOf(t) \cup {r}
      BY <1>1, <1>4 DEF DoneOf
    <2>4. IsFiniteSet(DoneOf(t)) /\ Cardinality(DoneOf(t)) \in Nat
      BY DoneIsFinite
    <2>5. \/ Cardinality(DoneOf(t) \cup {r}) = Cardinality(DoneOf(t))
          \/ Cardinality(DoneOf(t) \cup {r}) = Cardinality(DoneOf(t)) + 1
      BY <2>4, FS_AddElement
    <2>6. Cardinality(DoneOf(t)) < MaxAttempts
      BY <1>2, <2>1 DEF Room
    <2>7. Cardinality(DoneOf(t) \cup {r}) <= MaxAttempts
      BY <2>4, <2>5, <2>6 DEF LifecycleAssumption
    <2> QED
      BY <2>2, <2>3, <2>7 DEF Room
  <1> QED
    BY <1>3, <1>4

\* RoomForTheAllowed is an invariant of the lifecycle.
LEMMA RoomInvariant == ASSUME LifecycleAssumption PROVE Spec => []RoomForTheAllowed
  <1>1. ASSUME Init PROVE RoomForTheAllowed
    <2>1. \A t : DoneOf(t) = {} /\ AllowedOf(t) = {}
      BY <1>1 DEF Init, NewStart, DoneOf, AllowedOf
    <2> QED
      BY <2>1, FS_EmptySet DEF RoomForTheAllowed, Room, LifecycleAssumption
  <1>2. ASSUME LifecycleInv, RoomForTheAllowed, [Next]_vars
        PROVE  RoomForTheAllowed'
    <2>1. TypeOK /\ RowsFollowStarts
      BY <1>2 DEF LifecycleInv
    <2>2. ASSUME NEW r \in Starts, StartStep(r) PROVE RoomForTheAllowed'
      <3>1. CASE CountTaken(r)
        BY <1>2, <2>1, <3>1, CountFindsRoom
      <3>2. CASE InsertAttempt(r)
        BY <1>2, <2>1, <3>2, InsertTakesRoom
      <3>3. CASE ~CountTaken(r) /\ ~InsertAttempt(r)
        BY <1>2, <2>1, <2>2, <3>3, OthersTakeNoRoom
      <3> QED
        BY <3>1, <3>2, <3>3
    <2>3. CASE UNCHANGED <<start, raced>>
      <3>1. \A t : DoneOf(t)' = DoneOf(t) /\ AllowedOf(t)' = AllowedOf(t)
        BY <2>3 DEF DoneOf, AllowedOf
      <3>2. \A t : Room(t) => Room(t)'
        BY <3>1, RoomStays
      <3> QED
        BY <1>2, <2>3, <3>2 DEF RoomForTheAllowed
    <2>4. ASSUME NEW s \in Submits, SubmitStep(s) PROVE UNCHANGED <<start, raced>>
      BY <2>4 DEF SubmitStep, ReadForSubmit, WriteSubmit, SubmitDies
    <2>5. ASSUME NEW m \in Marks, MarkStep(m) PROVE UNCHANGED <<start, raced>>
      BY <2>5 DEF MarkStep, UpsertScore, Regrade, MarkDies
    <2>6. CASE Release \/ WindowMoves \/ TicketExpires \/ UNCHANGED vars
      BY <2>3, <2>6 DEF Release, WindowMoves, TicketExpires, vars
    <2> QED
      BY <1>2, <2>2, <2>3, <2>4, <2>5, <2>6 DEF Next
  <1> QED
    BY <1>1, <1>2, LifecycleInvariant, PTL DEF Spec

\* Only starts that overlap get past the limit: a taker whose starts came one at a time
\* has sat no more often than maxAttempts, however many of them were refused, died half
\* way or were retried (startAttempt's count and its insert).
THEOREM OneAtATimeKeepsTheLimit ==
  ASSUME LifecycleAssumption PROVE Spec => []LimitHoldsOneAtATime
  <1>1. ASSUME LifecycleInv, RoomForTheAllowed PROVE LimitHoldsOneAtATime
    BY <1>1, SittingsAreDone DEF LifecycleInv, RoomForTheAllowed, Room, LimitHoldsOneAtATime
  <1> QED
    BY <1>1, LifecycleInvariant, RoomInvariant, PTL

=============================================================================
