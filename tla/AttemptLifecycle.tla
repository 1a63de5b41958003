-------------------------- MODULE AttemptLifecycle --------------------------
(***************************************************************************)
(* Attempts at one published test, from startAttempt to a released mark,   *)
(* as the API's concurrent requests see them.  A handler reads through     *)
(* ctx.db and then writes in a transaction under READ COMMITTED: what it   *)
(* read may be out of date by the time it commits.  Each handler is        *)
(* therefore split where another request can come between, and nowhere     *)
(* else: the writes of a transaction appear together when it commits.      *)
(*                                                                         *)
(* Only hand-marked questions are kept: auto-marking is a function of the  *)
(* responses, which AnswerSheet models.                                    *)
(***************************************************************************)
EXTENDS Naturals, Sequences, FiniteSets

CONSTANTS
    Starts,       \* start requests; the attempt one creates goes by its name
    Submits,      \* submit requests
    Marks,        \* requests that score a written answer
    Takers,
    Tickets,      \* launch tokens
    Bearer,       \* takerName of each ticket
    Foreign,      \* the tickets minted for another test
    Written,      \* questions of the test that are marked by hand
    Scores,       \* what a teacher may award
    MaxAttempts,  \* test.maxAttempts
    NoTicket, NoScore

ASSUME LifecycleAssumption == /\ IsFiniteSet(Starts)
                              /\ Bearer \in [Tickets -> Takers]
                              /\ Foreign \subseteq Tickets
                              /\ MaxAttempts \in Nat
                              /\ NoTicket \notin Tickets
                              /\ NoScore \notin Scores

VARIABLES
    sitting,   \* whether the test is published and within its window
    expired,   \* tickets past their expiry
    redeemed,  \* tickets with redeemed_at set
    start,     \* per start request: how far it got, and what it knows
    submit,    \* per submit request
    marking,   \* per marking request
    att,       \* the attempts table
    scores,    \* responses.score of the written answers, graded_at set
    log,       \* the events table, by subject
    raced      \* history: takers two of whose starts were allowed before either inserted

vars == <<sitting, expired, redeemed, start, submit, marking, att, scores, log, raced>>

Attempts == Starts
Unmarked == [w \in Written |-> NoScore]
NoRow == [status |-> "none", by |-> NoTicket, ticket |-> NoTicket,
          submitted |-> FALSE, scored |-> Unmarked]
NewStart == [phase |-> "new", ticket |-> NoTicket, taker |-> NoTicket, void |-> FALSE]

Init == /\ sitting = "not_yet" /\ expired = {} /\ redeemed = {}
        /\ start = [r \in Starts |-> NewStart]
        /\ submit = [s \in Submits |-> [phase |-> "new"]]
        /\ marking = [m \in Marks |-> [phase |-> "new"]]
        /\ att = [a \in Attempts |-> NoRow]
        /\ scores = [a \in Attempts |-> Unmarked]
        /\ log = [a \in Attempts |-> <<>>] /\ raced = {}

Finished == [phase |-> "done"]
Logged(a, type) == log' = [log EXCEPT ![a] = Append(@, type)]

----------------------------------------------------------------------------
(***************************************************************************)
(* startAttempt.                                                           *)
(***************************************************************************)
StartGoes(r, phase) == start' = [start EXCEPT ![r].phase = phase]

\* The request is stamped with `now`: the window and the ticket's expiry are
\* judged by it, whenever the rest runs.
Admit(r) ==
    /\ start[r].phase = "new" /\ sitting = "open"
    /\ \E t \in Tickets \cup {NoTicket}, taker \in Takers :
          start' = [start EXCEPT ![r] = [phase |-> "admitted", ticket |-> t, taker |-> taker,
                                         void |-> t \in Foreign \cup expired]]
    /\ UNCHANGED <<sitting, expired, redeemed, submit, marking, att, scores, log, raced>>

\* Without a ticket the taker is whoever they say they are.
TakeTheirWord(r) ==
    /\ start[r].phase = "admitted" /\ start[r].ticket = NoTicket
    /\ StartGoes(r, "identified")
    /\ UNCHANGED <<sitting, expired, redeemed, submit, marking, att, scores, log, raced>>

\* Mutant: the ticket is looked up, then marked as redeemed.
ClaimReadThenWrite(r) ==
    LET t == start[r].ticket
    IN  /\ start[r].phase = "admitted" /\ t \in Tickets
        /\ redeemed' = redeemed \cup {t}
        /\ start' = [start EXCEPT ![r].phase = IF start[r].void THEN "refused" ELSE "identified",
                                  ![r].taker = Bearer[t]]
        /\ UNCHANGED <<sitting, expired, submit, marking, att, scores, log, raced>>

\* claimLaunchToken found the ticket unredeemed: it is spent, even if it turns
\* out to be void.
ClaimTicket(r) ==
    LET t == start[r].ticket
    IN  /\ start[r].phase = "admitted" /\ t \in Tickets \ redeemed
        /\ redeemed' = redeemed \cup {t}
        /\ start' = [start EXCEPT ![r].phase = IF start[r].void THEN "refused" ELSE "identified",
                                  ![r].taker = Bearer[t]]
        /\ UNCHANGED <<sitting, expired, submit, marking, att, scores, log, raced>>

\* claimLaunchToken updated no row.
TicketSpent(r) ==
    /\ start[r].phase = "admitted" /\ start[r].ticket \in redeemed
    /\ StartGoes(r, "refused")
    /\ UNCHANGED <<sitting, expired, redeemed, submit, marking, att, scores, log, raced>>

SittingsOf(taker) == {a \in Attempts : att[a].status # "none" /\ att[a].by = taker}

\* Mutant: one too many.
UsedUpLate(taker) == Cardinality(SittingsOf(taker)) > MaxAttempts

UsedUp(taker) == Cardinality(SittingsOf(taker)) >= MaxAttempts

CountTaken(r) ==
    LET taker == start[r].taker
        others == {o \in Starts : start[o].phase = "allowed" /\ start[o].taker = taker}
    IN  /\ start[r].phase = "identified"
        /\ StartGoes(r, IF UsedUp(taker) THEN "refused" ELSE "allowed")
        /\ raced' = IF UsedUp(taker) \/ others = {} THEN raced ELSE raced \cup {taker}
        /\ UNCHANGED <<sitting, expired, redeemed, submit, marking, att, scores, log>>

InsertAttempt(r) ==
    /\ start[r].phase = "allowed"
    /\ StartGoes(r, "done")
    /\ att' = [att EXCEPT ![r] = [status |-> "in_progress", by |-> start[r].taker,
                                  ticket |-> start[r].ticket, submitted |-> FALSE,
                                  scored |-> Unmarked]]
    /\ Logged(r, "started")
    /\ UNCHANGED <<sitting, expired, redeemed, submit, marking, scores, raced>>

----------------------------------------------------------------------------
(***************************************************************************)
(* submitAttempt: the attempt is read, scored with no manual marks, and    *)
(* written without being read again.                                       *)
(***************************************************************************)
ReadForSubmit(s) ==
    /\ submit[s].phase = "new"
    /\ \E a \in Attempts :
          /\ att[a].status # "none"
          /\ submit' = [submit EXCEPT ![s] = IF att[a].submitted THEN Finished
                                             ELSE [phase |-> "scored", attempt |-> a]]
    /\ UNCHANGED <<sitting, expired, redeemed, start, marking, att, scores, log, raced>>

\* Mutants: graded once anything is marked, and a status of score() written as it is.
StatusOnceMarked(seen) == IF \A w \in Written : seen[w] = NoScore THEN "submitted" ELSE "graded"
StatusOfReport(seen) == IF \E w \in Written : seen[w] = NoScore THEN "pending_manual" ELSE "graded"

\* requiresManualMarking: some written answer has no mark.
StatusFor(seen) == IF \E w \in Written : seen[w] = NoScore THEN "submitted" ELSE "graded"

WriteSubmit(s) ==
    /\ submit[s].phase = "scored"
    /\ LET a == submit[s].attempt
       IN  /\ att' = [att EXCEPT ![a].status = StatusFor(Unmarked), ![a].submitted = TRUE,
                                 ![a].scored = Unmarked]
           /\ Logged(a, StatusFor(Unmarked))
    /\ submit' = [submit EXCEPT ![s] = Finished]
    /\ UNCHANGED <<sitting, expired, redeemed, start, marking, scores, raced>>

----------------------------------------------------------------------------
(***************************************************************************)
(* scoreWrittenAnswer: the response is upserted, which locks its row until *)
(* the commit, every response is read again, and the attempt is rewritten  *)
(* from them.  submitted_at is looked at before the transaction; it is     *)
(* never cleared, so nothing can come between.                             *)
(***************************************************************************)
Locked(a, w) == \E m \in Marks : /\ marking[m].phase = "scored"
                                 /\ marking[m].attempt = a /\ marking[m].question = w

\* What the transaction reads: what others have committed, and its own row.
UpsertScore(m) ==
    /\ marking[m].phase = "new"
    /\ \E a \in Attempts, w \in Written, n \in Scores :
          /\ att[a].submitted /\ ~Locked(a, w)
          /\ marking' = [marking EXCEPT ![m] =
                 [phase |-> "scored", attempt |-> a, question |-> w, score |-> n,
                  seen |-> [scores[a] EXCEPT ![w] = n]]]
    /\ UNCHANGED <<sitting, expired, redeemed, start, submit, att, scores, log, raced>>

\* Mutant: every response read is written back, not only the one marked.
StoredSheet(m) == [scores EXCEPT ![marking[m].attempt] = marking[m].seen]

\* setManualScore as it commits.
Stored(m) == [scores EXCEPT ![marking[m].attempt][marking[m].question] = marking[m].score]

Regrade(m) ==
    /\ marking[m].phase = "scored"
    /\ LET a == marking[m].attempt
           seen == marking[m].seen
       IN  /\ scores' = Stored(m)
           /\ att' = [att EXCEPT ![a].status = StatusFor(seen), ![a].scored = seen]
           /\ IF StatusFor(seen) = "graded" THEN Logged(a, "graded") ELSE UNCHANGED log
    /\ marking' = [marking EXCEPT ![m] = Finished]
    /\ UNCHANGED <<sitting, expired, redeemed, start, submit, raced>>

----------------------------------------------------------------------------
\* The WHERE of releaseSubmittedAttempts.
Releasable == {a \in Attempts : att[a].status = "graded"}

\* releaseResults: one UPDATE over the test, and an event for each row it hit.
Release ==
    /\ Releasable # {}
    /\ att' = [a \in Attempts |-> IF a \in Releasable
                                  THEN [att[a] EXCEPT !.status = "released"] ELSE att[a]]
    /\ log' = [a \in Attempts |-> IF a \in Releasable
                                  THEN Append(log[a], "released") ELSE log[a]]
    /\ UNCHANGED <<sitting, expired, redeemed, start, submit, marking, scores, raced>>

\* A request that dies half way: its transaction rolls back, and what it wrote
\* outside one, a ticket's redemption, stays.
StartDies(r) ==
    /\ start[r].phase \in {"admitted", "identified", "allowed"}
    /\ StartGoes(r, "refused")
    /\ UNCHANGED <<sitting, expired, redeemed, submit, marking, att, scores, log, raced>>
SubmitDies(s) ==
    /\ submit[s].phase = "scored"
    /\ submit' = [submit EXCEPT ![s] = Finished]
    /\ UNCHANGED <<sitting, expired, redeemed, start, marking, att, scores, log, raced>>
MarkDies(m) ==
    /\ marking[m].phase = "scored"
    /\ marking' = [marking EXCEPT ![m] = Finished]
    /\ UNCHANGED <<sitting, expired, redeemed, start, submit, att, scores, log, raced>>

\* Time passes for the test and for a ticket.
WindowMoves ==
    /\ \/ sitting = "not_yet" /\ sitting' = "open"
       \/ sitting = "open" /\ sitting' = "over"
    /\ UNCHANGED <<expired, redeemed, start, submit, marking, att, scores, log, raced>>
TicketExpires ==
    /\ \E t \in Tickets \ expired : expired' = expired \cup {t}
    /\ UNCHANGED <<sitting, redeemed, start, submit, marking, att, scores, log, raced>>

StartStep(r) == \/ Admit(r) \/ TakeTheirWord(r) \/ ClaimTicket(r) \/ TicketSpent(r)
                \/ CountTaken(r) \/ InsertAttempt(r) \/ StartDies(r)
SubmitStep(s) == ReadForSubmit(s) \/ WriteSubmit(s) \/ SubmitDies(s)
MarkStep(m) == UpsertScore(m) \/ Regrade(m) \/ MarkDies(m)

Next == \/ \E r \in Starts : StartStep(r)
        \/ \E s \in Submits : SubmitStep(s)
        \/ \E m \in Marks : MarkStep(m)
        \/ Release \/ WindowMoves \/ TicketExpires

Spec == Init /\ [][Next]_vars

----------------------------------------------------------------------------
Sheet == [Written -> Scores \cup {NoScore}]
Statuses == {"none", "in_progress", "submitted", "graded", "released"}
EventTypes == {"started", "submitted", "graded", "released"}

StartRequest == [phase : {"new", "admitted", "identified", "allowed", "refused", "done"},
                 ticket : Tickets \cup {NoTicket}, taker : Takers \cup {NoTicket}, void : BOOLEAN]
SubmitRequest == {[phase |-> "new"], Finished} \cup [phase : {"scored"}, attempt : Attempts]
MarkRequest == {[phase |-> "new"], Finished} \cup
                   [phase : {"scored"}, attempt : Attempts, question : Written,
                    score : Scores, seen : Sheet]
AttemptRow == [status : Statuses, by : Takers \cup {NoTicket}, ticket : Tickets \cup {NoTicket},
               submitted : BOOLEAN, scored : Sheet]

TypeOK ==
    /\ sitting \in {"not_yet", "open", "over"}
    /\ expired \subseteq Tickets /\ redeemed \subseteq Tickets
    /\ start \in [Starts -> StartRequest]
    /\ submit \in [Submits -> SubmitRequest]
    /\ marking \in [Marks -> MarkRequest]
    /\ att \in [Attempts -> AttemptRow]
    /\ scores \in [Attempts -> Sheet]
    /\ log \in [Attempts -> Seq(EventTypes)] /\ raced \subseteq Takers \cup {NoTicket}

\* No unmarked essay is published as a zero: whatever the interleaving of hand-ins,
\* markers and releases, an attempt is graded or released only with a score for
\* every written answer, in its responses and in its total (score()'s pending_manual).
GradedIsFullyMarked ==
    \A a \in Attempts : att[a].status \in {"graded", "released"} =>
        \A w \in Written : scores[a][w] # NoScore /\ att[a].scored[w] # NoScore

\* A forwarded link opened twice admits one student: however its requests race, at
\* most one attempt is created on a ticket, and it is the bearer's.
OneSittingPerTicket ==
    \A a, b \in Attempts :
        att[a].ticket # NoTicket =>
            /\ att[a].by = Bearer[att[a].ticket]
            /\ att[b].ticket = att[a].ticket => a = b

\* The limit is a speed bump for starts at once, and for those only: a taker whose starts
\* came one at a time, dead or refused ones included, has sat no more often than the test
\* allows (start-attempt.ts:40-42, 80-87).
LimitHoldsOneAtATime == \A t \in Takers \ raced : Cardinality(SittingsOf(t)) <= MaxAttempts

Last(s) == s[Len(s)]

WellTold(events) ==
    \A i \in DOMAIN events : /\ events[i] = "started" <=> i = 1
                             /\ events[i] = "released" => events[i - 1] = "graded"

\* A consumer of the event log can believe it: an attempt starts once, before
\* anything else is said of it; a release directly follows the grading it releases;
\* and an attempt that is graded or released has that for its latest event.
LogTellsTheStory ==
    \A a \in Attempts :
        /\ att[a].status # "none" => log[a] # <<>>
        /\ WellTold(log[a])
        /\ att[a].status \in {"graded", "released"} => Last(log[a]) = att[a].status

\* What is handed in stays handed in, and an answer once marked stays marked; a
\* released mark is only ever withdrawn by a request that rewrites the attempt.
NothingIsUnmarked ==
    [][\A a \in Attempts :
          /\ att[a].submitted => att'[a].submitted
          /\ \A w \in Written : scores[a][w] # NoScore => scores'[a][w] # NoScore ]_vars

\* The hand-ins and the markers between their reads and their commit, with the attempt;
\* and the markers who read before another's mark landed.
HandInsUnderWay == {p \in Submits \X Attempts :
                       submit[p[1]].phase = "scored" /\ submit[p[1]].attempt = p[2]}
MarkersUnderWay == {p \in Marks \X Attempts :
                       marking[p[1]].phase = "scored" /\ marking[p[1]].attempt = p[2]}
StaleMarkers == {m \in Marks :
                    /\ marking[m].phase = "scored"
                    /\ \E w \in Written \ {marking[m].question} :
                          marking[m].seen[w] # scores[marking[m].attempt][w]}

Record == INSTANCE AttemptRecord
            WITH Hands <- Submits, Markers <- Marks,
                 stage <- [a \in Attempts |-> att[a].status],
                 handed <- {a \in Attempts : att[a].submitted}, marks <- scores,
                 total <- [a \in Attempts |-> att[a].scored], story <- log,
                 handing <- HandInsUnderWay, marking <- MarkersUnderWay, stale <- StaleMarkers

\* Requests that overlap or die harm an attempt only as AttemptRecord says: status, total
\* and log stay those of the marks, unless a hand-in began before the first one landed, or
\* a marker read before another's mark did; and never is a mark lost, or an attempt called
\* graded with an answer unmarked (submit-attempt.ts:33, score-written-answer.ts:71-111).
RefinesAttemptRecord == Record!Spec

\* submit-attempt.ts: "Idempotent: the outbox flushes before submit, so a second
\* submit is expected traffic, not an error": it changes nothing.
SecondSubmitChangesNothing ==
    [][\A s \in Submits : WriteSubmit(s) =>
          \A a \in Attempts : att[a].submitted => att'[a] = att[a]]_vars

\* score-written-answer.ts: "Re-runs score() over the whole attempt rather than adding
\* a delta. Incrementing stays correct until a teacher revises a mark, then drifts
\* invisibly": the total is that of the marks.
TotalIsOfTheMarks ==
    \A a \in Attempts : att[a].submitted => att[a].scored = scores[a]
=============================================================================
