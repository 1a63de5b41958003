--------------------------- MODULE ScholisReceiver ---------------------------
(***************************************************************************)
(* Schedjuice's end of the event log: handle_delivery, run by a worker per *)
(* webhook request and by catch_up_events for each event it replays.  It   *)
(* records the event, moves the catch-up cursor and acts, each in a        *)
(* transaction of its own; an exception anywhere is a 500.                 *)
(***************************************************************************)
EXTENDS Naturals, FiniteSets

CONSTANTS
    Released,   \* the events of type attempt.released.v1
    CatchUps,   \* runs of catch_up_events
    PageSize,   \* CATCH_UP_PAGE
    MaxPages,   \* CATCH_UP_MAX_PAGES
    Nobody      \* who waits for a job whose caller has given up

ASSUME ReceiverAssumption == PageSize \in Nat \ {0} /\ MaxPages \in Nat \ {0}

VARIABLES
    recorded,  \* the ScholisWebhookEvent rows
    cursor,    \* connection.last_event_seq, 0 for NULL
    jobs,      \* handle_delivery under way, or finished and not yet heard of
    pulls,     \* per released event: pull_scores_for_tenant tasks queued for it
    dropped,   \* history: releases recorded whose pull was lost on the way to the queue
    catchUp    \* per run of catch_up_events: where it is

receiverVars == <<recorded, cursor, jobs, pulls, dropped, catchUp>>

NewCatchUp == [phase |-> "new", from |-> 0, at |-> 0, page |-> {}, full |-> FALSE,
               left |-> 0, log |-> {}]

ReceiverInit == /\ recorded = {} /\ cursor = 0 /\ jobs = {}
                /\ pulls = [s \in Released |-> 0]
                /\ dropped = {}
                /\ catchUp = [c \in CatchUps |-> NewCatchUp]

Job(s, by) == [seq |-> s, by |-> by, step |-> "record"]

\* The answer to a caller that has gone goes nowhere.
Goes(j, step) ==
    jobs' = (jobs \ {j}) \cup
            IF j.by = Nobody /\ step \in {"ok", "failed"} THEN {} ELSE {[j EXCEPT !.step = step]}

----------------------------------------------------------------------------
(***************************************************************************)
(* handle_delivery.                                                        *)
(***************************************************************************)
\* Mutant: SELECT, then INSERT, with no unique constraint.
RecordAnyway(j) ==
    /\ j.step = "record"
    /\ recorded' = recorded \cup {j.seq}
    /\ Goes(j, "advance")
    /\ UNCHANGED <<cursor, pulls, dropped, catchUp>>

\* record_event: the unique constraint tells a duplicate, which is answered 200
\* and goes no further.
Record(j) ==
    /\ j.step = "record"
    /\ recorded' = recorded \cup {j.seq}
    /\ Goes(j, IF j.seq \in recorded THEN "ok" ELSE "advance")
    /\ UNCHANGED <<cursor, pulls, dropped, catchUp>>

AdvanceCursor(j) ==
    /\ j.step = "advance"
    /\ cursor' = IF j.seq > cursor THEN j.seq ELSE cursor
    /\ Goes(j, "act")
    /\ UNCHANGED <<recorded, pulls, dropped, catchUp>>

\* Mutant: the type of the event is not recognised.
ActOnNothing(j) ==
    /\ j.step = "act"
    /\ Goes(j, "ok")
    /\ UNCHANGED <<recorded, cursor, pulls, dropped, catchUp>>

ActOn(j) ==
    /\ j.step = "act"
    /\ pulls' = IF j.seq \in Released THEN [pulls EXCEPT ![j.seq] = @ + 1] ELSE pulls
    /\ Goes(j, "ok")
    /\ UNCHANGED <<recorded, cursor, dropped, catchUp>>

\* _schedule_score_pull swallows whatever the broker throws.
BrokerDown(j) ==
    /\ j.step = "act" /\ j.seq \in Released
    /\ dropped' = dropped \cup {j.seq}
    /\ Goes(j, "ok")
    /\ UNCHANGED <<recorded, cursor, pulls, catchUp>>

\* The worker dies or its database fails it: what it committed stays.
Breaks(j) ==
    /\ j.step \in {"record", "advance", "act"}
    /\ dropped' = IF j.step # "record" /\ j.seq \in Released THEN dropped \cup {j.seq} ELSE dropped
    /\ Goes(j, "failed")
    /\ UNCHANGED <<recorded, cursor, pulls, catchUp>>

----------------------------------------------------------------------------
(***************************************************************************)
(* catch_up_events.  `log` is what Scholis had committed as the run began. *)
(***************************************************************************)
StartCatchUp(c, log) ==
    /\ catchUp[c].phase = "new"
    /\ catchUp' = [catchUp EXCEPT ![c] = [NewCatchUp EXCEPT !.phase = "asking", !.from = cursor,
                                             !.at = cursor, !.left = MaxPages, !.log = log]]
    /\ UNCHANGED <<recorded, cursor, jobs, pulls, dropped>>

\* list_events(since = at, limit = PageSize) answered.
ReadPage(c, answer) ==
    /\ catchUp[c].phase = "asking"
    /\ catchUp' = [catchUp EXCEPT
          ![c].phase = IF answer = {} THEN "done" ELSE "page",
          ![c].page = answer,
          ![c].full = Cardinality(answer) >= PageSize,
          ![c].left = @ - 1]
    /\ UNCHANGED <<recorded, cursor, jobs, pulls, dropped>>

IsNextOf(c, s) == s \in catchUp[c].page /\ \A r \in catchUp[c].page : s <= r

Replay(c) ==
    /\ catchUp[c].phase = "page" /\ \A j \in jobs : j.by # c
    /\ \E s \in catchUp[c].page : IsNextOf(c, s) /\ jobs' = jobs \cup {Job(s, c)}
    /\ UNCHANGED <<recorded, cursor, pulls, dropped, catchUp>>

\* Mutant: a page that is full is the last one.
AfterPageShort(cu, page) == IF page # {} THEN "page" ELSE "done"

\* A short page ends the run, and so does the last of the pages it may ask for.
AfterPage(cu, page) == CASE page # {}                   -> "page"
                         [] page = {} /\ ~cu.full       -> "done"
                         [] page = {} /\ cu.full        ->
                                IF cu.left > 0 THEN "asking" ELSE "stopped"

\* Handled or already known, the run's own cursor moves past it.
Replayed(c, j) ==
    /\ j.by = c /\ j.step = "ok"
    /\ LET cu == catchUp[c]
           rest == cu.page \ {j.seq}
       IN  catchUp' = [catchUp EXCEPT
              ![c].at = IF j.seq > @ THEN j.seq ELSE @,
              ![c].page = rest,
              ![c].phase = AfterPage(cu, rest)]
    /\ jobs' = jobs \ {j}
    /\ UNCHANGED <<recorded, cursor, pulls, dropped>>

\* The exception of handle_delivery ends the run.
ReplayFailed(c, j) ==
    /\ j.by = c /\ j.step = "failed"
    /\ catchUp' = [catchUp EXCEPT ![c].phase = "failed"]
    /\ jobs' = jobs \ {j}
    /\ UNCHANGED <<recorded, cursor, pulls, dropped>>

\* Scholis cannot be reached.
AskFailed(c) ==
    /\ catchUp[c].phase = "asking"
    /\ catchUp' = [catchUp EXCEPT ![c].phase = "failed"]
    /\ UNCHANGED <<recorded, cursor, jobs, pulls, dropped>>
=============================================================================
