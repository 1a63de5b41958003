---------------------------- MODULE EventDelivery ----------------------------
(***************************************************************************)
(* An event from the transaction that writes it to the task it queues at   *)
(* Schedjuice: EventLog and ScholisReceiver joined by the webhook request  *)
(* and its answer, and by the page catch_up_events reads.                  *)
(***************************************************************************)
EXTENDS EventLog, ScholisReceiver

CONSTANT MaxFaults  \* bound: timeouts, crashes, failures and pauses, all together

ASSUME DeliveryAssumption == /\ Passes \cap CatchUps = {} /\ Nobody \notin Passes \cup CatchUps
                             /\ MaxFaults \in Nat

VARIABLE faults

vars == <<logVars, receiverVars, faults>>

Init == LogInit /\ ReceiverInit /\ faults = 0

Fault == faults < MaxFaults /\ faults' = faults + 1
NoFault == UNCHANGED faults

\* The request arrives; the handler is its own process from here on.
Send(p) == /\ \E s \in Seqs : Post(p, s) /\ jobs' = jobs \cup {Job(s, p)}
           /\ UNCHANGED <<recorded, cursor, pulls, dropped, catchUp>> /\ NoFault

\* response.ok
HearOk(p) == /\ \E j \in jobs : j.by = p /\ j.step = "ok" /\ jobs' = jobs \ {j}
             /\ MarkDelivered(p)
             /\ UNCHANGED <<recorded, cursor, pulls, dropped, catchUp>> /\ NoFault

\* Mutant: response.ok is not looked at.
HearFailureAsOk(p) == /\ \E j \in jobs : j.by = p /\ j.step = "failed" /\ jobs' = jobs \ {j}
                      /\ MarkDelivered(p)
                      /\ UNCHANGED <<recorded, cursor, pulls, dropped, catchUp>> /\ NoFault

HearFailure(p) == /\ \E j \in jobs : j.by = p /\ j.step = "failed" /\ jobs' = jobs \ {j}
                  /\ Fail(p)
                  /\ UNCHANGED <<recorded, cursor, pulls, dropped, catchUp>> /\ NoFault

\* What the caller leaves behind: a job that runs on unheard, or, if the request
\* never arrived, nothing.  An answer on its way is lost.
Abandoned(p) == {[j EXCEPT !.by = Nobody] : j \in {i \in jobs : i.by = p
                                                     /\ i.step \notin {"ok", "failed"}}}
Abandon(p) == \E left \in SUBSET Abandoned(p) :
                 /\ \A j \in Abandoned(p) \ left : j.step = "record"
                 /\ jobs' = {j \in jobs : j.by # p} \cup left

\* No answer within REQUEST_TIMEOUT_MS, or no connection.
TimeOut(p) == /\ Fail(p) /\ Abandon(p)
              /\ UNCHANGED <<recorded, cursor, pulls, dropped, catchUp>> /\ Fault

Die(p) == /\ PassDies(p) /\ Abandon(p)
          /\ UNCHANGED <<recorded, cursor, pulls, dropped, catchUp>> /\ Fault

PassOver(p) == MarkUnsent(p) /\ UNCHANGED receiverVars /\ NoFault

Deliver(p) == Send(p) \/ HearOk(p) \/ HearFailure(p) \/ PassOver(p)

Handle(j) == (Record(j) \/ AdvanceCursor(j) \/ ActOn(j)) /\ UNCHANGED logVars /\ NoFault

Misfortune(j) == (Breaks(j) \/ BrokerDown(j)) /\ UNCHANGED logVars /\ Fault

CatchUpStep(c) == /\ \/ StartCatchUp(c, Committed)
                     \/ ReadPage(c, EventsSince(catchUp[c].at, PageSize))
                     \/ Replay(c)
                     \/ \E j \in jobs : Replayed(c, j) \/ ReplayFailed(c, j)
                  /\ UNCHANGED logVars /\ NoFault

Unreachable(c) == AskFailed(c) /\ UNCHANGED logVars /\ Fault

Next == \/ LogStep /\ UNCHANGED receiverVars /\ NoFault
        \/ PauseWebhook /\ UNCHANGED receiverVars /\ Fault
        \/ \E p \in Passes : Deliver(p) \/ TimeOut(p) \/ Die(p)
        \/ \E j \in jobs : Handle(j) \/ Misfortune(j)
        \/ \E c \in CatchUps : CatchUpStep(c) \/ Unreachable(c)

Spec == Init /\ [][Next]_vars

----------------------------------------------------------------------------
(***************************************************************************)
(* Properties.                                                             *)
(***************************************************************************)
TxStates == {"unused", "open", "committed", "gone"}
Row == [row : {TRUE}, delivered : BOOLEAN, attempts : Nat, due : {"now", "later", "parked"}]
JobType == [seq : Seqs, by : Passes \cup CatchUps \cup {Nobody},
            step : {"record", "advance", "act", "ok", "failed"}]
CatchUpType == [phase : {"new", "asking", "page", "done", "stopped", "failed"},
                from : Nat, at : Nat, page : SUBSET Seqs, full : BOOLEAN,
                left : Nat, log : SUBSET Seqs]

TypeOK == /\ tx \in [Seqs -> TxStates] /\ endpoint \in {"active", "paused", "gone"}
          /\ delivery \in [Seqs -> Row \cup {NoRow}]
          /\ todo \in [Passes -> SUBSET [seq : Seqs, attempts : Nat]]
          /\ posted \subseteq Passes /\ passing \subseteq Passes \ posted /\ skipped \subseteq Seqs
          /\ recorded \subseteq Seqs /\ cursor \in Nat
          /\ jobs \subseteq JobType
          /\ pulls \in [Released -> Nat] /\ dropped \subseteq Released
          /\ catchUp \in [CatchUps -> CatchUpType]
          /\ faults \in Nat

\* A delivery marked delivered was recorded by Schedjuice, whichever of the
\* overlapping passes marked it and whatever was answered too late
\* (deliver-webhooks.ts:94, markDelivered), unless a pass found the endpoint paused
\* and marked it unsent (deliver-webhooks.ts:60).
DeliveredWasRecorded == \A s \in Seqs : delivery[s].delivered => s \in recorded \cup skipped

\* A row is parked for a year only after MAX_ATTEMPTS failures, although a pass
\* counts from what it read before other passes failed the same row
\* (deliver-webhooks.ts:123-128).
ParkedHadItsChances == \A s \in Seqs : delivery[s].due = "parked" =>
                                           delivery[s].attempts >= MaxAttempts

\* The cursor never stands at a number Schedjuice has no event for, so nothing
\* that was rolled back or never sent moves it (webhook_handling.py:146).
CursorIsRecorded == cursor = 0 \/ cursor \in recorded

\* A release on record has its score pull queued, is about to, or met a crash or a
\* dead broker on the way: there is no other way to lose one
\* (webhook_handling.py:92-95, a duplicate is not acted on).
InHand(s) == \E j \in jobs : j.seq = s /\ j.step \in {"advance", "act"}
ReleaseIsAccountedFor == \A s \in recorded \cap Released :
                            pulls[s] > 0 \/ s \in dropped \/ InHand(s)

\* A catch-up that ran to its end has recorded everything above the cursor it
\* began from that was committed as it began, whatever arrived meanwhile
\* (tasks.py:74-77, 103-133).
CatchUpFoundTheGap ==
    \A c \in CatchUps : catchUp[c].phase = "done" =>
        \A s \in catchUp[c].log : s > catchUp[c].from => s \in recorded

\* The cursor moves forward only (webhook_handling.py:201-213).
CursorNeverGoesBack == [][cursor' >= cursor]_cursor

\* The channel as its consumer may think of it: each event is handled at most
\* once, only after it happened, and at most one pull follows.
Channel == INSTANCE EventChannel WITH
              happened <- Committed, handled <- recorded,
              tasks <- pulls
RefinesEventChannel == Channel!Spec

\* What the timer, Postgres, the backoff and the workers go on doing.
Fairness ==
    /\ \A s \in Seqs : /\ WF_vars((Commit(s) \/ Rollback(s)) /\ UNCHANGED receiverVars /\ NoFault)
                       /\ WF_vars(BackoffEnds(s) /\ UNCHANGED receiverVars /\ NoFault)
                       /\ WF_vars(\E j \in jobs : j.seq = s /\ Handle(j))
    /\ \A p \in Passes : WF_vars(\/ PassAlone(p) /\ UNCHANGED receiverVars /\ NoFault
                                \/ Deliver(p))

FairSpec == Spec /\ Fairness

\* An event that was queued with its transaction is recorded, and its pull queued,
\* however passes overlap and answers are lost, unless its row is parked, it goes
\* with the endpoint, a pass finds the endpoint paused, or the worker is hit between
\* recording and acting
\* (events.ts:48-52, deliver-webhooks.ts:16-17).
Arrived(s) == s \in recorded /\ (s \in Released => pulls[s] > 0 \/ s \in dropped)
EveryEventArrives ==
    \A s \in Seqs : (s \in Committed /\ delivery[s].row)
                      ~> (Arrived(s) \/ ~delivery[s].row \/ delivery[s].due = "parked" \/ s \in skipped)

\* Violated.  "Asking from the highest sequence already processed is what makes this
\* safe to run at any time: it either finds nothing or finds exactly the gap.  This is
\* the recovery path for every way a delivery can be lost" (tasks.py:75-80): after a
\* catch-up, what was committed before it is recorded or still being pushed.
StillPushed(s) == delivery[s].row /\ ~delivery[s].delivered /\ delivery[s].due # "parked"
CatchUpLeavesNothing ==
    \A c \in CatchUps : catchUp[c].phase = "done" =>
        \A s \in catchUp[c].log : s \in recorded \/ StillPushed(s)

\* Violated.  "The event is recorded and the cursor has advanced, so a scheduled
\* catch-up will pick the marks up" (webhook_handling.py:195-196): after a catch-up,
\* a release committed before it has its pull queued or on its way.
CatchUpPullsTheMarks ==
    \A c \in CatchUps : catchUp[c].phase = "done" =>
        \A s \in catchUp[c].log \cap Released :
            pulls[s] > 0 \/ InHand(s) \/ StillPushed(s)
=============================================================================
