------------------------------ MODULE EventLog ------------------------------
(***************************************************************************)
(* The event log of one organisation and the pump that pushes it out:      *)
(* appendEvent inside its caller's transaction, one webhook endpoint that  *)
(* may be paused, removed and registered again, and passes of              *)
(* deliverWebhooks that overlap (a pass may outlast the timer, and         *)
(* replicas run their own).                                                *)
(*                                                                         *)
(* An event is named by its seq.  Times are kept as far as the pump tells  *)
(* them apart: a delivery is due now, later, or a year from now.           *)
(***************************************************************************)
EXTENDS Naturals, FiniteSets

CONSTANTS
    MaxSeq,       \* bound: the numbers the sequence hands out
    Passes,       \* pump passes that may be under way at once
    BatchSize,    \* BATCH_SIZE
    MaxAttempts   \* MAX_ATTEMPTS

Seqs == 1 .. MaxSeq

ASSUME LogAssumption == /\ MaxSeq \in Nat
                        /\ BatchSize \in Nat \ {0}
                        /\ MaxAttempts \in Nat \ {0}

VARIABLES
    tx,        \* per seq: the transaction that inserted the event
    endpoint,  \* the organisation's endpoint: "active", "paused" or "gone"
    delivery,  \* the webhook_deliveries row queued with each event
    todo,      \* per pass: the due rows it read and has not finished with
    posted,    \* passes awaiting the answer to the POST for their oldest row
    passing,   \* passes that found the endpoint of their oldest row paused
    skipped    \* history: events marked delivered without being sent

logVars == <<tx, endpoint, delivery, todo, posted, passing, skipped>>

NoRow == [row |-> FALSE, delivered |-> FALSE, attempts |-> 0, due |-> "now"]
Queued == [NoRow EXCEPT !.row = TRUE]

LogInit == /\ tx = [s \in Seqs |-> "unused"]
           /\ endpoint = "active"
           /\ delivery = [s \in Seqs |-> NoRow]
           /\ todo = [p \in Passes |-> {}]
           /\ posted = {} /\ passing = {} /\ skipped = {}

\* What a transaction other than the writer's can see.
Committed == {s \in Seqs : tx[s] = "committed"}

\* ORDER BY seq LIMIT n
Oldest(S, n) == {s \in S : Cardinality({r \in S : r < s}) < n}

----------------------------------------------------------------------------
(***************************************************************************)
(* Events.                                                                 *)
(***************************************************************************)
\* The number is taken when the row is inserted; the rows appear when the
\* caller's transaction commits, which need not be in the order of the numbers.
AppendEvent(s) ==
    /\ tx[s] = "unused" /\ \A r \in Seqs : r < s => tx[r] # "unused"
    /\ tx' = [tx EXCEPT ![s] = "open"]
    /\ delivery' = [delivery EXCEPT ![s] = IF endpoint = "active" THEN Queued ELSE NoRow]
    /\ UNCHANGED <<endpoint, todo, posted, passing, skipped>>

Commit(s) ==
    /\ tx[s] = "open"
    /\ tx' = [tx EXCEPT ![s] = "committed"]
    /\ UNCHANGED <<endpoint, delivery, todo, posted, passing, skipped>>

\* The number is not handed out again.
Rollback(s) ==
    /\ tx[s] = "open"
    /\ tx' = [tx EXCEPT ![s] = "gone"]
    /\ delivery' = [delivery EXCEPT ![s] = NoRow]
    /\ UNCHANGED <<endpoint, todo, posted, passing, skipped>>

AddWebhook == /\ endpoint = "gone"
              /\ endpoint' = "active"
              /\ UNCHANGED <<tx, delivery, todo, posted, passing, skipped>>

\* The rows go with the endpoint (ON DELETE CASCADE).  A row not yet committed
\* holds a lock on the endpoint, so the delete waits for it.
RemoveWebhook == /\ endpoint # "gone"
                 /\ \A s \in Seqs : tx[s] = "open" => ~delivery[s].row
                 /\ endpoint' = "gone"
                 /\ delivery' = [s \in Seqs |-> NoRow]
                 /\ UNCHANGED <<tx, todo, posted, passing, skipped>>

\* External: no code sets `active`, an operator does.
PauseWebhook == /\ endpoint = "active"
                /\ endpoint' = "paused"
                /\ UNCHANGED <<tx, delivery, todo, posted, passing, skipped>>

ResumeWebhook == /\ endpoint = "paused"
                 /\ endpoint' = "active"
                 /\ UNCHANGED <<tx, delivery, todo, posted, passing, skipped>>

\* GET /events?since=
EventsSince(since, limit) == Oldest({s \in Committed : s > since}, limit)

----------------------------------------------------------------------------
(***************************************************************************)
(* The pump.                                                               *)
(***************************************************************************)
Due == {s \in Committed : /\ delivery[s].row /\ ~delivery[s].delivered
                          /\ delivery[s].due = "now"}

\* A pass keeps what it read of each row: its event and how often it was tried.
StartPass(p) ==
    /\ todo[p] = {}
    /\ todo' = [todo EXCEPT ![p] = {[seq |-> s, attempts |-> delivery[s].attempts] :
                                       s \in Oldest(Due, BatchSize)}]
    /\ UNCHANGED <<tx, endpoint, delivery, posted, passing, skipped>>

\* Rows are gone through oldest first; a pass that waits for neither an answer
\* nor its own UPDATE reads the endpoint of the next.
IsNext(p, d) == d \in todo[p] /\ \A e \in todo[p] : d.seq <= e.seq
Free(p) == p \notin posted \cup passing

\* Mutant: the pass goes on waiting for an answer it has had.
FinishStillWaiting(p, d) == /\ todo' = [todo EXCEPT ![p] = @ \ {d}]
                            /\ posted' = posted /\ passing' = passing \ {p}

Finish(p, d) == /\ todo' = [todo EXCEPT ![p] = @ \ {d}]
                /\ posted' = posted \ {p} /\ passing' = passing \ {p}

\* The endpoint is gone, and the row with it: markDelivered finds nothing.
Skip(p) ==
    \E d \in todo[p] : /\ IsNext(p, d) /\ Free(p)
                       /\ ~delivery[d.seq].row
                       /\ Finish(p, d)
                       /\ UNCHANGED <<tx, endpoint, delivery, skipped>>

FindPaused(p) ==
    \E d \in todo[p] : /\ IsNext(p, d) /\ Free(p)
                       /\ delivery[d.seq].row /\ endpoint = "paused"
                       /\ passing' = passing \cup {p}
                       /\ UNCHANGED <<tx, endpoint, delivery, todo, posted, skipped>>

Post(p, s) ==
    \E d \in todo[p] : /\ IsNext(p, d) /\ Free(p)
                       /\ delivery[d.seq].row /\ endpoint = "active" /\ d.seq = s
                       /\ posted' = posted \cup {p}
                       /\ UNCHANGED <<tx, endpoint, delivery, todo, passing, skipped>>

\* Mutant: INSERT ... ON CONFLICT DO UPDATE.
WithRowUpserted(s, row) == delivery' = [delivery EXCEPT ![s] = row]

\* UPDATE ... WHERE id: no row, no effect.
WithRow(s, row) == delivery' = [delivery EXCEPT ![s] = IF @.row THEN row ELSE @]

Delivered(row) == [row EXCEPT !.delivered = TRUE, !.attempts = @ + 1]

MarkDelivered(p) ==
    \E d \in todo[p] :
        /\ IsNext(p, d) /\ p \in posted
        /\ WithRow(d.seq, Delivered(delivery[d.seq]))
        /\ Finish(p, d)
        /\ UNCHANGED <<tx, endpoint, skipped>>

\* The endpoint was paused when the pass read it, whatever it is now: marked
\* delivered and never sent.
MarkUnsent(p) ==
    \E d \in todo[p] :
        /\ IsNext(p, d) /\ p \in passing
        /\ WithRow(d.seq, Delivered(delivery[d.seq]))
        /\ skipped' = IF delivery[d.seq].row THEN skipped \cup {d.seq} ELSE skipped
        /\ Finish(p, d)
        /\ UNCHANGED <<tx, endpoint>>

\* Mutant: one failure early.
FailTooSoon(p) ==
    \E d \in todo[p] :
        /\ IsNext(p, d) /\ p \in posted
        /\ WithRow(d.seq, [delivery[d.seq] EXCEPT
                             !.attempts = @ + 1,
                             !.due = IF d.attempts + 2 >= MaxAttempts THEN "parked" ELSE "later"])
        /\ Finish(p, d)
        /\ UNCHANGED <<tx, endpoint, skipped>>

\* The column counts up from what it is, the delay is worked out from what the
\* pass read.
Fail(p) ==
    \E d \in todo[p] :
        /\ IsNext(p, d) /\ p \in posted
        /\ WithRow(d.seq, [delivery[d.seq] EXCEPT
                             !.attempts = @ + 1,
                             !.due = IF d.attempts + 1 >= MaxAttempts THEN "parked" ELSE "later"])
        /\ Finish(p, d)
        /\ UNCHANGED <<tx, endpoint, skipped>>

\* backoffMs has run out.  A parked row is due again in a year: never, here.
BackoffEnds(s) == /\ delivery[s].due = "later"
                  /\ delivery' = [delivery EXCEPT ![s].due = "now"]
                  /\ UNCHANGED <<tx, endpoint, todo, posted, passing, skipped>>

\* The process stops, or the database fails the pass: index.ts swallows that.
PassDies(p) == /\ todo[p] # {}
               /\ todo' = [todo EXCEPT ![p] = {}]
               /\ posted' = posted \ {p} /\ passing' = passing \ {p}
               /\ UNCHANGED <<tx, endpoint, delivery, skipped>>

\* What a pass does that changes no row.
PassAlone(p) == StartPass(p) \/ Skip(p) \/ FindPaused(p)

LogStep == \/ \E s \in Seqs : AppendEvent(s) \/ Commit(s) \/ Rollback(s) \/ BackoffEnds(s)
           \/ AddWebhook \/ RemoveWebhook \/ ResumeWebhook
           \/ \E p \in Passes : PassAlone(p)
=============================================================================
