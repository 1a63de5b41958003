------------------------------ MODULE TakeSync ------------------------------
(***************************************************************************)
(* One sitting, from the device that takes it to the rows it leaves on the *)
(* server: the useAttempt hook (state, outbox, flush loop, hand-in), the   *)
(* IndexedDB snapshot it restores from, the requests in flight, and the    *)
(* two endpoints they reach, applyMutations and submitAttempt.             *)
(*                                                                         *)
(* A request the page stopped waiting for is a stray: the server may still *)
(* get to it, in any order, or never.  The page can be reloaded at any     *)
(* moment; a put to IndexedDB that has not committed is then lost.         *)
(***************************************************************************)
EXTENDS AttemptEngine, FiniteSets, SequencesExt

CONSTANTS
    Events,         \* what the taker may do: engine events other than submit
    Blank,          \* the empty value of a response row
    BatchLimit,     \* SYNC_BATCH_LIMIT
    Timed,          \* whether the test has a time limit
    Tracks,         \* whether useMonitoring banks time on the outbox
    ActsEarly,      \* whether the taker acts before the snapshot is restored
    DiskMayFail,    \* whether a put to IndexedDB may fail
    MaxMutations,   \* bound: mutations the taker makes
    MaxReloads,     \* bound: page loads after the first
    MaxStrays       \* bound: abandoned requests still travelling when one is abandoned

ASSUME TakeAssumption == /\ BatchLimit \in Nat
                         /\ {MaxMutations, MaxReloads, MaxStrays} \subseteq Nat
                         /\ {Timed, Tracks, ActsEarly, DiskMayFail} \subseteq BOOLEAN
                         /\ Blank \notin Values
                         /\ \A ev \in Events : \/ ev.t = "answer"
                                               \/ ev.t = "mark" /\ ev.on \in BOOLEAN
                                               \/ ev.t = "navigate" /\ ev.to \in Nat

VARIABLES
    page,       \* "loading" until the snapshot is restored, then "live"
    st,         \* AttemptState, as rendered
    outbox,     \* outbox.current
    status,     \* the SyncStatus the page shows
    armed,      \* "ready", "backoff" or "blocked": nextAttemptAt
    call,       \* the sync request `flush` awaits; its `base` is the closed-over state
    handing,    \* performHandIn: "no", "draining", "posting", "done"
    post,       \* the submit request `submit` awaits
    write,      \* the IndexedDB request not yet committed
    disk,       \* the stored snapshot
    strays,     \* sync requests nobody awaits
    strayPosts, \* submit requests nobody awaits
    rows, ledger, tx,  \* the AnswerSheet of the attempt
    owner,      \* whose batch the open transaction drains
    submitted,  \* attempts.submitted_at is set
    paper,      \* the responses score() was given, and how the outbox stood
    late,       \* the deadline has passed
    made,       \* mutations made so far
    reloads     \* page loads so far

device == <<page, st, outbox, status, armed, handing>>
storage == <<write, disk>>
sheet == <<rows, ledger, tx, owner>>
server == <<submitted, paper>>
net == <<call, post, strays, strayPosts>>
clock == <<late, made, reloads>>
vars == <<device, storage, sheet, server, net, clock>>

Sheet == INSTANCE AnswerSheet WITH
             Ids <- Nat, MaxTimingDelta <- 1, Batches <- {}

NoSnapshot == [there |-> FALSE, state |-> FreshState, outbox |-> <<>>]
Snapshot(s, box) == [there |-> TRUE, state |-> s, outbox |-> box]
Idle == [pending |-> FALSE, put |-> NoSnapshot]
Put(snapshot) == [pending |-> TRUE, put |-> snapshot]

NoCall == [phase |-> "none", batch |-> <<>>, base |-> FreshState]
NoPaper == [q \in Questions |-> Blank]
NoPost == [phase |-> "none", seen |-> NoPaper, drained |-> FALSE]

Init == /\ page = "loading" /\ st = FreshState /\ outbox = <<>>
        /\ status = "saved" /\ armed = "ready" /\ handing = "no"
        /\ write = Idle /\ disk = NoSnapshot
        /\ call = NoCall /\ post = NoPost /\ strays = {} /\ strayPosts = {}
        /\ Sheet!Init /\ owner = "none"
        /\ submitted = FALSE /\ paper = NoPost
        /\ late = FALSE /\ made = 0 /\ reloads = 0

----------------------------------------------------------------------------
(***************************************************************************)
(* The page.                                                               *)
(***************************************************************************)
CanAct == page = "live" \/ ActsEarly

\* Mutant: the snapshot is made before the reducer has queued what it emitted.
PersistingEarly(s, box) ==
    IF page = "live" /\ s # st THEN Put(Snapshot(s, outbox)) ELSE write

\* The persist effect runs when the rendered state changed, once restored.
Persisting(s, box) ==
    IF page = "live" /\ s # st THEN Put(Snapshot(s, box)) ELSE write

\* dispatch: reduce, queue what it emitted, render, persist.  The status stays as it is.
Dispatch ==
    /\ CanAct
    /\ \E ev \in Events :
          LET r == Reduce(st, ev, late, made + 1)
          IN  /\ r.rejected = "none" /\ r.state # st
              /\ made + Len(r.mutations) <= MaxMutations
              /\ made' = made + Len(r.mutations)
              /\ st' = r.state
              /\ outbox' = outbox \o r.mutations
              /\ write' = Persisting(st', outbox')
    /\ UNCHANGED <<page, status, armed, handing, disk, sheet, server, net, late, reloads>>

TimeOn(q) == [kind |-> "timing", id |-> made + 1, q |-> q, ms |-> 1]
Observation == {TimeOn(q) : q \in Questions} \cup {[kind |-> "visibility", id |-> made + 1]}

\* track: an observation goes on the outbox without touching the state, so
\* nothing is persisted until the state next changes.
Track ==
    /\ Tracks /\ CanAct /\ handing # "done" /\ made < MaxMutations
    /\ \E m \in Observation : outbox' = Append(outbox, m)
    /\ made' = made + 1
    /\ UNCHANGED <<page, st, status, armed, handing, storage, sheet, server, net, late, reloads>>

\* The early returns of flush.
CanFlush(box) == call.phase = "none" /\ box # <<>> /\ armed = "ready"

\* Mutant: only the newest entry is sent, the others later.
SendingLatest(box) == [phase |-> "sent", batch |-> <<box[Len(box)]>>, base |-> st]

\* A flush sends the outbox as it is and keeps the state it closed over.
Sending(box) == [phase |-> "sent", batch |-> box, base |-> st]

\* The 2 s timer, or the `online` listener once it has cleared the backoff.
Flush ==
    /\ CanFlush(outbox)
    /\ call' = Sending(outbox) /\ status' = "saving"
    /\ UNCHANGED <<page, st, outbox, armed, handing, storage, sheet, server, post, strays, strayPosts, clock>>

Posting(box) == [phase |-> "sent", seen |-> NoPaper, drained |-> box = <<>>]

\* performHandIn: bank the open segment, dispatch submit, then flush if flush
\* agrees to run, else go straight on to submitAttempt.
HandIn ==
    /\ page = "live" /\ handing = "no"
    /\ \E banked \in {<<>>} \cup (IF Tracks /\ made < MaxMutations
                                   THEN {<<TimeOn(q)>> : q \in Questions} ELSE {}) :
          /\ outbox' = outbox \o banked
          /\ made' = made + Len(banked)
    /\ st' = Reduce(st, [t |-> "submit"], late, 0).state
    /\ write' = Persisting(st', outbox')
    /\ IF CanFlush(outbox')
       THEN /\ handing' = "draining" /\ call' = Sending(outbox') /\ status' = "saving"
            /\ UNCHANGED post
       ELSE /\ handing' = "posting" /\ post' = Posting(outbox')
            /\ UNCHANGED <<call, status>>
    /\ UNCHANGED <<page, armed, disk, sheet, server, strays, strayPosts, late, reloads>>

\* flush returned, however it went: the hand-in that awaited it posts.
ThenPost(box) ==
    IF handing = "draining"
    THEN handing' = "posting" /\ post' = Posting(box)
    ELSE UNCHANGED <<handing, post>>

\* Mutant: a confirmed flush clears the outbox, what was queued meanwhile included.
BatchedAll(batch) == {m.id : m \in ToSet(outbox)}

\* The ids the server reports as applied: all of the batch.
Batched(batch) == {m.id : m \in ToSet(batch)}

\* The queue without what the server confirmed.
PruneOutbox(box, applied) ==
    LET kept[n \in 0..Len(box)] ==
            IF n = 0 THEN <<>>
            ELSE IF box[n].id \in applied THEN kept[n - 1]
            ELSE Append(kept[n - 1], box[n])
    IN  kept[Len(box)]

\* The server confirmed the batch: prune it, save what flush closed over.
FlushOk ==
    /\ call.phase = "ok"
    /\ outbox' = PruneOutbox(outbox, Batched(call.batch))
    /\ armed' = "ready"
    /\ status' = IF outbox' = <<>> THEN "saved" ELSE "saving"
    /\ write' = Put(Snapshot(call.base, outbox'))
    /\ call' = NoCall
    /\ ThenPost(outbox')
    /\ UNCHANGED <<page, st, disk, sheet, server, strays, strayPosts, clock>>

\* A 4xx: stop the loop, keep the queue.
FlushRefused ==
    /\ call.phase = "refused"
    /\ armed' = "blocked" /\ status' = "blocked"
    /\ call' = NoCall
    /\ ThenPost(outbox)
    /\ UNCHANGED <<page, st, outbox, storage, sheet, server, strays, strayPosts, clock>>

\* Mutant: a network fault is taken for a refusal.
AfterFaultBlocked == "blocked"

\* isRetryable: a fault backs off, where a refusal blocks.
AfterFault == "backoff"

StraysFit == Cardinality(strays) + Cardinality(strayPosts) < MaxStrays

\* What travels on when the page stops waiting for a request: it, or nothing.
StraysLeft ==
    {strays} \cup
        (IF call.phase \in {"sent", "admitted"} /\ StraysFit
         THEN {strays \cup {[phase |-> call.phase, batch |-> call.batch]}} ELSE {})
StrayPostsLeft ==
    {strayPosts} \cup
        (IF post.phase \in {"sent", "open", "read"} /\ StraysFit
         THEN {strayPosts \cup {post}} ELSE {})
NoLongerOurs == owner' = IF owner = "call" THEN "stray" ELSE owner

\* No answer came: the request, or only its reply, was lost.
FlushFailed ==
    /\ call.phase # "none"
    /\ strays' \in StraysLeft
    /\ NoLongerOurs
    /\ armed' = AfterFault /\ status' = "offline"
    /\ call' = NoCall
    /\ ThenPost(outbox)
    /\ UNCHANGED <<page, st, outbox, storage, rows, ledger, tx, server, strayPosts, clock>>

BackoffElapsed ==
    /\ armed = "backoff"
    /\ armed' = "ready"
    /\ UNCHANGED <<page, st, outbox, status, handing, storage, sheet, server, net, clock>>

\* The listener zeroes nextAttemptAt, whatever had set it.
Online ==
    /\ armed # "ready"
    /\ armed' = "ready"
    /\ UNCHANGED <<page, st, outbox, status, handing, storage, sheet, server, net, clock>>

\* submitAttempt resolved: clearSnapshot, and the page shows the paper as in.
HandedIn ==
    /\ post.phase = "ok"
    /\ handing' = "done"
    /\ post' = NoPost
    /\ write' = Put(NoSnapshot)
    /\ UNCHANGED <<page, st, outbox, status, armed, disk, sheet, server, call, strays, strayPosts,
                   clock>>

\* submitAttempt rejected: the error is shown and the button works again.
HandInFailed ==
    /\ post.phase # "none"
    /\ strayPosts' \in StrayPostsLeft
    /\ handing' = "no"
    /\ post' = NoPost
    /\ UNCHANGED <<page, st, outbox, status, armed, storage, sheet, server, call, strays, clock>>

\* A reload takes with it everything but sessionStorage and IndexedDB.
Reload ==
    /\ reloads < MaxReloads /\ handing # "done"
    /\ reloads' = reloads + 1
    /\ page' = "loading" /\ st' = FreshState /\ outbox' = <<>>
    /\ status' = "saved" /\ armed' = "ready" /\ handing' = "no"
    /\ write' = Idle
    /\ strays' \in StraysLeft /\ strayPosts' \in StrayPostsLeft
    /\ NoLongerOurs
    /\ call' = NoCall /\ post' = NoPost
    /\ UNCHANGED <<disk, rows, ledger, tx, server, late, made>>

\* The restore effect, and the persist effect it unlocks.
Restore ==
    /\ page = "loading"
    /\ page' = "live"
    /\ st' = IF disk.there THEN disk.state ELSE st
    /\ outbox' = IF disk.there THEN disk.outbox ELSE outbox
    /\ status' = IF disk.there /\ disk.outbox # <<>> THEN "saving" ELSE status
    /\ write' = Put(Snapshot(st', outbox'))
    /\ UNCHANGED <<armed, handing, disk, sheet, server, net, clock>>

\* The put (or delete) commits.  IndexedDB keeps the requests of a store in order, and
\* the first of a page is the read that ends its loading.
Persist ==
    /\ write.pending /\ page = "live"
    /\ disk' = write.put
    /\ write' = Idle
    /\ UNCHANGED <<device, sheet, server, net, clock>>

\* saveSnapshot swallows its error.
PutFails ==
    /\ DiskMayFail /\ write.pending
    /\ write' = Idle
    /\ UNCHANGED <<device, disk, sheet, server, net, clock>>

----------------------------------------------------------------------------
(***************************************************************************)
(* applyMutations, for the awaited call and for a stray.                   *)
(***************************************************************************)

\* The input schema, then the attempt as it is read outside the transaction.
Refuses(batch) == Len(batch) > BatchLimit \/ submitted

AdmitCall ==
    /\ call.phase = "sent"
    /\ call' = [call EXCEPT !.phase = IF Refuses(call.batch) THEN "refused" ELSE "admitted"]
    /\ UNCHANGED <<device, storage, sheet, server, post, strays, strayPosts, clock>>

BeginCall ==
    /\ call.phase = "admitted"
    /\ Sheet!Begin(call.batch)
    /\ owner' = "call"
    /\ call' = [call EXCEPT !.phase = "applying"]
    /\ UNCHANGED <<device, storage, server, post, strays, strayPosts, clock>>

AdmitStray(r) ==
    /\ r.phase = "sent"
    /\ strays' = (strays \ {r}) \cup
                     (IF Refuses(r.batch) THEN {} ELSE {[r EXCEPT !.phase = "admitted"]})
    /\ UNCHANGED <<device, storage, sheet, server, call, post, strayPosts, clock>>

BeginStray(r) ==
    /\ r.phase = "admitted"
    /\ Sheet!Begin(r.batch)
    /\ owner' = "stray"
    /\ strays' = strays \ {r}
    /\ UNCHANGED <<device, storage, server, call, post, strayPosts, clock>>

ApplyNext ==
    /\ Sheet!ApplyNext
    /\ UNCHANGED <<device, storage, server, owner, net, clock>>

\* The transaction ends; a caller still waiting learns how.
Ends(phase) ==
    /\ owner' = "none"
    /\ call' = IF owner = "call" THEN [call EXCEPT !.phase = phase] ELSE call
    /\ UNCHANGED <<device, storage, server, post, strays, strayPosts, clock>>

Commit == Sheet!Commit /\ Ends("ok")
Rollback == Sheet!Rollback /\ Ends("failed")

(***************************************************************************)
(* submitAttempt: the attempt is read, then its responses, the paper is    *)
(* scored, and a transaction writes the outcome without looking again.     *)
(***************************************************************************)
\* Mutant: the wrong column.
RowSeqs == [q \in Questions |-> rows[q].seq]

RowValues == [q \in Questions |-> rows[q].val]

SubmitFind(p) == [p EXCEPT !.phase = IF submitted THEN "ok" ELSE "open"]
SubmitRead(p) == [p EXCEPT !.phase = "read", !.seen = RowValues]

FindPost ==
    /\ post.phase = "sent"
    /\ post' = SubmitFind(post)
    /\ UNCHANGED <<device, storage, sheet, server, call, strays, strayPosts, clock>>

ReadPost ==
    /\ post.phase = "open"
    /\ post' = SubmitRead(post)
    /\ UNCHANGED <<device, storage, sheet, server, call, strays, strayPosts, clock>>

ScorePost ==
    /\ post.phase = "read"
    /\ submitted' = TRUE /\ paper' = post
    /\ post' = [post EXCEPT !.phase = "ok"]
    /\ UNCHANGED <<device, storage, sheet, call, strays, strayPosts, clock>>

FindStrayPost(p) ==
    /\ p.phase = "sent"
    /\ strayPosts' = (strayPosts \ {p}) \cup (IF submitted THEN {} ELSE {SubmitFind(p)})
    /\ UNCHANGED <<device, storage, sheet, server, call, post, strays, clock>>

ReadStrayPost(p) ==
    /\ p.phase = "open"
    /\ strayPosts' = (strayPosts \ {p}) \cup {SubmitRead(p)}
    /\ UNCHANGED <<device, storage, sheet, server, call, post, strays, clock>>

ScoreStrayPost(p) ==
    /\ p.phase = "read"
    /\ submitted' = TRUE /\ paper' = p
    /\ strayPosts' = strayPosts \ {p}
    /\ UNCHANGED <<device, storage, sheet, call, post, strays, clock>>

\* state.deadlineAt is reached: isPastDeadline from then on, and the hand-in it
\* triggers is HandIn.
TimeUp ==
    /\ Timed /\ ~late
    /\ late' = TRUE
    /\ UNCHANGED <<device, storage, sheet, server, net, made, reloads>>

----------------------------------------------------------------------------
Next ==
    \/ Dispatch \/ Track \/ Flush \/ HandIn
    \/ FlushOk \/ FlushRefused \/ FlushFailed \/ BackoffElapsed \/ Online
    \/ HandedIn \/ HandInFailed
    \/ Reload \/ Restore \/ Persist \/ PutFails
    \/ AdmitCall \/ BeginCall
    \/ \E r \in strays : AdmitStray(r) \/ BeginStray(r)
    \/ ApplyNext \/ Commit \/ Rollback
    \/ FindPost \/ ReadPost \/ ScorePost
    \/ \E p \in strayPosts : FindStrayPost(p) \/ ReadStrayPost(p) \/ ScoreStrayPost(p)
    \/ TimeUp

Spec == Init /\ [][Next]_vars

\* Sends fail any number of times, then the connection and the database hold;
\* the page keeps running its timers, the server its handlers.  Nothing is assumed
\* of the taker, of reloads or of the requests nobody awaits any more.
Failure == Rollback \/ (call.phase # "failed" /\ FlushFailed)

Fairness ==
    /\ <>[][~Failure]_vars
    /\ WF_vars(Restore) /\ WF_vars(Flush) /\ WF_vars(BackoffElapsed)
    /\ WF_vars(FlushOk) /\ WF_vars(FlushRefused) /\ WF_vars(call.phase = "failed" /\ FlushFailed)
    /\ WF_vars(AdmitCall) /\ WF_vars(BeginCall) /\ WF_vars(ApplyNext) /\ WF_vars(Commit)

FairSpec == Spec /\ Fairness

----------------------------------------------------------------------------
Mutations == Sheet!Mutation
Batch == Seq(Mutations)
SnapshotType == [there : BOOLEAN, state : AttemptState, outbox : Batch]
PostType == [phase : {"none", "sent", "open", "read", "ok"},
             seen : [Questions -> Values \cup {Blank}], drained : BOOLEAN]
CallType == [phase : {"none", "sent", "admitted", "applying", "ok", "refused", "failed"},
             batch : Batch, base : AttemptState]
StrayType == [phase : {"sent", "admitted"}, batch : Batch]

TypeOK ==
    /\ page \in {"loading", "live"}
    /\ st \in AttemptState
    /\ outbox \in Batch
    /\ status \in {"saved", "saving", "offline", "blocked"}
    /\ armed \in {"ready", "backoff", "blocked"}
    /\ call \in CallType
    /\ handing \in {"no", "draining", "posting", "done"}
    /\ post \in PostType /\ paper \in PostType
    /\ write \in [pending : BOOLEAN, put : SnapshotType]
    /\ disk \in SnapshotType
    /\ strays \subseteq StrayType
    /\ strayPosts \subseteq PostType
    /\ Sheet!TypeOK
    /\ owner \in {"none", "call", "stray"}
    /\ submitted \in BOOLEAN /\ late \in BOOLEAN
    /\ made \in Nat /\ reloads \in Nat

\* What a response row shows for an entry of the device's `responses`.
AsRow(v) == IF v = NoAnswer THEN Blank ELSE v

\* The sheet shows what the device shows.
Agree == \A q \in Questions : /\ rows[q].val = AsRow(st.resp[q])
                              /\ rows[q].marked = (q \in st.marked)

\* What the page may rely on, if it was never reloaded.  With the outbox empty, the
\* server shows every answer and flag exactly as the taker sees them, whatever was
\* lost, resent, or answered late; and when it shows "Saved" over an outbox that is
\* not, which it does from the answer on (dispatch leaves the status as it is), what is
\* queued goes out with the next tick of the timer: nothing is in flight, backed off or
\* refused (use-attempt.ts:111, 125, 146, 156).
SavedMeansSaved ==
    page = "live" /\ reloads = 0 =>
        /\ outbox = <<>> => Agree
        /\ status = "saved" => outbox = <<>> \/ CanFlush(outbox)

\* A hand-in that found the outbox empty is marked on what the taker sees, and
\* nothing reaches the sheet behind its back afterwards (submitAttempt reads the
\* responses outside the transaction that closes the attempt).
DrainedPaperIsWhole ==
    submitted /\ paper.drained /\ reloads = 0 => Agree /\ paper.seen = RowValues

\* What the page and the server promise together (Dictation), as long as the page is
\* not reloaded: answers and flags reach the sheet in the order they were made, none
\* left out, so that the sheet and whatever paper is marked are the screen as it once
\* was, through lost, late and resent requests (use-attempt.ts:122-130).
Sequenced(S) == {m \in S : Sheet!IsSequenced(m)}
Promised == INSTANCE Dictation WITH
    Entries <- Sequenced(Mutations),
    entered <- Sequenced(ToSet(outbox) \cup ledger),
    noted <- Sequenced(ledger),
    screen <- [q \in Questions |-> [val |-> AsRow(st.resp[q]), flag |-> q \in st.marked]],
    sheet <- [q \in Questions |-> [val |-> rows[q].val, flag |-> rows[q].marked]],
    paper <- paper.seen
RefinesDictation == Promised!Spec

\* The loop stops for good reason only: a page that sends no more has been handed in,
\* or holds more than a request may carry (isRetryable, SYNC_BATCH_LIMIT).
LoopStopsForAReason == armed = "blocked" => submitted \/ Len(outbox) > BatchLimit

\* A queued mutation leaves the page's outbox, or the snapshot on disk, only once
\* the server has it (pruneOutbox: "anything queued while the request was in flight has
\* to survive").  The outbox also loses what it held to a reload, and what was typed
\* before it to the restore of a snapshot (RestoreKeepsWhatWasTyped); the snapshot goes
\* with the hand-in.
QueueIsKept ==
    [][ /\ reloads' = reloads /\ ~(Restore /\ disk.there) =>
               ToSet(outbox) \subseteq ToSet(outbox') \cup ledger
        /\ handing # "done" => ToSet(disk.outbox) \subseteq ToSet(disk'.outbox) \cup ledger ]_vars

\* Nothing typed is lost to a reload: an answer or flag the server does not have is
\* in the snapshot, or in the put on its way there, for as long as the paper is not
\* in and the device can store it (the persist effect runs on state, the outbox it
\* saves is a ref that other steps change).
TypedIsDurable ==
    page = "live" /\ handing # "done" =>
        {m \in ToSet(outbox) : m.kind \in {"answer", "mark"}}
            \subseteq ToSet((IF write.pending THEN write.put ELSE disk).outbox) \cup ledger

\* The loop drains: answers queued while the attempt is open reach the server,
\* or the page is reloaded, through any number of failed sends.
EventuallySaved == outbox # <<>> ~> (outbox = <<>> \/ submitted)

\* use-attempt.ts: "submitting with answers still queued would mark a paper the
\* server hasn't seen yet": what is marked is what the taker answered.
EveryAnswerIsMarked ==
    submitted => \A q \in Questions : paper.seen[q] = AsRow(st.resp[q])

\* use-attempt.ts: "Persist whatever the reducer last produced": once its put has
\* committed, the snapshot holds the state on screen.
SnapshotIsLatest == page = "live" /\ disk.there /\ ~write.pending => disk.state = st

\* page.tsx: "Everything reported here already happened": a page that shows "Saved" has
\* nothing left to send.
SavedLabelIsTrue == page = "live" /\ status = "saved" => outbox = <<>>

\* use-attempt.ts: "Restore before accepting input. Answering into fresh state and
\* then loading the snapshot on top would throw away whatever was typed first."
RestoreKeepsWhatWasTyped ==
    [][Restore => ToSet(outbox) \subseteq ToSet(outbox') \cup ledger]_vars

=============================================================================
