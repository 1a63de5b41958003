# Scholis, specified

TLA+ specifications of Scholis' core, checked with TLC and, where it says so, proved with
TLAPS.  Scholis is an online assessment that has to survive a bad connection: a student's
device queues what the student does, a server applies it exactly once and newest-wins, a
paper is handed in once and marked by a machine and by teachers, results are published
when a teacher says so, and a school's own system, Schedjuice, is told of them and copies the
marks into its gradebook.  Those are the promises; these modules state them and look for the
interleavings in which the code would break them.

Run `tlc -config TakeSync.cfg MCTakeSync.tla` for any of the runs below, and
`tlapm AnswerSheet_proofs.tla` and so on for the proofs.

## The system

| part | state it keeps | operations | where |
|---|---|---|---|
| attempt engine | one `AttemptState` value | `reduce`: answer, mark, navigate, submit | `packages/engine` |
| take client | rendered state, outbox ref, backoff, IndexedDB snapshot | dispatch, track, flush, restore, persist, hand in | `apps/web/lib/take`, `app/take/[code]` |
| monitoring | the open segment | queues timing and visibility mutations | `use-monitoring.ts` |
| take session, package cache, service worker | sessionStorage handle, cached paper, cached pages | join or start, recall, serve offline | `session.ts`, `package-cache.ts`, `sw.js` |
| answer sheet | `responses`, `mutations`, `attempt_events` | `applyMutations` | `apps/api/server/attempts`, `apps/api/data` |
| attempt lifecycle | `attempts`, scores on `responses`, `events` | start, submit, score a written answer, release, comment | `server/attempts`, `server/grading` |
| launch tickets, teacher SSO | single-use tokens | mint, redeem | `data/launch-tokens.ts`, `data/teacher-sso.ts` |
| scoring and its checks | a question with options, keys, rubric | `score`, choice rubrics, rounding; what saving and publishing refuse | `packages/scoring`, `packages/schema`, `question-input.ts`, `question-readiness.ts` |
| authoring | `tests`, `questions`, `idempotency_keys` | add, add drafts, update, delete, reorder, publish, settings | `server/tests`, `data/questions.ts` |
| event log and webhooks | `events`, `webhook_endpoints`, `webhook_deliveries` | append in a transaction, pump, register, serve events since a seq | `data/events.ts`, `deliver-webhooks.ts` |
| integration API, accounts, uploads | organisations, clients, users, files | provisioning, credentials, scores listed | `server/integrations`, `accounts`, `uploads` |
| Schedjuice's side (`app_scholis`) | connection and cursor, stored events, scores, result cells | receive, catch up, pull scores, project into the gradebook, connect | `schedjuice-reimagined-be/app_scholis` |

They meet in six places.  The **device and the answer sheet** exchange batches over HTTP, any
of which may be lost, answered after the page stopped waiting, or delivered twice.  The **sheet
and the lifecycle** share the attempt row: `applyMutations` refuses once `submitted_at` is set,
and `submitAttempt` scores what the sheet shows.  The **lifecycle and the event log** share a
transaction: an event is appended with the write it tells of.  The **log and Schedjuice**
exchange webhooks, at least once, with a catch-up read behind them; a release that arrives
queues a **score pull**, which reads every released mark (a teacher may ask for those since
some time) and copies it row by row.  **Authoring and the scorer** share the question: what a
save and a publish check is all the scorer can rely on.

What is hard here is never one handler.  Every handler reads through `ctx.db` and then writes
in a transaction under READ COMMITTED, so what it decided on may have changed; the client keeps
part of its state in React state and part in a ref, and persists both at moments that neither
controls; and almost everything can be retried.  On Schedjuice's side each step of a handler is
a transaction of its own, run by workers that overlap.

What would make each part correct: the sheet loses nothing it acknowledged and lets no older
write win; a client with nothing left to send shows what the server has, and keeps what it
has not sent through a reload; the lifecycle publishes no unmarked essay as a zero,
admits one sitting per ticket and writes a log one can believe; the receiver misses no event
and acts on each once; the gradebook shows only released marks and settles on the latest; a
test's questions stay in an order somebody asked for; and no rubric on a published paper
stands between a student and full marks.

`PROJECT.json` lists the components with their status and every hazard, at its line, with
the properties that watch it.

## Modules

| module | models | EXTENDS / instances |
|---|---|---|
| `AnswerSheet` | the transaction in which `applyMutations` drains a batch | |
| `LatestAnswer` | what the sheet promises about answers: a newest-wins register | |
| `Dictation` | what a taker is promised on a page that stays open | |
| `AttemptEngine` | `reduce` as operators over an `AttemptState` | |
| `TakeSync` | one sitting: `useAttempt`, IndexedDB, the network, `applyMutations`, `submitAttempt` | extends `AttemptEngine`, instances `AnswerSheet`, `Dictation` |
| `AttemptLifecycle` | concurrent start, submit, marking and release requests | instances `AttemptRecord` |
| `AttemptRecord` | what becomes of attempts, to those who sit, mark and read the events | |
| `EventLog` | `appendEvent`, endpoints, the catch-up read, passes of `deliverWebhooks` | |
| `ScholisReceiver` | `handle_delivery` and `catch_up_events` | |
| `EventDelivery` | the two joined by the request, its answer, and the page | extends both, instances `EventChannel` |
| `EventChannel` | what Schedjuice is promised: events handled at most once, a task each | |
| `ScorePull` | `pull_scores` by overlapping workers, with revisions and releases | |
| `Scoring` | a question from its saves to its mark | |
| `Authoring` | concurrent requests that edit and publish one test | |
| `MC...` | inputs and constants for TLC | the module each names |
| `..._proofs` | theorems and proofs | the module each names, `TLAPS` |

**AnswerSheet.** `rows` are the committed rows of `responses`, `ledger` the committed claims,
`tx` the open transaction with its private view.  `Begin`, `ApplyNext` (one turn of the
loop: `claimMutation`, then the effect), `Commit` and `Rollback` are its steps.  `Writes` is
the `WHERE client_seq <` of both upserts; `UpsertMark` moves `client_seq` and leaves the
value alone, as the code does.  A ledger entry keeps the whole mutation and not just its id,
which lets properties speak of what was accepted.  Transactions are taken one at a time: a
statement locks one ledger key or one row until the commit, so transactions that overlap on
a key wait for each other, and those that do not commute.

**TakeSync.** Device: `page` (restored or not), `st`, `outbox`, `status` (the label), `armed`
(what `nextAttemptAt` says), `call` (the request `flush` awaits, with the state it closed
over), `handing` and `post` (the hand-in).  Storage: `write` is a put not yet committed, `disk`
the stored snapshot.  Network: `strays` and `strayPosts` are requests the page no longer
awaits; the server may still get to them, late, in any order, or never.  Server: the instance
of `AnswerSheet`, `submitted`, and `paper`, the responses `score()` was last given.  The
handlers are cut where the code awaits: `AdmitCall` is the check of `submittedAt` before the
transaction, `FindPost`, `ReadPost` and `ScorePost` the three accesses of `submitAttempt`.
`Persisting` is the persist effect, which runs on the rendered state only; `track` changes the
outbox without it.  `Persist` waits for a live page: IndexedDB serves the requests of a store
in order, and the first of a page is the read that ends its loading.  Mutation ids are numbered
in the order the taker makes them.  `PruneOutbox` is the filter written as a recursive
function, so that it can be proved about.

**AttemptLifecycle.** Each request is a process with a phase.  `start`, `submit` and
`marking` hold what a request knows between its reads and its commit; `att`, `scores` and
`log` are the tables.  `UpsertScore` is the marker's upsert, which locks the response row,
with the read that follows it; `Regrade` is the rest of the transaction as it commits.  The
log is kept per attempt: the row lock on the attempt makes the order of its events that of
the commits.  Only written answers have scores: auto-marking is a function of the responses.
Requests may die between any two steps (`StartDies`, `SubmitDies`, `MarkDies`).
`raced` is a history: the takers two of whose starts passed the count before either inserted.

**AttemptRecord.** Seen as a record, the stage of an attempt is its status, and of the
requests only who overlaps whom is left: the hand-ins and the markers under way, and who among
the markers is `stale`, having read before another's mark landed.  It says how an attempt goes
when nothing overlaps, where status, total and log are those of the marks, and exactly what
overlapping may spoil.  `BeginHandIn` is for attempts not handed in, so that a `HandIn` of one
that is had begun before the other landed; a `Mark` by a stale marker may leave a total without
the mark it missed, and take a grade back that it cannot see, of which the log is not told.

**EventLog.** An event is named by its `seq`: `AppendEvent` takes the next number when the row
is inserted, and `tx` says what became of the transaction, so numbers commit in any order and
some never do.  `delivery` is the row queued with the event.  A pass of the pump keeps in
`todo` what it read of each due row and works through it a POST at a time; passes overlap
because one may outlast the timer and replicas run their own.  `Fail` counts the column up from
what it is but decides on the delay from what the pass read, as the code does.  An endpoint may
be paused: a pass that finds it so (`FindPaused`) goes on to mark the row delivered unsent
(`MarkUnsent`), even if it is resumed in between; `skipped` is a history of the events so
marked.  No code sets `active`, so pausing and resuming are an operator's.  Time is kept as far
as the pump tells it apart: due now, later, or parked for a year.

**ScholisReceiver.** A job is one `handle_delivery`: `Record` (the unique constraint),
`AdvanceCursor` (the conditional UPDATE), `ActOn` (the task queued), each a transaction of
its own.  `Breaks` and `BrokerDown` are what can go wrong between them; `dropped` is a
history of the releases so lost, which lets `ReleaseIsAccountedFor` say there is no other
way.  `catchUp` holds the locals of `catch_up_events`; its cursor is the run's own, its start
the connection's.

**EventDelivery.** `Send` is the POST arriving, from which the handler is a process of its
own; `HearOk` and `HearFailure` its answer; `TimeOut` and `Die` leave the handler running
with nobody to hear it, or drop a request that never arrived.  A catch-up reads what is
committed at that moment.

**ScorePull.** `graded` is Scholis: a mark is known by its version, one more with each
revision, and by the release it stands released by; `now` counts the releases, which is all
that a `since` can tell apart.  A pull that an event queued reads everything; one by hand may
ask since a release.  A pull is a process: `Fetch` (the attempts with their totals),
`ListResponses` (the marks of their answers, tallied by section, read later), then per row
`LinkMissing`, `Relook`, `RefreshLink` or `BindPaper`, `StoreRow`, then `ReadPending` and per
row `PassOver` or `WriteCell` (cell and stamp in one transaction).  The column of a pending row
is the one it was read with.  `alone` is a history: nothing else has happened since this pull
began.  `kept` is one too: the column a teacher linked, unless a pull stood between reading the
link and saving it.  `queue` counts the tasks that the events of released attempts have queued.

**Scoring.** A question's whole life in one state machine, because what the scorer may be
handed is decided by three different checks: `UsableAnswerKey` (added whole), `SavableDraft`
(edited), `Ready` (published).  A check and its write are two steps, as the handlers read the
status before the transaction they write in: `CheckSave` and `Save`, `CheckPaper` and
`Publish`; a question may be added to a published paper likewise.  `unseen` is a history: the
question as it stands is not what a publish looked at last.  Marks are integers, in halves of a
ten-thousandth, so that `Round4` is arithmetic.  `Legacy` are the questions older than rubrics.

**Authoring.** A request is a process whose transaction runs a statement at a time under READ
COMMITTED: `writes` are the rows it holds, as it sees them, and a statement that writes a row
waits until it is `Free`.  `Begin` is the draft check; `CheckList`, `Count`, `CheckPaper` and
`LookUpKey` are the other reads outside the transaction.  `Deadlock` ends one of a circle of
waiters.  A question's `body` and `options` name the requests that wrote them.

## Runs

Every bound is a constant in the .cfg.  Deadlock is not checked: each system stops when its
bounded inputs are used up.

| run | asks | bounds | states |
|---|---|---|---|
| AnswerSheet | do ledger and rows agree, whatever is delivered? | 7 mutations of all four kinds on 2 questions, any batch of up to 2, any order, repetition and rollback | 27 thousand |
| AnswersOnly | is it a newest-wins register for answers? | 5 answers on 2 questions | 2 thousand |
| TakeSync | is an empty outbox saved, a drained hand-in whole, and everything noted in order? | 1 question, 2 values, flags, 2 mutations, one abandoned request, a sync or a hand-in | 1.3 million |
| TakeReload | does a reload lose what was typed, and what can stop the loop? | 1 question, 2 mutations, observations, requests of one mutation, one reload | 1.4 million |
| TakeLive | does the outbox drain? | 2 mutations, a deadline, a failing disk | 0.3 million |
| Lifecycle | do attempts go the way they are promised to, admitted once and within the limit? | 2 starts, 2 hand-ins, 3 markings of 2 essays with 2 scores, 2 tickets (one of another test), at most 1 attempt per taker | 0.2 million |
| Delivery | does every queued event arrive, and count once? | 2 events, 2 passes, parked after 2 failures, 2 faults (a pause is one), the endpoint resumed, removed and registered at will | 0.5 million |
| CatchUp | does a catch-up close the gap? | 3 events, 1 pass, 1 catch-up of up to 3 pages of one, 1 fault | 2.2 million |
| Gradebook | does the gradebook show released marks, and settle? | 2 attempts (one of a walk-in), one revision each, 2 releases, 2 workers, 1 pull by hand since any of them, 2 linkings, 1 fault | 4.7 million |
| Scoring | can a published question be marked fairly? | 3 options and a stray one, 4 texts, totals of 1 and 2, 8 rubrics of 3 and 4 tiers that rise, fall, skip and need rounding, 2 saves | 0.1 million |
| Authoring | can concurrent edits spoil a test, does it settle once published, and does every request end? | any 3 requests of the 7 kinds, 3 questions to begin with, 1 key | 1.2 million |
| HandIn | is every answer marked? (no) | 1 question, 2 mutations | ends with a trace |

The bounds reach the cases that matter: two mutations are what it takes for one to overtake the
other; a stray needs one slot to arrive after its resend; requests of one mutation in
TakeReload stand for those of 200, so that an outbox can be too long for one; a second hand-in,
a second marker and a third (after a hand-in that overwrote) give each race its partners.  Two
passes and two failures are what it takes to park a row from a stale count; three events and
pages of one give a catch-up a gap in the middle of its pages; two workers overlap in every way
a pull can be overlapped, one revision makes an older and a newer mark, two releases a mark
released before and one released since, and two linkings one that a pull undoes.  Two saves are
one that lands in the draft and one that lands behind the publish.  Three requests are two that
race, or three that wait in a circle; three questions are what it takes for two orders to mix
to a third that nobody asked for, and the proofs cover longer drafts.  Symmetry is used over
values in TakeSync, over requests and questions in Lifecycle, over workers in Gradebook and
over options in Scoring, where nothing distinguishes them and only safety is checked.

### What the passing runs show

* `ClaimedIsReflected`, `ShownIsNewest`, `NothingGoesBack`: a mutation in the ledger is
  behind a row at least as new, so ledger and rows are committed together; the value shown is
  the newest accepted answer unless a mark newer than it got in first; nothing is ever taken
  back.
* `RefinesLatestAnswer`: with answers alone, order, repetition and batching leave no trace.
* `SavedMeansSaved`: on a page never reloaded an empty outbox means the sheet shows what the
  taker sees, answers and flags, even with abandoned requests still travelling.  The label
  "Saved" says less: it stands over an answer just queued (see below), and the property keeps
  it to that, as what is queued under it goes out with the next tick, with nothing in flight,
  backed off or refused.  A batch is the outbox in order, from its oldest entry: that is what
  keeps the shared `client_seq` of answers and flags from losing an answer here.
* `DrainedPaperIsWhole`: if the outbox was empty when the hand-in was posted, the paper is
  marked on what the taker sees, though the endpoints read outside their transactions.
* `RefinesDictation`: on a page never reloaded the server takes down what the taker enters in
  the order it was entered, with nothing left out, whatever is lost, late or sent twice: the
  sheet, and whatever paper is marked, is the screen as it once was.
* `LoopStopsForAReason`: with a valid token the send loop gives up for two reasons only, the
  attempt was handed in or the outbox holds more than one request may carry (200).  The
  second is a 400 the page takes for final, and nothing shortens the outbox after it.
* `QueueIsKept`, `TypedIsDurable`: what is queued leaves the outbox or the disk only once the
  server has it; an answer not on the server is on disk or in a put on its way there.  A
  reload takes the outbox all the same, and the restore what was typed before it.
* `EventuallySaved`: see fairness.
* `GradedIsFullyMarked`: no interleaving of markers, hand-ins and releases publishes an essay
  nobody marked.  It survives two racing markers because marks are never removed, so what a
  transaction saw marked is still marked when it commits.
* `RefinesAttemptRecord`: overlapping and dying requests come to steps of a record in which
  an essay is marked at a time and none unmarked, and an attempt is graded only when all of it
  is marked.  A hand-in that began before another landed, and a marker who missed
  another's mark, are the only ones to take status or total back, and otherwise status, total
  and log are those of the marks.
* `OneSittingPerTicket`: the single UPDATE that redeems a ticket is enough.
* `LimitHoldsOneAtATime`: the limit on attempts, which the code calls a speed bump, is exceeded
  only by starts that pass the count together; retries and requests that died do not add up.
* `DeliveredWasRecorded`, `ParkedHadItsChances`: overlapping passes may deliver twice and count
  from stale reads, but what one marks delivered Schedjuice has recorded, unless it had found
  the endpoint paused, and none parks a row early.  A row met in a pause is marked delivered
  unsent, since "there is nowhere left to send it" (`deliver-webhooks.ts:58`); when the
  endpoint is resumed nothing sends it after all, and it is a loss like that of a parked row.
* `RefinesEventChannel`: whatever is retried, replayed or answered too late, each event is
  handled at most once, only after its transaction committed, and queues at most one pull.
* `ReleaseIsAccountedFor`: the one way to lose a recorded release is a crash or a dead broker
  between recording and acting, because a duplicate is not acted on.
* `CatchUpFoundTheGap`: a catch-up that ends has recorded everything above the cursor it
  began from that was committed then, out-of-order commits included.  What lies
  below the cursor is another matter: see below.
* `OnlyReleasedMarks`: overlapping pulls may store and show an older total, never one that was
  not released.  Of the marks per section this is not so: see below.
* `LinkedColumnStays`: a paper stays in the column a teacher linked it to, through any pulls
  that bind and refresh it, unless one had read the link and not yet saved it when the
  teacher did.
* `UndisturbedPullSettles`: what earlier pulls lost, failed or left half done, one pull that
  is left alone repairs, as far as it asks: every mark released since its `since` is stored
  with its sections, and in the linked column, and no row is left waiting that could be written.
* `AwardIsDefensible`: a mark is within the question's total and survives the column it is
  stored in, even for rubrics no check has seen.
* `FullMarksCanBeHad`: the checks of a save and of a publish look at different things, yet
  together let through no question that cannot be answered for its total.  A save or an add
  that lands behind the publish's look may leave a question with no key, which earns nobody
  anything; but never a key whose rubric cannot be met.
* `MoreRightIsNeverWorse`: ticking more right options never lowers a mark.
* `OrdersNeverMix`: of three questions, two reorders that write the same rows never leave a
  mixture; rows are written in list order and held until the commit, and a circle is a
  deadlock.  A delete that had read its list before a reorder puts the older order back.
* `OptionsAreOfTheBody`: two saves of a question do not mix in what is stored, because the
  UPDATE of its row comes first and makes the second wait.  A reader is another matter:
  `listKeyedQuestions` is three SELECTs, and may see one save's body and another's options.
* `KeyMadeOneQuestion`: a create retried while its first try still commits makes one
  question.  A retry after that question was deleted fails, as the key is taken.
* `NoGapsOneAtATime`: one request at a time leaves positions without gaps, failed ones
  included.  Concurrent adds do not (see below).
* `PublishedPaperSettles`: the edits whose draft check passed before a publish may still
  change the published paper, each once and in one piece, and no later one is let in.
* `EveryRequestEnds`: requests that wait for a row, a key or the test, in a circle or not, do
  not wait for good.

### What the code does and its text does not say

The run HandIn ends with a trace; `PROJECT.json` quotes the statement it contradicts under
`findings`.  The other properties named here stand in their modules with the statement they
quote; TLC ends with a trace when one takes the place of the properties in the .cfg named.

* HandIn / `EveryAnswerIsMarked`.  `submit` posts however `flush` returned: with a send in
  flight, in backoff or failed, the paper is marked without the queued answers, which are
  then refused and cleared.
* `OrderDoesNotMatter` (AnswerSheet.cfg; `apply-mutations.ts:23-24`).  A flag shares
  `client_seq` with the answers, so an answer that arrives after a newer flag is dropped and
  still acknowledged.
* `SnapshotIsLatest` (TakeReload.cfg; `use-attempt.ts:74`).  A flush saves the state it closed
  over, undoing the snapshot of what was typed while it waited.
* `RestoreKeepsWhatWasTyped` (TakeReload.cfg with `ActsEarly = TRUE`; `use-attempt.ts:52-53`).
  Nothing stops an answer before the restore is done, and the restore replaces it.
* `SavedLabelIsTrue` (TakeSync.cfg; `app/take/[code]/page.tsx:128`).  "Everything reported here
  already happened": queueing an answer leaves the label as it was, so "Saved" is shown over it
  until the next flush.
* `SecondSubmitChangesNothing` (Lifecycle.cfg; `submit-attempt.ts:22-23`).  Two overlapping
  hand-ins both write, even over a teacher's marking.
* `TotalIsOfTheMarks` (Lifecycle.cfg; `score-written-answer.ts:21-23`).  Two teachers marking
  two essays at once leave a total that misses one of them.
* `CatchUpLeavesNothing` (CatchUp.cfg; `tasks.py:75-80`).  A catch-up asks above the highest
  seq received.  A push that arrived out of order has moved the cursor past events that were
  parked, met a pause, went with the endpoint, or committed late: no catch-up finds those.  The
  comment at `models.py:96`, "highest event sequence fully processed", is wrong for the same
  reason.
* `CatchUpPullsTheMarks` (CatchUp.cfg; `webhook_handling.py:195-196`).  A catch-up does not
  "pick the marks up" of a release whose task could not be queued: it begins above it, and
  would take it for a duplicate.  The next release does, as a pull queued by an event reads
  everything.
* `AmendedMarkReplaces` (Gradebook.cfg; `scores.py:96-97`).  Two pulls overlap a re-release:
  the one that fetched before it stores last, and the older mark stays until another pull.
* `ColumnIsTheTeachers` (Gradebook.cfg; `papers.py:109-110`).  A pull that found no binding
  and then binds the paper overwrites a teacher's link made in between with no column; one
  that finds it the second time may save every field as it was read.
* `OnlyReleasedSections` (Gradebook.cfg; `list-scores.ts:18-19`).  "Only released attempts are
  visible": the attempts are selected first and their answers last, so an attempt re-marked in
  between gives a released total with unreleased marks per section.
* `PublishedIsReady` (Scoring.cfg; `publish-test.ts:41`).  A save or an add that found a draft
  lands on the paper after the publish has looked: an incomplete question is published.
* `UnansweredScoresZero` (Scoring.cfg; `score.ts:7-9`).  A rubric whose tier for no right
  option has points pays them for a choice that was answered and then emptied.
* `SingleHasOneKey` (Scoring.cfg; `question-readiness.ts:99-103`, `question-input.ts:91`).
  Readiness counts the correct options that have text, the scorer all of them: with a second
  one without text, either earns full marks.
* `PublishedPaperIsFixed` (Authoring.cfg; `add-question.ts:50-52`).  An edit checked before a
  publish commits after it.  Two publishes that
  overlap both append an event.
* `OneQuestionPerSlot` (Authoring.cfg; `delete-question.ts:36-37`).  Two adds that overlap
  take the same position; order then falls to the id.

### Fairness

TakeLive, Delivery and Authoring use `FairSpec`, the other runs `Spec`, without fairness.

In TakeLive sends fail any number
of times, then the connection and the database hold: `<>[][~Failure]_vars`.  From there the
code's own timers justify weak fairness: `Flush` (a 2 s interval), `BackoffElapsed` (a delay
capped at 30 s), `Restore` (an effect on mount), the continuation of an awaited request
(`FlushOk`, `FlushRefused`, a failed reply), and the server's handler (`AdmitCall`,
`BeginCall`, `ApplyNext`, `Commit`).  The taker, reloads, the `online` event, strays, the
deadline and hand-ins are under no fairness.  The property excuses an attempt that was handed
in: its late batches are refused for good.

In Delivery the timer starts passes and a pass goes on (`PassAlone`, `Deliver`), a transaction
ends one way or the other, a backoff runs out, and a worker goes on with its handler.  Nothing
is assumed of appending, of the endpoint or of a catch-up; timeouts, crashes and pauses are
bounded by `MaxFaults`.  `EveryEventArrives` excuses an event whose row was parked, met a pause
or went with the endpoint, and one hit between recording and acting, which the code does lose.

In Authoring one weak fairness says that Node and Postgres go on as long as any request can,
deadlock detection included; no request is favoured, and none has to begin.

## Proofs

For every value of the constants, under their named assumptions (`SheetAssumption`: batches
are sequences of mutations, the clamp is a natural number, `Blank` is no answer;
`LifecycleAssumption`: finitely many start requests, tickets have bearers, the placeholders
are not values), TLAPS checks:

* `AnswerSheet_proofs`: `SheetTypeOK`, `AppliedIsReflected`, `RowsAreClaimed`, `NewestIsShown`,
  `SheetMovesForward`, and `SheetIsARegister`, the refinement of `LatestAnswer`, for batches of
  answers alone.  The properties are about committed state, and become inductive once they are
  also asked of the open transaction: the invariant says that the committed sheet, and the
  private one a transaction works on, each satisfy the three relations between rows and ledger,
  and that an open transaction is the committed sheet or a later one (`Forward`).  Claiming one
  mutation preserves all of them; commit copies the private sheet; rollback drops it.  The
  refinement also needs to know that whatever is in a ledger was sent (`Origin`); the three
  relations then say that the rows are what the register shows.  `RowIsClaimed`, that no row
  shows a number nobody claimed, follows from the same invariant and is proved without a run of
  its own.
* `TakeSync_proofs` (`TakeAssumption`, which says of `Events` that each is an answer, a flag
  or a navigation; `EngineAssumption`): `TakeSyncType`, `MutationsAreInCustody`,
  `TypedStaysDurable`, `QueueStaysKept`, `SavedIsSaved` and `DrainedPaperStaysWhole`.  The
  durable one assumes `DiskMayFail = FALSE`, the others nothing further: the taker may act
  before the restore, as the page lets them, and `QueueStaysKept` says itself what the restore
  takes (`RestoreKeepsWhatWasTyped` above).  The argument has three
  layers.  *Where* mutations are: an id names one mutation in the outbox, the batches, the
  snapshot and the ledger alike (`Named`), what the server confirmed is in the ledger
  (`Custody`), and the snapshot holds what the outbox holds (`Shelved`); that is why pruning
  by id loses nothing.  *In which order* they reach the sheet, on a page never reloaded
  (`InOrder`): every batch, abandoned ones included, is sorted, and whatever precedes one of
  its mutations is in it or in the ledger already (`Fit`), so a transaction never applies a
  mutation after a newer one, and device and rows both show the newest mutation of each
  question.  *When it is final* (`Papers`): a state handed in takes no more answers, so a
  sheet that was settled when the hand-in was posted shows the same from then on.  What
  `PruneOutbox` returns is proved by a least counterexample (`NaturalInduction`).
  `SittingUsesTheSheet` composes the two components: a sitting implements `AnswerSheet`
  for the batches it sends, so the theorems above hold of it (`SheetKeepsItsWord`), after a
  reload too, where a page may use a number twice.
* `Dictation_proofs`: `SittingIsADictation`, the refinement of `Dictation` by a page never
  reloaded, from `DictatedUntilReloaded`, which speaks of any page up to its first reload,
  step by step; and `LoopStopsWithReason`.  The second assumes `MaxReloads = 0`, and the last
  `ActsEarly = FALSE`: a restore that shortens the outbox leaves a page stopped whose batch was
  too long, and which is so no more.  What the
  refinement adds to `InOrder` is about hand-ins: what a submission has read of the
  sheet and not yet marked is the sheet as it was at some moment (`Glimpses`), however long
  it lies between its read and its write.  The steps are told apart by what they move, the
  device, the sheet or the paper (`StepsPromised`).  The loop's invariant (`Stops`) says
  that a refusal on its way to the page is of an attempt handed in or of a batch too long, and
  that the outbox is no shorter than the batch that was sent of it.
* `AttemptLifecycle_proofs`: `LifecycleTypeOK`, `LifecycleInvariant`,
  `NothingUnmarkedIsPublished`, `EventsTellTheStory`, `TicketAdmitsOne`, `MarkingStands`,
  `AttemptsAreOnRecord` and `OneAtATimeKeepsTheLimit`.  `LifecycleInv` strengthens the
  properties with what a request may rely on while it waits: an attempt has a row once its
  start is done, and not before; a pending hand-in or marker is about an attempt that exists;
  what a marker saw marked is still marked (`MarkersSawWhatStays`), which is why no missed mark
  publishes an unmarked answer; and a ticket past its claim is held by one request
  (`TicketsHeldOnce`), which is what carries the single UPDATE over to the insert.  The
  refinement of `AttemptRecord` has a lemma for each read that a request acts on later and each
  transaction that writes an attempt (`ReadBeginsHandIn`, `WriteHandsIn`, `UpsertBeginsMark`,
  `RegradeMarks`, `ReleaseReleases` and others).  A marker is stale in the record exactly when
  what it saw is no longer the marks; `MarkLeavesStale` says that a commit makes stale only
  those marking the same attempt.  That a marker's transaction may call the attempt graded
  rests on `MarkersSawWhatStays` again.  `LogTellsTheStory` (an attempt starts once and first,
  a release directly follows a grading, a published status is the latest event) and
  `NothingIsUnmarked` are proved without runs of their own.  For the limit, `RoomForTheAllowed`
  says that a taker who never raced has at most one start between its count and its insert, and
  then room for its row.
* `EventDelivery_proofs` (`LogAssumption`, `ReceiverAssumption`, `DeliveryAssumption`: pages,
  batches and attempts are positive, passes and catch-ups are told apart): `TypeInvariant`,
  `DeliveredIsRecorded`, `ParkingIsFair`, `CursorStandsOnAnEvent`, `ReleasesAreAccountedFor`,
  `CursorOnlyAdvances`, `ChannelIsImplemented` and `CatchingUpClosesTheGap`.
  `DeliveryInvariant` adds what each party may rely on while it waits: a job is about a
  committed event, and one past `record` about a recorded one; of one event at most one job is
  between recording and acting, and no pull is queued for it yet, which is why it queues one;
  what a pass read of a row's failures is no more than the row has now, which is why a stale
  count parks nothing early.  For the gap, what a running catch-up has not recorded of its log
  is on its page or above its cursor (`GapIsAhead`), and a page leaves out only what is newer
  than all of it (`PageLeavesNewer`), by a least element.  `CursorIsRecorded` and
  `CursorNeverGoesBack` (the cursor stands on a recorded event and only advances) are proved
  without runs of their own.
* `ScorePull_proofs` (`PullAssumption`): `TypeInvariant`, `OnlyReleasedIsStored`,
  `TeachersColumnStays`, `OnePullSettles`.  Totals travel from Scholis through fetched rows,
  stored rows, pending rows and cells, so the invariant asks of each that it was released; of
  the sections it asks nothing, as the code keeps no such promise.  For the column, as long as
  it is sure to be kept (`LinkSafe`) no pull is about to bind the paper, and what a refresh may
  save names that column.  That one pull settles is an invariant about a pull left alone: each
  attempt it asked for is still to be stored, or stored and pending, or in the linked column,
  and what waits in the table is pending once it has looked.
* `Scoring_proofs` (`ScoringAssumption`: case folding respects blanks, a null rubric is among
  the rubrics): `TypeInvariant`, `AwardsAreDefensible`, `FullMarksAreReachable`,
  `MoreRightPaysNoLess`.  `CheckedInvariant` says what the checks leave behind: what is stored
  passed the rubric check of a save, however late it was written, or is older than rubrics; and
  a question nobody wrote since a publish looked is ready.  It does not say that what is
  published is, because it need not be.  From it `RubricFits` and `SeenIsKeyed` give what the
  scorer needs.
  That tiers which rise step by step rise altogether (`StepwiseIsRising`) is proved by a
  least counterexample, since induction over data is not available.
* `Authoring_proofs` (`AuthoringAssumption`: finitely many ids, numbered; those of new
  questions are never drawn twice): `AuthoringType`, `OptionsStayWithTheBody`,
  `KeysMakeOneQuestion`, `NoOrdersMix`, `NoGapsAlone`, `PublishedPapersSettle`,
  `WaitsAreChains` and `EditsCannotFreeze`.  Three inductive invariants.  `IInv`
  says what a request under way may rely on: the rows it holds are held by nobody else
  (`Apart`), were there before it or are its own (`Own`), and an update still finds the
  options it saw.  `OInv` adds that a request places every question it sees, by a list whose
  order somebody asked for: a delete that read the order before a reordering committed
  overwrites all of it, which restores an older order and never half of one.  `LInv` says
  what the one request under way has counted or placed, as long as there is one.  That
  `ORDER BY` yields every question once, in its place, is a lemma about ranks
  (`InOrderLists`, by counting).  That a published paper settles needs `IInv` and who may
  still write: only a commit and a save of the settings change the paper, each ends the
  request that made it, and after a publish a request that begins is over or looks up its key.
  The last two are the safety half of `EveryRequestEnds`, for any number of requests: a
  request waits for one other at most, since a row, a key and the test each have one holder
  (`OneIsAwaited`), and while any is under way, one can go on or stands in a circle that
  Postgres breaks (`SomebodyCanGoOn`).  A least set of waiters that is closed, every one of
  which waits for a member, is such a circle (`ClosedHasCircle`).

Proofs are arranged by action, and each conjunct an action cannot disturb is dealt with once.

Model-checked only: liveness (`EventuallySaved`, `EveryEventArrives`, `EveryRequestEnds`),
as liveness and ENABLED are beyond TLAPS as used here; of `EveryRequestEnds` the theorems
prove that nothing freezes, and not that it ends.

## Left out

* Contents: answers are model values, times are "before" and "after" the deadline, wording is
  gone.  `clientSeq` on timing and visibility mutations is never compared, so it is dropped.
* `attempt_events`: a visibility event is keyed by its mutation id, so the ledger says
  whether it is there.
* The attempt token and the lookups of ids: the models' requests carry valid ones.  A lookup
  that fails changes nothing.
* The page after hand-in: it still tracks visibility until the comment is sent or skipped;
  those batches are refused.
* The sweep of snapshots older than a day, the comment, reading results, tickets being minted.
* Signatures on webhooks, checked before anything else happens; a second endpoint of one
  organisation, which would have delivery rows of its own.
* The maximum of a gradebook column, filled in once; columns and courses that are deleted, and
  papers unlinked; two attempts by one student, which share a cell; the retries of a failed
  pull, which are its task queued again.  The sections are the marks of the answers as read:
  the questions and sections they are tallied by are fixed once a paper is published.
* A question saved behind a hand-in: what `Scoring` awards is of the rows as they stand, while
  a stored mark stays what it was.
* Sections, placed by the same code as questions; tags and new tests, which are rows of their
  own.  Reads of one handler between which nothing is decided are one step, except where a
  property is about what they come to together (the reads of `submitAttempt`, of a pull, of a
  pass).  The three SELECTs by which a question is read are one, so what a reader, the publish
  check included, may see of a save that commits between them is not modelled.
* Answers of the wrong kind: the reducer refuses them, and the scorer gives them nothing.

### Not modelled

* Accounts, teams, invitations, clients, organisations, uploads, HTTP, mail: single-row
  writes and credential checks, where one statement decides.
* Teacher single sign-on: a code claimed by one UPDATE, as launch tickets are.
* The take session, the package cache, the service worker and the screens: one page each.
* Connecting a tenant (`provisioning.py`): three steps in one order; a rollback after the
  remote call loses the only copy of the key, and the hazard is listed.
* Schedjuice outside `app_scholis`: another product (scheduling, finances, chat), and by far
  most of the lines in the tree.  None of Scholis' logic is in it, so the share of all lines
  that is modelled is small although most of Scholis' own core is.

## Plan

What is left, in the order of its worth:

1. `TakeSync`: what a lost snapshot costs.
2. `AttemptLifecycle`: results read in two steps, the student comment.
3. `Provisioning`: one database transaction around two remote calls, retried.
4. Sections in `Authoring`, with questions moving between them.
5. Monitoring segments: which question a stretch of time is banked on.
