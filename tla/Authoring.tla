------------------------------ MODULE Authoring ------------------------------
(***************************************************************************)
(* Editing one test: every request checks that the test is a draft, and    *)
(* most read what they work from, before the transaction they write in.    *)
(* The transaction runs under READ COMMITTED: a statement sees what is     *)
(* committed as it begins and what its own transaction wrote, and waits    *)
(* for the transaction that holds a row it writes.  Postgres ends one      *)
(* transaction of a circle of waiters.                                     *)
(***************************************************************************)
EXTENDS Integers, SequencesExt

CONSTANTS
    MaxRequests, \* bound: the requests made, numbered as they are
    Ids,         \* bound: the question ids there are, natural numbers
    Starting,    \* the questions the draft begins with, in order
    NewIds,      \* per request: the ids the questions it may add will get
    Keys,        \* the idempotency keys clients use
    NoKey,
    MaxDrafts,   \* bound: questions one addDraftQuestions adds (20 in the code)
    Lists,       \* bound: the orders teachers send, of questions there are or not
    Ops          \* the endpoints called

Requests == 1 .. MaxRequests

\* Ids are drawn at random (defaultRandom): none is drawn twice.
ASSUME AuthoringAssumption ==
    /\ MaxRequests \in Nat /\ Ids \subseteq Nat \ {0} /\ IsFiniteSet(Ids)
    /\ Starting \in Seq(Ids) /\ IsInjective(Starting)
    /\ NewIds \in [Requests -> Seq(Ids)]
    /\ \A r \in Requests : /\ Len(NewIds[r]) >= MaxDrafts /\ IsInjective(NewIds[r])
                           /\ ToSet(NewIds[r]) \cap ToSet(Starting) = {}
    /\ \A r, o \in Requests : r # o => ToSet(NewIds[r]) \cap ToSet(NewIds[o]) = {}
    /\ NoKey \notin Keys /\ MaxDrafts \in Nat \ {0}
    /\ Lists \subseteq Seq(Ids) /\ <<>> \notin Lists
    /\ Ops \subseteq {"add", "drafts", "update", "delete", "reorder", "publish", "settings"}

VARIABLES
    status,     \* tests.status
    settings,   \* the last request to have saved the test's settings
    published,  \* the test.published.v1 events
    paper,      \* the rows of questions, each with the options it has
    keyOf,      \* idempotency_keys: the resource of each key, 0 if unused
    req,        \* per request: where it is and what it knows
    asked,      \* history: the order it began in and the reorderings committed
    made,       \* history: per key, the questions committed under it
    alone       \* history: no two requests have been under way at once

vars == <<status, settings, published, paper, keyOf, req, asked, made, alone>>

\* `body` and `options` name the request that saved them, 0 for the draft as
\* it began; `ready` is what isQuestionReady says of them.
NoQuestion == [state |-> "unused", pos |-> 0, ready |-> FALSE, body |-> 0, options |-> {}]
Question(pos, ready, by) ==
    [state |-> "there", pos |-> pos, ready |-> ready, body |-> by, options |-> {by}]
Deleted == [NoQuestion EXCEPT !.state = "deleted"]

\* Mutant: one too low.
IndexBefore(list, i) == (CHOOSE k \in DOMAIN list : list[k] = i) - 2

\* The place of i in a list, from 0 as in the code.
IndexIn(list, i) == (CHOOSE k \in DOMAIN list : list[k] = i) - 1

NoWrites == [i \in {} |-> NoQuestion]

\* `writes` are the rows the open transaction holds, as it sees them.
Idle == [op |-> "none", at |-> "idle", q |-> 0, list |-> <<>>, key |-> NoKey, n |-> 0,
         ready |-> FALSE, seen |-> {}, writes |-> NoWrites]

Init == /\ status = "draft" /\ settings = 0 /\ published = 0
        /\ paper = [i \in Ids |-> IF i \in ToSet(Starting)
                                    THEN Question(IndexIn(Starting, i), TRUE, 0)
                                    ELSE NoQuestion]
        /\ keyOf = [k \in Keys |-> 0]
        /\ req = [r \in Requests |-> Idle]
        /\ asked = {Starting} /\ made = [k \in Keys |-> {}] /\ alone = TRUE

There(p) == {i \in Ids : p[i].state = "there"}

\* ORDER BY position, id
Before(p, i, j) == \/ p[i].pos < p[j].pos
                   \/ (p[i].pos = p[j].pos /\ i < j)
InOrder(p) == [k \in 1 .. Cardinality(There(p)) |->
                CHOOSE i \in There(p) : Cardinality({j \in There(p) : Before(p, j, i)}) = k - 1]
\* The rows w, and those of p they leave to be seen.
Atop(w, p) == [i \in DOMAIN w \cup DOMAIN p |-> IF i \in DOMAIN w THEN w[i] ELSE p[i]]

Row(i, row) == [j \in {i} |-> row]

View(r) == Atop(req[r].writes, paper)

UnderWay(r) == req[r].at \notin {"idle", "over"}

\* Mutant: the UPDATE does not wait.
FreeAlways(r, i) == TRUE

\* The row is free of every other open transaction.
Free(r, i) == \A o \in Requests \ {r} : i \notin DOMAIN req[o].writes

Now(r, at) == req' = [req EXCEPT ![r].at = at]
\* Answered, or failed and rolled back.
Over(r) == req' = [req EXCEPT ![r] = [Idle EXCEPT !.at = "over"]]
Nothing == UNCHANGED <<status, settings, published, paper, keyOf, asked, made, alone>>

----------------------------------------------------------------------------
(***************************************************************************)
(* The reads outside the transaction.                                      *)
(***************************************************************************)
\* The first step of each endpoint once its draft check has passed.
FirstStep == [add |-> "count", drafts |-> "insert", update |-> "save", delete |-> "remove",
              reorder |-> "list", publish |-> "check", settings |-> "set"]

\* Mutant: the draft check is left out of one endpoint.
DraftSeenAlways(op) == status = "draft" \/ op = "update"

\* The draft check, on the test as it was read.
DraftSeen(op) == status = "draft"

\* findQuestionById, findTestForOrg.  An add looks for its key before it minds the
\* status it read.
Begin(r) ==
    /\ req[r].at = "idle" /\ \A o \in 1 .. r - 1 : req[o].at # "idle"
    /\ \E op \in Ops, q \in There(paper) \cup {0}, k \in Keys \cup {NoKey},
          n \in 0 .. MaxDrafts, ready \in BOOLEAN, list \in Lists \cup {<<>>} :
          /\ q # 0 <=> op \in {"update", "delete"}
          /\ k # NoKey => op = "add"
          /\ n # 0 <=> op = "drafts"
          /\ ready => op \in {"add", "update"}
          /\ list # <<>> <=> op = "reorder"
          /\ req' = [req EXCEPT ![r] = [Idle EXCEPT
                !.op = op, !.q = q, !.key = k, !.n = n, !.ready = ready, !.list = list,
                !.at = CASE op = "add" /\ k # NoKey -> IF DraftSeen(op) THEN "key" ELSE "lateKey"
                         [] op = "add" /\ k = NoKey -> IF DraftSeen(op) THEN "count" ELSE "over"
                         [] op # "add" -> IF DraftSeen(op) THEN FirstStep[op] ELSE "over"]]
    /\ alone' = (alone /\ \A o \in Requests \ {r} : ~UnderWay(o))
    /\ UNCHANGED <<status, settings, published, paper, keyOf, asked, made>>

\* findIdempotentResource: a retry gets the question the key stands for, if it is
\* still there, whatever became of the test.
LookUpKey(r) ==
    /\ req[r].at \in {"key", "lateKey"}
    /\ LET i == keyOf[req[r].key]
       IN  IF i # 0 /\ i \in There(paper) THEN Over(r)
           ELSE IF req[r].at = "lateKey" THEN Over(r) ELSE Now(r, "count")
    /\ Nothing

\* countQuestions, on ctx.db
Count(r) ==
    /\ req[r].at = "count"
    /\ req' = [req EXCEPT ![r].at = "insert", ![r].n = Cardinality(There(paper))]
    /\ Nothing

\* sameSet: each of the questions, once.
SameSet(current, list) ==
    ToSet(current) = ToSet(list) /\ Len(current) = Len(list) /\ IsInjective(list)

\* listQuestionIdsInOrder, on ctx.db
CheckList(r) ==
    /\ req[r].at = "list"
    /\ IF SameSet(InOrder(paper), req[r].list) THEN Now(r, "place") ELSE Over(r)
    /\ Nothing

\* listKeyedQuestions, on ctx.db, and incompleteQuestionCount
CheckPaper(r) ==
    /\ req[r].at = "check"
    /\ IF There(paper) # {} /\ \A i \in There(paper) : paper[i].ready
         THEN Now(r, "status") ELSE Over(r)
    /\ Nothing

----------------------------------------------------------------------------
(***************************************************************************)
(* The transactions, a statement at a time.                                *)
(***************************************************************************)
Writing(r, w, at) == req' = [req EXCEPT ![r].writes = Atop(w, @), ![r].at = at]

\* insertQuestion and its options.  A draft batch counts in its transaction, an add
\* has counted before.  A draft has no wording, and an added question need not either.
Insert(r) ==
    /\ req[r].at = "insert"
    /\ LET drafts == req[r].op = "drafts"
           first == IF drafts THEN Cardinality(There(paper)) ELSE req[r].n
           ids == SubSeq(NewIds[r], 1, IF drafts THEN req[r].n ELSE 1)
       IN  Writing(r, [i \in ToSet(ids) |-> Question(first + IndexIn(ids, i), req[r].ready, r)],
                   IF req[r].key = NoKey THEN "commit" ELSE "claim")
    /\ Nothing

\* recordIdempotentResource: the loser of a race waits, then rolls back.
Claimed(o, k) == req[o].op = "add" /\ req[o].key = k /\ req[o].at = "commit"
\* Mutant: ON CONFLICT DO NOTHING.
ClaimSwallowed(r) ==
    /\ req[r].at = "claim"
    /\ \A o \in Requests : ~Claimed(o, req[r].key)
    /\ Now(r, "commit")
    /\ Nothing

\* Mutant: try again until the key is free.
ClaimAgain(r) ==
    /\ req[r].at = "claim"
    /\ \A o \in Requests : ~Claimed(o, req[r].key)
    /\ keyOf[req[r].key] = 0
    /\ Now(r, "commit")
    /\ Nothing

Claim(r) ==
    /\ req[r].at = "claim"
    /\ \A o \in Requests : ~Claimed(o, req[r].key)
    /\ IF keyOf[req[r].key] = 0 THEN Now(r, "commit") ELSE Over(r)
    /\ Nothing

\* updateQuestionRow, then the options seen replaced.  No row: it throws.
Save(r) ==
    /\ req[r].at = "save" /\ Free(r, req[r].q)
    /\ LET q == req[r].q
           old == View(r)[q]
       IN  IF old.state # "there" THEN Over(r)
           ELSE req' = [req EXCEPT
                  ![r].writes = Row(q, Question(old.pos, req[r].ready, r)),
                  ![r].seen = old.options,
                  ![r].at = "commit"]
    /\ Nothing

\* DELETE ... WHERE id: no row, no effect.
DeleteRow(r) ==
    /\ req[r].at = "remove" /\ Free(r, req[r].q)
    /\ Writing(r, IF View(r)[req[r].q].state = "there" THEN Row(req[r].q, Deleted) ELSE NoWrites,
               "renumber")
    /\ Nothing

\* Mutant: the positions are left as they are.
RenumberNothing(r) == req[r].at = "renumber" /\ Now(r, "commit") /\ Nothing

\* listQuestionIdsInOrder, in the transaction
Renumber(r) ==
    /\ req[r].at = "renumber"
    /\ req' = [req EXCEPT ![r].list = InOrder(View(r)), ![r].at = "place", ![r].n = 0]
    /\ Nothing

\* Mutant: each UPDATE on ctx.db, committed at once.  Its order counts as asked for
\* from the first, so that only orders nobody asked for are held against it.
PlaceAtOnce(r) ==
    /\ req[r].at = "place" /\ req[r].n < Len(req[r].list)
    /\ LET i == req[r].list[req[r].n + 1]
       IN  /\ Free(r, i)
           /\ paper' = IF i \in There(paper) THEN [paper EXCEPT ![i].pos = req[r].n] ELSE paper
    /\ req' = [req EXCEPT ![r].n = @ + 1]
    /\ asked' = IF req[r].op = "reorder" THEN asked \cup {req[r].list} ELSE asked
    /\ UNCHANGED <<status, settings, published, keyOf, made, alone>>

\* One UPDATE of setQuestionPositions; a row that is gone is passed over.
Place(r) ==
    /\ req[r].at = "place" /\ req[r].n < Len(req[r].list)
    /\ LET i == req[r].list[req[r].n + 1]
           old == View(r)[i]
       IN  /\ Free(r, i)
           /\ req' = [req EXCEPT
                 ![r].writes = IF old.state = "there"
                                 THEN Atop(Row(i, [old EXCEPT !.pos = req[r].n]), @) ELSE @,
                 ![r].n = @ + 1]
    /\ Nothing

\* UPDATE tests SET status
HoldsTest(o) == req[o].op = "publish" /\ req[o].at = "commit"
SetStatus(r) ==
    /\ req[r].at = "status" /\ \A o \in Requests : ~HoldsTest(o)
    /\ Now(r, "commit")
    /\ Nothing

\* updateTestSettings: one UPDATE with no transaction around it.
SetSettings(r) ==
    /\ req[r].at = "set" /\ \A o \in Requests : ~HoldsTest(o)
    /\ settings' = r
    /\ Over(r)
    /\ UNCHANGED <<status, published, paper, keyOf, asked, made, alone>>

Placed(r) == req[r].at = "place" /\ req[r].n = Len(req[r].list)

\* The options a save did not see when it deleted are still there after it.
Installed(r) ==
    [i \in Ids |->
        IF i \notin DOMAIN req[r].writes THEN paper[i]
        ELSE IF req[r].op = "update"
               THEN [req[r].writes[i] EXCEPT !.options = (paper[i].options \ req[r].seen) \cup @]
               ELSE req[r].writes[i]]

Commit(r) ==
    /\ req[r].at = "commit" \/ Placed(r)
    /\ LET q == req[r]
       IN  /\ paper' = Installed(r)
           /\ status' = IF q.op = "publish" THEN "published" ELSE status
           /\ published' = IF q.op = "publish" THEN published + 1 ELSE published
           /\ asked' = IF q.op = "reorder" THEN asked \cup {q.list} ELSE asked
           /\ keyOf' = IF q.key = NoKey THEN keyOf
                       ELSE [keyOf EXCEPT ![q.key] = CHOOSE i \in DOMAIN q.writes : TRUE]
           /\ made' = IF q.key = NoKey THEN made
                      ELSE [made EXCEPT ![q.key] = @ \cup DOMAIN q.writes]
    /\ Over(r)
    /\ UNCHANGED <<settings, alone>>

\* The connection, the process or the database fails the request: rollback.
Dies(r) == UnderWay(r) /\ Over(r) /\ Nothing

\* What r's next statement waits for.
WaitsFor(r, o) ==
    /\ r # o
    /\ \/ req[r].at \in {"save", "remove"} /\ req[r].q \in DOMAIN req[o].writes
       \/ /\ req[r].at = "place" /\ ~Placed(r)
          /\ req[r].list[req[r].n + 1] \in DOMAIN req[o].writes
       \/ req[r].at = "claim" /\ Claimed(o, req[r].key)
       \/ req[r].at \in {"status", "set"} /\ HoldsTest(o)

Waiting == {r \in Requests : \E o \in Requests : WaitsFor(r, o)}

\* A transaction waits for one other at most, so these are the circles.
InCircle(r) == \E S \in SUBSET Waiting :
                  /\ r \in S
                  /\ \A x \in S : \E y \in S : WaitsFor(x, y)
                  /\ \A y \in S : \E x \in S : WaitsFor(x, y)

Deadlock(r) == InCircle(r) /\ Over(r) /\ Nothing

Step(r) == \/ LookUpKey(r) \/ Count(r) \/ CheckList(r) \/ CheckPaper(r)
           \/ Insert(r) \/ Claim(r) \/ Save(r) \/ DeleteRow(r) \/ Renumber(r) \/ Place(r)
           \/ SetStatus(r) \/ SetSettings(r) \/ Commit(r)

Next == \E r \in Requests : Begin(r) \/ Step(r) \/ Dies(r) \/ Deadlock(r)

Spec == Init /\ [][Next]_vars

\* Node and Postgres go on as long as there is a request that can, and no longer.
FairSpec == Spec /\ WF_vars((\E r \in Requests : Step(r)) \/ (\E r \in Requests : Deadlock(r)))

----------------------------------------------------------------------------
(***************************************************************************)
(* Properties.                                                             *)
(***************************************************************************)
Rows == [state : {"unused", "there", "deleted"}, pos : Nat, ready : BOOLEAN,
         body : Requests \cup {0}, options : SUBSET (Requests \cup {0})]

\* A request whose transaction holds rows as W describes.
Request(W) ==
    [op : {"none", "add", "drafts", "update", "delete", "reorder", "publish", "settings"},
     at : {"idle", "key", "lateKey", "count", "insert", "claim", "save", "remove",
           "renumber", "list", "place", "check", "status", "set", "commit", "over"},
     q : Ids \cup {0}, list : Seq(Ids), key : Keys \cup {NoKey}, n : Nat,
     ready : BOOLEAN, seen : SUBSET (Requests \cup {0}), writes : W]

TypeOK == /\ status \in {"draft", "published"} /\ settings \in Requests \cup {0}
          /\ published \in Nat
          /\ paper \in [Ids -> Rows]
          /\ keyOf \in [Keys -> Ids \cup {0}] /\ made \in [Keys -> SUBSET Ids]
          /\ \A r \in Requests : LET held == req[r].writes
                                IN  /\ req[r] \in Request({held}) /\ DOMAIN held \subseteq Ids
                                    /\ \A i \in DOMAIN held : held[i] \in Rows
          /\ asked \subseteq Seq(Ids) /\ alone \in BOOLEAN

\* The questions the draft began with stand in p as they do in list.
Follows(p, list) ==
    \A i, j \in There(p) \cap ToSet(Starting) :
        Before(p, i, j) <=> IndexIn(list, i) < IndexIn(list, j)

\* Orders never mix: the questions the draft began with stand, less those deleted, in
\* an order somebody asked for, whatever was added, deleted or saved since or
\* meanwhile (reorder-questions.ts:18-22).  It need not be the latest: a delete that
\* had read the order before puts it back.
OrdersNeverMix == \E list \in asked : Follows(paper, list)

\* What is stored of a question is of one save: its options never are those of another
\* than its body, or of two (update-question.ts:55-76).  A reader that fetches the body
\* and the options in two SELECTs may still pair them as no save did.
OptionsAreOfTheBody == \A i \in There(paper) : paper[i].options = {paper[i].body}

\* However often and however concurrently a create is retried, its key has made one
\* question, the one a retry is given (add-question.ts:22, idempotency.ts:27-31).
KeyMadeOneQuestion == \A k \in Keys : made[k] = IF keyOf[k] = 0 THEN {} ELSE {keyOf[k]}

\* As long as requests come one at a time the positions have no gap and no question
\* claims another's, after any of them, failed ones included (delete-question.ts:33-37).
NoGapsOneAtATime ==
    alone /\ (\A r \in Requests : ~UnderWay(r)) =>
        {paper[i].pos : i \in There(paper)} = 0 .. (Cardinality(There(paper)) - 1)

\* Not everybody waits for good: as long as a request is under way, one of those is free
\* to go on or stands in a circle, which Postgres breaks.
SomebodyCanGoOn ==
    (\E r \in Requests : UnderWay(r)) =>
        \E r \in Requests : UnderWay(r) /\ (r \notin Waiting \/ InCircle(r))

\* Whoever waits for whom, in a circle or not, in the end nobody does.
EveryRequestEnds == []<>(\A r \in Requests : ~UnderWay(r))

\* The requests that may still write: an add that came too late only looks up its key.
Editing == {r \in Requests : UnderWay(r) /\ req[r].at # "lateKey"}

\* A published paper settles: the requests whose draft check passed before the publish
\* may still change it, each once and in one piece, and no later one is let in
\* (update-question.ts:37 and every other check outside the transaction).
PublishedPaperSettles ==
    [][status = "published" =>
          /\ status' = "published" /\ Editing' \subseteq Editing
          /\ <<paper, settings, published>>' # <<paper, settings, published>> => Editing' # Editing]_vars

\* Violated.  "Editing a published test would change the paper under students already
\* sitting it ... refusing is the honest v1 behaviour" (add-question.ts:50-52).
PublishedPaperIsFixed == [][status = "published" => paper' = paper /\ settings' = settings]_vars

\* Violated.  "a gap means two questions claiming the same slot"
\* (delete-question.ts:36-37): when all is done no two do.
OneQuestionPerSlot ==
    (\A r \in Requests : ~UnderWay(r)) =>
        \A i, j \in There(paper) : paper[i].pos = paper[j].pos => i = j
=============================================================================
