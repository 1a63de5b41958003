------------------------------ MODULE ScorePull ------------------------------
(***************************************************************************)
(* Released marks on their way into Schedjuice's gradebook: pull_scores    *)
(* run by celery's workers and by teachers, for one paper.  A pull reads   *)
(* what Scholis has released, all of it or since a time, stores it a row   *)
(* at a time and writes what is pending into the column the paper is       *)
(* linked to; each row is a transaction of its own, and pulls overlap.  Of *)
(* the link only the column is kept: titles and maxima are copied along    *)
(* and nothing reads them here but column.max_marks, filled in once.       *)
(*                                                                         *)
(* A mark is known by its version: 1 as first graded, one more with each   *)
(* revision.  0 stands for no mark.  The total and the marks of the        *)
(* answers, tallied by section, are of one version in Scholis and are read *)
(* one after the other.  Every attempt is another student's.               *)
(***************************************************************************)
EXTENDS Naturals, FiniteSets

CONSTANTS
    Attempts,
    WalkIns,     \* attempts whose studentRef resolves to nobody
    Columns, NoColumn,
    Workers,     \* celery workers, and teachers pulling by hand
    MaxVersion,  \* bound: revisions of a mark
    MaxReleases, \* bound: times the teacher releases
    MaxLinks,    \* bound: times a teacher links the paper
    MaxByHand,   \* bound: pulls nobody queued
    MaxFaults    \* bound: crashes and failed writes

ASSUME PullAssumption == /\ IsFiniteSet(Attempts) /\ WalkIns \subseteq Attempts
                         /\ NoColumn \notin Columns
                         /\ MaxVersion \in Nat \ {0} /\ MaxReleases \in Nat
                         /\ MaxLinks \in Nat /\ MaxByHand \in Nat /\ MaxFaults \in Nat

VARIABLES
    graded,    \* Scholis: version of each attempt's mark, and which release it stands
               \* released by, 0 for none
    now,       \* releases so far: what released_at tells apart
    out,       \* history: the versions that were ever released
    queue,     \* pull_scores_for_tenant tasks waiting
    link,      \* the ScholisPaperLink row
    kept,      \* history: the column a teacher linked, unless a pull stood in between
    stored,    \* ScholisScore rows: mark, sections, and synced_marks (0 with synced_at NULL)
    cell,      \* ResultCell.marks
    pull,      \* per worker: where its pull is
    budget     \* what is left of the bounds

vars == <<graded, now, out, queue, link, kept, stored, cell, pull, budget>>

Versions == 0 .. MaxVersion
NoLink == [row |-> FALSE, column |-> NoColumn]
NoMarks == [a \in Attempts |-> 0]
Idle == [phase |-> "idle", since |-> 0, rows |-> NoMarks, sections |-> NoMarks,
         pending |-> {}, copy |-> NoLink, alone |-> FALSE]

Init == /\ graded = [a \in Attempts |-> [mark |-> 1, released |-> 0]]
        /\ now = 0
        /\ out = [a \in Attempts |-> {}]
        /\ queue = 0
        /\ link = NoLink /\ kept = NoColumn
        /\ stored = [a \in Attempts |-> [mark |-> 0, sections |-> 0, synced |-> 0]]
        /\ cell = [c \in Columns |-> [a \in Attempts |-> 0]]
        /\ pull = [w \in Workers |-> Idle]
        /\ budget = [links |-> MaxLinks, byHand |-> MaxByHand, faults |-> MaxFaults]

Spend(what) == budget[what] > 0 /\ budget' = [budget EXCEPT ![what] = @ - 1]

Busy(w) == pull[w].phase # "idle"

\* What else happens takes from every pull under way that it was undisturbed.
Disturbed(f) == [w \in Workers |-> [f[w] EXCEPT !.alone = FALSE]]

----------------------------------------------------------------------------
(***************************************************************************)
(* Scholis, and the teachers on either side.                               *)
(***************************************************************************)
\* scoreWrittenAnswer on an attempt already marked: released or not, it is graded.
Revise(a) ==
    /\ graded[a].mark < MaxVersion
    /\ graded' = [graded EXCEPT ![a] = [mark |-> @.mark + 1, released |-> 0]]
    /\ pull' = Disturbed(pull)
    /\ UNCHANGED <<now, out, queue, link, kept, stored, cell, budget>>

\* releaseResults: every graded attempt of the test, an event and hence a task each.
Release ==
    LET ready == {a \in Attempts : graded[a].released = 0}
    IN  /\ now < MaxReleases /\ ready # {}
        /\ now' = now + 1
        /\ graded' = [a \in Attempts |-> IF a \in ready THEN [graded[a] EXCEPT !.released = now + 1]
                                                        ELSE graded[a]]
        /\ out' = [a \in Attempts |-> out[a] \cup {graded[a].mark}]
        /\ queue' = queue + Cardinality(ready)
        /\ pull' = Disturbed(pull)
        /\ UNCHANGED <<link, kept, stored, cell, budget>>

\* A pull between what it read of the link and what it saves of it.
SavesLink(w) == pull[w].phase \in {"refresh", "bind"}

\* link_paper from the view.
LinkPaper(c) ==
    /\ Spend("links")
    /\ link' = [row |-> TRUE, column |-> c]
    /\ kept' = IF \E w \in Workers : SavesLink(w) THEN NoColumn ELSE c
    /\ pull' = Disturbed(pull)
    /\ UNCHANGED <<graded, now, out, queue, stored, cell>>

----------------------------------------------------------------------------
(***************************************************************************)
(* pull_scores.                                                            *)
(***************************************************************************)
\* Mutant: listReleasedAttemptsForOrg without its status.
ListedAnyStatus(since) == [a \in Attempts |-> graded[a].mark]

\* list_scores, the first SELECT: the attempts with their totals.
Listed(since) == [a \in Attempts |-> IF graded[a].released > since THEN graded[a].mark ELSE 0]

Answered(since) == {a \in Attempts : Listed(since)[a] > 0}

\* With nothing to list it returns before it looks at what is pending; what it lists may
\* be of other papers only.
Fetch(w, since) ==
    /\ ~Busy(w)
    /\ \/ Answered(since) = {} /\ UNCHANGED pull
       \/ pull' = [Disturbed(pull) EXCEPT
                     ![w] = [Idle EXCEPT !.phase = "listing", !.since = since,
                                         !.rows = Listed(since),
                                         !.alone = \A v \in Workers : ~Busy(v)]]
    /\ UNCHANGED <<graded, now, out, link, kept, stored, cell>>

TakeTask(w) == queue > 0 /\ queue' = queue - 1 /\ Fetch(w, 0) /\ UNCHANGED budget

\* A teacher may ask for what was released since some time, here after so many releases.
\* A course_ref that is not this paper's lists nothing of it, as the latest time does.
PullByHand(w) == Spend("byHand") /\ (\E since \in 0 .. now : Fetch(w, since)) /\ UNCHANGED queue

\* The rows a pull still has to store, and a pull that is through with one.
ToStore(w, a) == pull[w].rows[a] > 0
Through(w, a) == [pull[w] EXCEPT !.rows[a] = 0, !.sections[a] = 0]

\* list_scores, the last SELECT: the marks of those attempts' answers, as they are by
\* now and whatever has become of the release.
ListResponses(w) ==
    /\ pull[w].phase = "listing"
    /\ pull' = [pull EXCEPT ![w].phase = "store",
                            ![w].sections = [a \in Attempts |-> IF ToStore(w, a) THEN graded[a].mark
                                                                                 ELSE 0]]
    /\ UNCHANGED <<graded, now, out, queue, link, kept, stored, cell, budget>>

\* _ensure_link found no binding: link_from_score_row looks again.
LinkMissing(w) ==
    /\ pull[w].phase = "store" /\ (\E a \in Attempts : ToStore(w, a)) /\ ~link.row
    /\ pull' = [pull EXCEPT ![w].phase = "relook"]
    /\ UNCHANGED <<graded, now, out, queue, link, kept, stored, cell, budget>>

\* Mutant: link_paper without looking for a binding again.
RelookNot(w) ==
    /\ pull[w].phase = "relook"
    /\ pull' = [pull EXCEPT ![w].phase = "bind"]
    /\ UNCHANGED <<graded, now, out, queue, link, kept, stored, cell, budget>>

Relook(w) ==
    /\ pull[w].phase = "relook"
    /\ pull' = [pull EXCEPT ![w].phase = IF link.row THEN "refresh" ELSE "bind",
                            ![w].copy = IF link.row THEN link ELSE NoLink]
    /\ UNCHANGED <<graded, now, out, queue, link, kept, stored, cell, budget>>

\* refresh_from_row saves every field of the row as it was read, once its title, its
\* maximum or its course is news.
RefreshLink(w) ==
    /\ pull[w].phase = "refresh"
    /\ link' \in {pull[w].copy, link}
    /\ pull' = [Disturbed(pull) EXCEPT ![w].phase = "store", ![w].copy = NoLink]
    /\ UNCHANGED <<graded, now, out, queue, kept, stored, cell, budget>>

\* link_paper(column=None): update_or_create, whether or not it is there by now.
BindPaper(w) ==
    /\ pull[w].phase = "bind"
    /\ link' = [row |-> TRUE, column |-> NoColumn]
    /\ pull' = [pull EXCEPT ![w].phase = "store"]
    /\ UNCHANGED <<graded, now, out, queue, kept, stored, cell, budget>>

\* Mutant: a re-release leaves the row projected.
StoreRowStillSynced(w, a) ==
    /\ pull[w].phase = "store" /\ ToStore(w, a) /\ link.row
    /\ stored' = [stored EXCEPT ![a].mark = pull[w].rows[a],
                                ![a].sections = pull[w].sections[a]]
    /\ pull' = [pull EXCEPT ![w] = Through(w, a)]
    /\ UNCHANGED <<graded, now, out, queue, link, kept, cell, budget>>

\* _upsert_score
StoreRow(w, a) ==
    /\ pull[w].phase = "store" /\ ToStore(w, a) /\ link.row
    /\ stored' = [stored EXCEPT ![a] = [mark |-> pull[w].rows[a],
                                        sections |-> pull[w].sections[a], synced |-> 0]]
    /\ pull' = [pull EXCEPT ![w] = Through(w, a)]
    /\ UNCHANGED <<graded, now, out, queue, link, kept, cell, budget>>

\* One bad row is reported and passed over.
StoreFails(w, a) ==
    /\ pull[w].phase = "store" /\ ToStore(w, a)
    /\ Spend("faults")
    /\ pull' = [pull EXCEPT ![w] = [Through(w, a) EXCEPT !.alone = FALSE]]
    /\ UNCHANGED <<graded, now, out, queue, link, kept, stored, cell>>

\* The pending rows, with the column their link was joined to.
Pending == {[attempt |-> a, mark |-> stored[a].mark, column |-> link.column] :
               a \in {b \in Attempts : stored[b].mark > 0 /\ stored[b].synced = 0}}

\* Mutant: what is pending is read before everything is stored.
ReadPendingEarly(w) ==
    /\ pull[w].phase = "store"
    /\ pull' = [pull EXCEPT ![w].phase = "sync", ![w].pending = Pending]
    /\ UNCHANGED <<graded, now, out, queue, link, kept, stored, cell, budget>>

ReadPending(w) ==
    /\ pull[w].phase = "store" /\ \A a \in Attempts : ~ToStore(w, a)
    /\ pull' = [pull EXCEPT ![w].phase = "sync", ![w].pending = Pending]
    /\ UNCHANGED <<graded, now, out, queue, link, kept, stored, cell, budget>>

Placed(p) == p.attempt \notin WalkIns /\ p.column # NoColumn

\* Nobody to give it to, or nowhere to put it.
PassOver(w, p) ==
    /\ pull[w].phase = "sync" /\ p \in pull[w].pending /\ ~Placed(p)
    /\ pull' = [pull EXCEPT ![w].pending = @ \ {p}]
    /\ UNCHANGED <<graded, now, out, queue, link, kept, stored, cell, budget>>

\* _write_cell and the stamp, from the objects the query returned.
WriteCell(w, p) ==
    /\ pull[w].phase = "sync" /\ p \in pull[w].pending /\ Placed(p)
    /\ cell' = [cell EXCEPT ![p.column][p.attempt] = p.mark]
    /\ stored' = [stored EXCEPT ![p.attempt].synced = p.mark]
    /\ pull' = [pull EXCEPT ![w].pending = @ \ {p}]
    /\ UNCHANGED <<graded, now, out, queue, link, kept, budget>>

WriteFails(w, p) ==
    /\ pull[w].phase = "sync" /\ p \in pull[w].pending /\ Placed(p)
    /\ Spend("faults")
    /\ pull' = [pull EXCEPT ![w].pending = @ \ {p}, ![w].alone = FALSE]
    /\ UNCHANGED <<graded, now, out, queue, link, kept, stored, cell>>

Finish(w) ==
    /\ pull[w].phase = "sync" /\ pull[w].pending = {}
    /\ pull' = [pull EXCEPT ![w] = Idle]
    /\ UNCHANGED <<graded, now, out, queue, link, kept, stored, cell, budget>>

\* Scholis could not be reached, the task's retries included.
FetchFails(w) ==
    /\ ~Busy(w) /\ queue > 0 /\ Spend("faults")
    /\ queue' = queue - 1
    /\ UNCHANGED <<graded, now, out, link, kept, stored, cell, pull>>

\* The worker is killed: its task was acknowledged when it was taken.
Killed(w) ==
    /\ Busy(w) /\ Spend("faults")
    /\ pull' = [pull EXCEPT ![w] = Idle]
    /\ UNCHANGED <<graded, now, out, queue, link, kept, stored, cell>>

\* One turn of the pull.
Work(w) == \/ ListResponses(w) \/ LinkMissing(w) \/ Relook(w) \/ RefreshLink(w) \/ BindPaper(w)
           \/ \E a \in Attempts : StoreRow(w, a)
           \/ ReadPending(w)
           \/ \E p \in pull[w].pending : PassOver(w, p) \/ WriteCell(w, p)
           \/ Finish(w)

Trouble(w) == \/ \E a \in Attempts : StoreFails(w, a)
              \/ \E p \in pull[w].pending : WriteFails(w, p)
              \/ FetchFails(w) \/ Killed(w)

Next == \/ \E a \in Attempts : Revise(a)
        \/ Release
        \/ \E c \in Columns : LinkPaper(c)
        \/ \E w \in Workers : TakeTask(w) \/ PullByHand(w) \/ Work(w) \/ Trouble(w)

Spec == Init /\ [][Next]_vars

----------------------------------------------------------------------------
(***************************************************************************)
(* Properties.                                                             *)
(***************************************************************************)
Phases == {"idle", "listing", "store", "relook", "refresh", "bind", "sync"}
LinkType == [row : BOOLEAN, column : Columns \cup {NoColumn}]
PendingType == [attempt : Attempts, mark : Versions, column : Columns \cup {NoColumn}]
PullType == [phase : Phases, since : Nat, rows : [Attempts -> Versions],
             sections : [Attempts -> Versions], pending : SUBSET PendingType,
             copy : LinkType, alone : BOOLEAN]

TypeOK == /\ graded \in [Attempts -> [mark : Versions, released : Nat]]
          /\ now \in Nat
          /\ out \in [Attempts -> SUBSET Versions]
          /\ queue \in Nat
          /\ link \in LinkType /\ kept \in Columns \cup {NoColumn}
          /\ stored \in [Attempts -> [mark : Versions, sections : Versions, synced : Versions]]
          /\ cell \in [Columns -> [Attempts -> Versions]]
          /\ pull \in [Workers -> PullType]
          /\ \A w \in Workers : /\ pull[w].phase = "sync" => pull[w].rows = NoMarks
                                /\ pull[w].phase # "sync" => pull[w].pending = {}
          /\ budget \in [links : Nat, byHand : Nat, faults : Nat]

\* No total is stored or shown in the gradebook that was not released at some time,
\* though Scholis marks, revises and releases while pulls are under way
\* (list-scores.ts:18-19).
WasOut(a, mark) == mark = 0 \/ mark \in out[a]
OnlyReleasedMarks == \A a \in Attempts : /\ WasOut(a, stored[a].mark)
                                         /\ \A c \in Columns : WasOut(a, cell[c][a])

\* The column a teacher linked stays until the next link, whatever pulls overlap, bind
\* and refresh, unless a pull was about to save what it had read of the link before
\* (papers.py:106-112: the second look, and the refresh that leaves the column alone).
LinkedColumnStays == kept # NoColumn => link.row /\ link.column = kept

\* What a pull is to leave behind of what was released since some time.
HasPlace(a) == a \notin WalkIns /\ link.column # NoColumn
Landed(a) == cell[link.column][a] = graded[a].mark /\ stored[a].synced = graded[a].mark
Settled(since) == \A a \in Attempts :
    /\ Listed(since)[a] > 0 => /\ stored[a].mark = graded[a].mark
                               /\ stored[a].sections = graded[a].mark
                               /\ HasPlace(a) => Landed(a)
    /\ (HasPlace(a) /\ stored[a].mark > 0 => stored[a].synced # 0)

\* A pull during which no other pull ran, no mark changed and nobody linked the paper
\* leaves behind every released mark it asked for, its sections with it, stored and in
\* the linked column, and no other row waiting that could have been written, whatever
\* earlier pulls lost or left half done (scores.py:69-71, 223-225).
UndisturbedPullSettles == \A w \in Workers :
    pull[w].alone /\ pull[w].phase = "sync" /\ pull[w].pending = {} => Settled(pull[w].since)

\* Violated.  "Only released attempts are visible, and that is enforced by the query
\* rather than by a filter here" (list-scores.ts:18-19): what is stored of the sections
\* was released.
OnlyReleasedSections == \A a \in Attempts : WasOut(a, stored[a].sections)

\* Violated.  "Marks get amended, and an amended mark must replace the old one
\* everywhere" (scores.py:96-97): with every task done and nothing failed, what is
\* stored of a released attempt is its mark.
Quiet == queue = 0 /\ \A w \in Workers : ~Busy(w)
AmendedMarkReplaces == Quiet /\ budget.faults = MaxFaults =>
    \A a \in Attempts : graded[a].released > 0 => stored[a].mark = graded[a].mark

\* Violated.  "Where the marks go is a decision made here, not something a score row
\* should silently move" (papers.py:109-110): only a teacher moves a paper from the
\* column it is linked to.
ColumnIsTheTeachers ==
    [][link.column # NoColumn /\ link'.column # link.column
          => budget'.links < budget.links]_vars
=============================================================================
