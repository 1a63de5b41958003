---------------------------- MODULE AnswerSheet ----------------------------
(***************************************************************************)
(* The server's copy of one sitting: the rows of `responses` for one       *)
(* attempt, the `mutations` ledger, and the transaction in which           *)
(* applyMutations drains a device's batch.                                 *)
(*                                                                         *)
(* A device may send any batch, in any order, any number of times: that is *)
(* all the network promises.  What survives is decided by two mechanisms:  *)
(* the ledger (a mutation id is claimed once) and the guard of the two     *)
(* upserts (a row moves only to a higher client_seq).                      *)
(*                                                                         *)
(* Transactions are taken one at a time.  Every statement of the loop      *)
(* touches a single ledger key or a single row and keeps its lock until    *)
(* commit, so two that overlap on a key wait for each other, and two that  *)
(* do not overlap commute.                                                 *)
(***************************************************************************)
EXTENDS Naturals, Sequences

CONSTANTS
    Questions,      \* question ids of the paper
    Values,         \* what a taker can answer
    Blank,          \* the empty value a mark or a manual score inserts
    Ids,            \* mutation ids (crypto.randomUUID)
    MaxTimingDelta, \* MAX_TIMING_DELTA_MS
    Batches         \* the batches devices may send, sequences of mutations

AnswerMutation == [kind : {"answer"}, id : Ids, q : Questions, val : Values, seq : Nat]
MarkMutation == [kind : {"mark"}, id : Ids, q : Questions, on : BOOLEAN, seq : Nat]
TimingMutation == [kind : {"timing"}, id : Ids, q : Questions, ms : Nat]
VisibilityMutation == [kind : {"visibility"}, id : Ids]
Mutation == AnswerMutation \cup MarkMutation \cup TimingMutation \cup VisibilityMutation

ASSUME SheetAssumption == /\ \A batch \in Batches : batch \in Seq(Mutation)
                          /\ MaxTimingDelta \in Nat
                          /\ Blank \notin Values

VARIABLES
    rows,    \* committed response rows, one per question; Absent when there is none
    ledger,  \* committed claims; an id is claimed for the mutation that carried it
    tx       \* the open transaction and its private view, if there is one

vars == <<rows, ledger, tx>>

Row == [exists : BOOLEAN, val : Values \cup {Blank}, seq : Nat, marked : BOOLEAN, ms : Nat]

\* The column defaults, which an insert completes.
Absent == [exists |-> FALSE, val |-> Blank, seq |-> 0, marked |-> FALSE, ms |-> 0]
NoRows == [q \in Questions |-> Absent]

(***************************************************************************)
(* The statements of one transaction.                                      *)
(***************************************************************************)
\* Answers and marks carry a sequence number the row is compared with.
IsSequenced(m) == m.kind \in {"answer", "mark"}

\* Mutants of the guard: none at all, and ON CONFLICT DO NOTHING.
WritesAlways(R, m) == TRUE
WritesOnlyNew(R, m) == ~R[m.q].exists

\* The WHERE of the two conflict branches: only a higher client_seq writes.
Writes(R, m) == R[m.q].exists => R[m.q].seq < m.seq

UpsertAnswer(R, m) ==
    [R EXCEPT ![m.q] = [@ EXCEPT !.exists = TRUE, !.val = m.val, !.seq = m.seq]]

\* Mutant: the flag lands in the column of the value.
UpsertMarkWrongColumn(R, m) ==
    [R EXCEPT ![m.q] = [@ EXCEPT !.exists = TRUE, !.val = m.on, !.seq = m.seq]]

\* A new row gets the empty value; the conflict branch leaves `value` alone but
\* moves client_seq all the same.
UpsertMark(R, m) ==
    [R EXCEPT ![m.q] = [@ EXCEPT !.exists = TRUE, !.marked = m.on, !.seq = m.seq]]

Clamp(ms) == IF ms < MaxTimingDelta THEN ms ELSE MaxTimingDelta

\* An UPDATE: no row, no time.
AddQuestionTime(R, m) ==
    IF R[m.q].exists
    THEN [R EXCEPT ![m.q] = [@ EXCEPT !.ms = R[m.q].ms + Clamp(m.ms)]]
    ELSE R

\* The switch of applyMutations.  A visibility event is a row of its own table
\* keyed by the mutation id, so the ledger already says whether it is there.
Effect(R, m) ==
    CASE m.kind = "answer" -> IF Writes(R, m) THEN UpsertAnswer(R, m) ELSE R
      [] m.kind = "mark" -> IF Writes(R, m) THEN UpsertMark(R, m) ELSE R
      [] m.kind = "timing" -> AddQuestionTime(R, m)
      [] m.kind = "visibility" -> R

Claimed(L, m) == \E c \in L : c.id = m.id

----------------------------------------------------------------------------
Closed == [open |-> FALSE, todo |-> <<>>, rows |-> NoRows, ledger |-> {}]

Init == /\ rows = NoRows
        /\ ledger = {}
        /\ tx = Closed

\* db.transaction: a private view of what is committed.
Begin(batch) ==
    /\ ~tx.open
    /\ tx' = [open |-> TRUE, todo |-> batch, rows |-> rows, ledger |-> ledger]
    /\ UNCHANGED <<rows, ledger>>

\* claimMutation, and the effect when this call won the insert.
ApplyNext ==
    /\ tx.open
    /\ tx.todo # <<>>
    /\ LET m == Head(tx.todo)
           isNew == ~Claimed(tx.ledger, m)
       IN  tx' = [tx EXCEPT !.todo = Tail(@),
                            !.rows = IF isNew THEN Effect(@, m) ELSE @,
                            !.ledger = IF isNew THEN @ \cup {m} ELSE @]
    /\ UNCHANGED <<rows, ledger>>

Commit ==
    /\ tx.open
    /\ tx.todo = <<>>
    /\ rows' = tx.rows
    /\ ledger' = tx.ledger
    /\ tx' = Closed

\* Mutant: the upserts run on ctx.db rather than in the transaction.
RollbackLeavesRows ==
    /\ tx.open
    /\ rows' = tx.rows
    /\ tx' = Closed
    /\ UNCHANGED ledger

\* A statement failed, the process died, a deadlock was broken.
Rollback ==
    /\ tx.open
    /\ tx' = Closed
    /\ UNCHANGED <<rows, ledger>>

----------------------------------------------------------------------------
(***************************************************************************)
(* On its own the sheet faces a network that delivers anything.            *)
(***************************************************************************)
Next == \/ \E batch \in Batches : Begin(batch)
        \/ ApplyNext
        \/ Commit
        \/ Rollback

Spec == Init /\ [][Next]_vars

----------------------------------------------------------------------------
TypeOK ==
    /\ rows \in [Questions -> Row]
    /\ ledger \subseteq Mutation
    /\ tx \in [open : BOOLEAN, todo : Seq(Mutation),
               rows : [Questions -> Row], ledger : SUBSET Mutation]

Sent == UNION {{batch[i] : i \in DOMAIN batch} : batch \in Batches}

AnswersTo(L, q) == {m \in L : m.kind = "answer" /\ m.q = q}
MarksOf(L, q) == {m \in L : m.kind = "mark" /\ m.q = q}

\* Every claimed answer or mark is behind a row that is at least as new.
ClaimedIsReflectedIn(R, L) ==
    \A m \in L : IsSequenced(m) => R[m.q].exists /\ m.seq <= R[m.q].seq

\* A row carries the sequence number of some claimed mutation of its question.
RowIsClaimedIn(R, L) ==
    \A q \in Questions :
        \/ R[q] = Absent
        \/ /\ R[q].exists
           /\ \E m \in AnswersTo(L, q) \cup MarksOf(L, q) : m.seq = R[q].seq

\* A value on the sheet is one the taker sent, or Blank; and an answer newer
\* than the one shown is there only behind a mark newer still.
ShownIsNewestIn(R, L) ==
    \A q \in Questions :
        \/ /\ R[q].val = Blank
           /\ \A m \in AnswersTo(L, q) : \E k \in MarksOf(L, q) : m.seq <= k.seq
        \/ \E a \in AnswersTo(L, q) :
              /\ R[q].val = a.val
              /\ \A m \in AnswersTo(L, q) :
                    a.seq < m.seq => \E k \in MarksOf(L, q) : m.seq <= k.seq

\* What the server reported as applied is never lost to an older write: every
\* mutation in the ledger has a row whose client_seq is at least its own
\* (upsertAnswer and upsertMark: "a late mutation with a lower seq updates
\* nothing instead of resurrecting a stale answer").
ClaimedIsReflected == ClaimedIsReflectedIn(rows, ledger)

\* No row shows a sequence number that no accepted mutation carried: the ledger
\* and the rows are committed together or not at all.
RowIsClaimed == RowIsClaimedIn(rows, ledger)

\* Whatever order batches arrive in, the value shown for a question is the
\* newest accepted answer, unless a mark newer than that answer got in first.
ShownIsNewest == ShownIsNewestIn(rows, ledger)

\* R2 with L2 is R1 with L1 or a later sheet.
Forward(R1, L1, R2, L2) ==
    /\ L1 \subseteq L2
    /\ \A q \in Questions : R1[q].exists =>
          /\ R2[q].exists
          /\ R1[q].seq <= R2[q].seq
          /\ R1[q].ms <= R2[q].ms
          /\ <<R1[q].val, R1[q].marked>> # <<R2[q].val, R2[q].marked>>
                => R1[q].seq < R2[q].seq

\* A sitting only moves forward: no step takes back a claim, removes a row,
\* lowers its client_seq or the time banked on it, or changes what a row shows
\* without raising its client_seq (addQuestionTime: "a delta applied once can
\* only ever move forwards").
NothingGoesBack == [][Forward(rows, ledger, rows', ledger')]_vars

\* apply-mutations.ts: "effects are last-write-wins by clientSeq so order
\* doesn't matter": once every mutation of a question is in, its row shows the
\* answer with the highest clientSeq.
OrderDoesNotMatter ==
    \A q \in Questions :
        (\A m \in Sent : IsSequenced(m) /\ m.q = q => m \in ledger) =>
            \A a \in AnswersTo(ledger, q) :
                (\A m \in AnswersTo(ledger, q) : m.seq <= a.seq) => rows[q].val = a.val

\* With answers alone the sheet is a newest-wins register: order, repetition
\* and batching of what the devices send leave no trace.
Register == INSTANCE LatestAnswer WITH
                Answers <- Sent,
                accepted <- ledger,
                shown <- [q \in {x \in Questions : rows[x].exists} |-> rows[q].val]
RefinesLatestAnswer == Register!Spec

=============================================================================
