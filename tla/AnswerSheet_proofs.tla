------------------------- MODULE AnswerSheet_proofs -------------------------
(* Proofs about AnswerSheet, for every set of questions, values and batches. *)
EXTENDS AnswerSheet, TLAPS

(***************************************************************************)
(* What one mutation does to a sheet.                                      *)
(***************************************************************************)

\* The clamp of applyMutations yields a natural number.
LEMMA ClampType == \A ms \in Nat : Clamp(ms) \in Nat
BY SheetAssumption DEF Clamp

\* The types of the switch of applyMutations: any mutation takes a sheet to a sheet.
LEMMA EffectType ==
    ASSUME NEW R \in [Questions -> Row], NEW m \in Mutation
    PROVE  Effect(R, m) \in [Questions -> Row]
<1>1. CASE m \in AnswerMutation
  BY <1>1 DEF AnswerMutation, Effect, UpsertAnswer, Row
<1>2. CASE m \in MarkMutation
  BY <1>2 DEF MarkMutation, Effect, UpsertMark, Row
<1>3. CASE m \in TimingMutation
  <2>1. m.q \in Questions /\ m.kind = "timing" /\ Clamp(m.ms) \in Nat
    BY <1>3, ClampType DEF TimingMutation
  <2>2. R[m.q].ms + Clamp(m.ms) \in Nat
    BY <2>1 DEF Row
  <2>3. [R[m.q] EXCEPT !.ms = R[m.q].ms + Clamp(m.ms)] \in Row
    BY <2>1, <2>2 DEF Row
  <2>4. QED
    BY <2>1, <2>3 DEF Effect, AddQuestionTime
<1>4. CASE m \in VisibilityMutation
  BY <1>4 DEF VisibilityMutation, Effect
<1>5. QED
  BY <1>1, <1>2, <1>3, <1>4 DEF Mutation

\* No mutation takes a sheet back (upsertAnswer, upsertMark, addQuestionTime).
LEMMA EffectForward ==
    ASSUME NEW R \in [Questions -> Row], NEW L, NEW m \in Mutation
    PROVE  Forward(R, L, Effect(R, m), L \cup {m})
<1>1. CASE m \in AnswerMutation
  BY <1>1 DEF AnswerMutation, Effect, Writes, UpsertAnswer, Row, Forward
<1>2. CASE m \in MarkMutation
  BY <1>2 DEF MarkMutation, Effect, Writes, UpsertMark, Row, Forward
<1>3. CASE m \in TimingMutation
  <2>1. m.q \in Questions /\ m.kind = "timing" /\ Clamp(m.ms) \in Nat
    BY <1>3, ClampType DEF TimingMutation
  <2>2. Effect(R, m) = AddQuestionTime(R, m)
    BY <2>1 DEF Effect
  <2>3. QED
    BY <2>1, <2>2 DEF AddQuestionTime, Row, Forward
<1>4. CASE m \in VisibilityMutation
  BY <1>4 DEF VisibilityMutation, Effect, Row, Forward
<1>5. QED
  BY <1>1, <1>2, <1>3, <1>4 DEF Mutation

\* The facts about rows and ledger that every claim preserves.
Sound(R, L) ==
    /\ ClaimedIsReflectedIn(R, L)
    /\ RowIsClaimedIn(R, L)
    /\ ShownIsNewestIn(R, L)

\* A mutation that moves nothing: its row is already at least as new.
LEMMA IgnoredSound ==
    ASSUME NEW R \in [Questions -> Row], NEW L \in SUBSET Mutation, NEW m \in Mutation,
           Sound(R, L), IsSequenced(m), ~Writes(R, m)
    PROVE  Sound(R, L \cup {m})
<1> DEFINE K == L \cup {m}
<1>1. /\ m.q \in Questions /\ m.seq \in Nat
      /\ R[m.q].exists /\ R[m.q].seq \in Nat /\ m.seq <= R[m.q].seq
  BY DEF IsSequenced, Writes, Mutation, AnswerMutation, MarkMutation, TimingMutation,
         VisibilityMutation, Row
<1>2. ClaimedIsReflectedIn(R, K)
  BY <1>1 DEF Sound, ClaimedIsReflectedIn
<1>3. RowIsClaimedIn(R, K)
  BY DEF Sound, RowIsClaimedIn, AnswersTo, MarksOf
<1>4. ASSUME NEW n \in L, IsSequenced(n)
      PROVE  n.seq \in Nat
  BY <1>4 DEF IsSequenced, Mutation, AnswerMutation, MarkMutation, TimingMutation,
              VisibilityMutation
<1>5. PICK n \in AnswersTo(L, m.q) \cup MarksOf(L, m.q) : n.seq = R[m.q].seq
  BY <1>1 DEF Sound, RowIsClaimedIn, Absent
<1>6. n \in L /\ IsSequenced(n) /\ n.seq \in Nat /\ m.seq <= n.seq
  BY <1>1, <1>4, <1>5 DEF AnswersTo, MarksOf, IsSequenced
<1>7. ASSUME NEW q \in Questions
      PROVE  \/ /\ R[q].val = Blank
                /\ \A x \in AnswersTo(K, q) : \E k \in MarksOf(K, q) : x.seq <= k.seq
             \/ \E a \in AnswersTo(K, q) :
                   /\ R[q].val = a.val
                   /\ \A x \in AnswersTo(K, q) :
                         a.seq < x.seq => \E k \in MarksOf(K, q) : x.seq <= k.seq
  <2>1. MarksOf(L, q) \subseteq MarksOf(K, q) /\ AnswersTo(L, q) \subseteq AnswersTo(K, q)
    BY DEF MarksOf, AnswersTo
  <2>2. \A x \in AnswersTo(K, q) : x \in AnswersTo(L, q) \/ (x = m /\ q = m.q)
    BY DEF AnswersTo
  <2>3. CASE R[q].val = Blank /\ \A x \in AnswersTo(L, q) : \E k \in MarksOf(L, q) : x.seq <= k.seq
    <3>1. ASSUME q = m.q
          PROVE  \E k \in MarksOf(L, q) : m.seq <= k.seq
      <4>1. CASE n \in MarksOf(L, q)
        BY <1>6, <4>1
      <4>2. CASE n \in AnswersTo(L, q)
        <5>1. PICK k \in MarksOf(L, q) : n.seq <= k.seq
          BY <2>3, <4>2
        <5>2. k.seq \in Nat
          BY <1>4, <5>1 DEF MarksOf, IsSequenced
        <5>3. QED
          BY <1>1, <1>6, <5>1, <5>2
      <4>3. QED
        BY <1>5, <3>1, <4>1, <4>2
    <3>2. QED
      BY <2>1, <2>2, <2>3, <3>1
  <2>4. ASSUME NEW a \in AnswersTo(L, q), R[q].val = a.val,
               \A x \in AnswersTo(L, q) :
                   a.seq < x.seq => \E k \in MarksOf(L, q) : x.seq <= k.seq
        PROVE  \E b \in AnswersTo(K, q) :
                  /\ R[q].val = b.val
                  /\ \A x \in AnswersTo(K, q) :
                        b.seq < x.seq => \E k \in MarksOf(K, q) : x.seq <= k.seq
    <3>1. ASSUME q = m.q, a.seq < m.seq
          PROVE  \E k \in MarksOf(L, q) : m.seq <= k.seq
      <4>1. CASE n \in MarksOf(L, q)
        BY <1>6, <4>1
      <4>2. CASE n \in AnswersTo(L, q)
        <5>0. a.seq \in Nat
          BY <1>4 DEF AnswersTo, IsSequenced
        <5>1. PICK k \in MarksOf(L, q) : n.seq <= k.seq
          BY <1>1, <1>6, <2>4, <3>1, <4>2, <5>0
        <5>2. k.seq \in Nat
          BY <1>4, <5>1 DEF MarksOf, IsSequenced
        <5>3. QED
          BY <1>1, <1>6, <5>1, <5>2
      <4>3. QED
        BY <1>5, <3>1, <4>1, <4>2
    <3>2. QED
      BY <2>1, <2>2, <2>4, <3>1
  <2>5. QED
    BY <2>3, <2>4 DEF Sound, ShownIsNewestIn
<1>8. QED
  BY <1>2, <1>3, <1>7 DEF Sound, ShownIsNewestIn

\* An answer that is written becomes the newest of its question.
LEMMA AnswerSound ==
    ASSUME NEW R \in [Questions -> Row], NEW L \in SUBSET Mutation, NEW m \in AnswerMutation,
           Sound(R, L), Writes(R, m)
    PROVE  Sound(UpsertAnswer(R, m), L \cup {m})
<1> DEFINE S == UpsertAnswer(R, m)
           K == L \cup {m}
<1>1. /\ m.q \in Questions /\ m.seq \in Nat /\ m.kind = "answer"
      /\ S[m.q].exists /\ S[m.q].seq = m.seq /\ S[m.q].val = m.val
      /\ \A q \in Questions : q # m.q => S[q] = R[q]
  BY DEF UpsertAnswer, AnswerMutation, Row
<1>2. ASSUME NEW n \in L, IsSequenced(n)
      PROVE  n.q \in Questions /\ n.seq \in Nat /\ (n.q = m.q => n.seq < m.seq)
  <2>1. n.q \in Questions /\ n.seq \in Nat
    BY <1>2 DEF IsSequenced, Mutation, AnswerMutation, MarkMutation, TimingMutation,
                VisibilityMutation
  <2>2. R[n.q].exists /\ n.seq <= R[n.q].seq /\ R[n.q].seq \in Nat
    BY <1>2, <2>1 DEF Sound, ClaimedIsReflectedIn, Row
  <2>3. QED
    BY <1>1, <2>1, <2>2 DEF Writes
<1>3. ClaimedIsReflectedIn(S, K)
  <2>1. ASSUME NEW n \in K, IsSequenced(n)
        PROVE  S[n.q].exists /\ n.seq <= S[n.q].seq
    <3>1. CASE n = m
      BY <1>1, <3>1
    <3>2. CASE n \in L /\ n.q = m.q
      BY <1>1, <1>2, <2>1, <3>2
    <3>3. CASE n \in L /\ n.q # m.q
      BY <1>1, <1>2, <2>1, <3>3 DEF Sound, ClaimedIsReflectedIn
    <3>4. QED
      BY <3>1, <3>2, <3>3
  <2>2. QED
    BY <2>1 DEF ClaimedIsReflectedIn
<1>4. RowIsClaimedIn(S, K)
  <2>1. m \in AnswersTo(K, m.q)
    BY <1>1 DEF AnswersTo
  <2>2. \A q \in Questions : AnswersTo(L, q) \subseteq AnswersTo(K, q) /\ MarksOf(L, q) \subseteq MarksOf(K, q)
    BY DEF AnswersTo, MarksOf
  <2>3. ASSUME NEW q \in Questions
        PROVE  \/ S[q] = Absent
               \/ /\ S[q].exists
                  /\ \E x \in AnswersTo(K, q) \cup MarksOf(K, q) : x.seq = S[q].seq
    <3>1. CASE q = m.q
      BY <1>1, <2>1, <3>1
    <3>2. CASE q # m.q
      BY <1>1, <2>2, <3>2 DEF Sound, RowIsClaimedIn
    <3>3. QED
      BY <3>1, <3>2
  <2>4. QED
    BY <2>3 DEF RowIsClaimedIn
<1>5. ShownIsNewestIn(S, K)
  <2>1. m \in AnswersTo(K, m.q) /\ \A x \in AnswersTo(K, m.q) : ~(m.seq < x.seq)
    BY <1>1, <1>2 DEF AnswersTo, IsSequenced
  <2>2. ASSUME NEW q \in Questions, q # m.q
        PROVE  AnswersTo(K, q) = AnswersTo(L, q) /\ MarksOf(K, q) = MarksOf(L, q)
    BY <2>2 DEF AnswersTo, MarksOf
  <2>3. ASSUME NEW q \in Questions
        PROVE  \/ /\ S[q].val = Blank
                  /\ \A x \in AnswersTo(K, q) : \E k \in MarksOf(K, q) : x.seq <= k.seq
               \/ \E a \in AnswersTo(K, q) :
                     /\ S[q].val = a.val
                     /\ \A x \in AnswersTo(K, q) :
                           a.seq < x.seq => \E k \in MarksOf(K, q) : x.seq <= k.seq
    <3>1. CASE q = m.q
      BY <1>1, <2>1, <3>1
    <3>2. CASE q # m.q
      <4>1. S[q] = R[q] /\ AnswersTo(K, q) = AnswersTo(L, q) /\ MarksOf(K, q) = MarksOf(L, q)
        BY <1>1, <2>2, <3>2
      <4>2. QED
        BY <4>1 DEF Sound, ShownIsNewestIn
    <3>3. QED
      BY <3>1, <3>2
  <2>4. QED
    BY <2>3 DEF ShownIsNewestIn
<1>6. QED
  BY <1>3, <1>4, <1>5 DEF Sound

\* A mark that is written is newer than every answer of its question.
LEMMA MarkSound ==
    ASSUME NEW R \in [Questions -> Row], NEW L \in SUBSET Mutation, NEW m \in MarkMutation,
           Sound(R, L), Writes(R, m)
    PROVE  Sound(UpsertMark(R, m), L \cup {m})
<1> DEFINE S == UpsertMark(R, m)
           K == L \cup {m}
<1>1. /\ m.q \in Questions /\ m.seq \in Nat /\ m.kind = "mark"
      /\ S[m.q].exists /\ S[m.q].seq = m.seq /\ S[m.q].val = R[m.q].val
      /\ \A q \in Questions : q # m.q => S[q] = R[q]
  BY DEF UpsertMark, MarkMutation, Row
<1>2. ASSUME NEW n \in L, IsSequenced(n)
      PROVE  n.q \in Questions /\ n.seq \in Nat /\ (n.q = m.q => n.seq < m.seq)
  <2>1. n.q \in Questions /\ n.seq \in Nat
    BY <1>2 DEF IsSequenced, Mutation, AnswerMutation, MarkMutation, TimingMutation,
                VisibilityMutation
  <2>2. R[n.q].exists /\ n.seq <= R[n.q].seq /\ R[n.q].seq \in Nat
    BY <1>2, <2>1 DEF Sound, ClaimedIsReflectedIn, Row
  <2>3. QED
    BY <1>1, <2>1, <2>2 DEF Writes
<1>3. ClaimedIsReflectedIn(S, K)
  <2>1. ASSUME NEW n \in K, IsSequenced(n)
        PROVE  S[n.q].exists /\ n.seq <= S[n.q].seq
    <3>1. CASE n = m
      BY <1>1, <3>1
    <3>2. CASE n \in L /\ n.q = m.q
      BY <1>1, <1>2, <2>1, <3>2
    <3>3. CASE n \in L /\ n.q # m.q
      BY <1>1, <1>2, <2>1, <3>3 DEF Sound, ClaimedIsReflectedIn
    <3>4. QED
      BY <3>1, <3>2, <3>3
  <2>2. QED
    BY <2>1 DEF ClaimedIsReflectedIn
<1>4. RowIsClaimedIn(S, K)
  <2>1. m \in MarksOf(K, m.q)
    BY <1>1 DEF MarksOf
  <2>2. \A q \in Questions : AnswersTo(L, q) \subseteq AnswersTo(K, q) /\ MarksOf(L, q) \subseteq MarksOf(K, q)
    BY DEF AnswersTo, MarksOf
  <2>3. ASSUME NEW q \in Questions
        PROVE  \/ S[q] = Absent
               \/ /\ S[q].exists
                  /\ \E x \in AnswersTo(K, q) \cup MarksOf(K, q) : x.seq = S[q].seq
    <3>1. CASE q = m.q
      BY <1>1, <2>1, <3>1
    <3>2. CASE q # m.q
      BY <1>1, <2>2, <3>2 DEF Sound, RowIsClaimedIn
    <3>3. QED
      BY <3>1, <3>2
  <2>4. QED
    BY <2>3 DEF RowIsClaimedIn
<1>5. ShownIsNewestIn(S, K)
  <2>1. m \in MarksOf(K, m.q) /\ \A x \in AnswersTo(K, m.q) : x \in L /\ x.seq <= m.seq
    BY <1>1, <1>2 DEF AnswersTo, MarksOf, IsSequenced
  <2>2. R[m.q].val = Blank \/ \E a \in AnswersTo(K, m.q) : R[m.q].val = a.val
    BY <1>1 DEF Sound, ShownIsNewestIn, AnswersTo
  <2>3. ASSUME NEW q \in Questions, q # m.q
        PROVE  AnswersTo(K, q) = AnswersTo(L, q) /\ MarksOf(K, q) = MarksOf(L, q)
    BY <2>3 DEF AnswersTo, MarksOf
  <2>4. QED
    BY <1>1, <2>1, <2>2, <2>3 DEF Sound, ShownIsNewestIn
<1>6. QED
  BY <1>3, <1>4, <1>5 DEF Sound

\* Claiming a mutation and applying its effect keeps the three facts.
LEMMA EffectSound ==
    ASSUME NEW R \in [Questions -> Row], NEW L \in SUBSET Mutation, NEW m \in Mutation,
           Sound(R, L)
    PROVE  Sound(Effect(R, m), L \cup {m})
<1>1. CASE IsSequenced(m) /\ ~Writes(R, m)
  <2>1. Effect(R, m) = R
    BY <1>1 DEF Effect, IsSequenced
  <2>2. QED
    BY <1>1, <2>1, IgnoredSound
<1>2. CASE m.kind = "answer" /\ Writes(R, m)
  <2>1. m \in AnswerMutation /\ Effect(R, m) = UpsertAnswer(R, m)
    BY <1>2 DEF Effect, Mutation, AnswerMutation, MarkMutation, TimingMutation, VisibilityMutation
  <2>2. QED
    BY <1>2, <2>1, AnswerSound
<1>3. CASE m.kind = "mark" /\ Writes(R, m)
  <2>1. m \in MarkMutation /\ Effect(R, m) = UpsertMark(R, m)
    BY <1>3 DEF Effect, Mutation, AnswerMutation, MarkMutation, TimingMutation, VisibilityMutation
  <2>2. QED
    BY <1>3, <2>1, MarkSound
<1>4. CASE ~IsSequenced(m)
  <2> DEFINE S == Effect(R, m)
             K == L \cup {m}
  <2>1. \A q \in Questions : AnswersTo(K, q) = AnswersTo(L, q) /\ MarksOf(K, q) = MarksOf(L, q)
    BY <1>4 DEF AnswersTo, MarksOf, IsSequenced
  <2>2. ASSUME NEW q \in Questions
        PROVE  /\ S[q].exists = R[q].exists /\ S[q].seq = R[q].seq /\ S[q].val = R[q].val
               /\ ~R[q].exists => S[q] = R[q]
    <3>1. CASE m \in TimingMutation
      BY <3>1 DEF TimingMutation, Effect, AddQuestionTime, Row
    <3>2. CASE m \in VisibilityMutation
      BY <3>2 DEF VisibilityMutation, Effect
    <3>3. QED
      BY <1>4, <3>1, <3>2 DEF IsSequenced, Mutation, AnswerMutation, MarkMutation
  <2>3. ClaimedIsReflectedIn(S, K)
    <3>1. ASSUME NEW n \in K, IsSequenced(n)
          PROVE  S[n.q].exists /\ n.seq <= S[n.q].seq
      <4>1. n \in L /\ n.q \in Questions
        BY <1>4, <3>1 DEF IsSequenced, Mutation, AnswerMutation, MarkMutation,
                          TimingMutation, VisibilityMutation
      <4>2. QED
        BY <2>2, <3>1, <4>1 DEF Sound, ClaimedIsReflectedIn
    <3>2. QED
      BY <3>1 DEF ClaimedIsReflectedIn
  <2>4. RowIsClaimedIn(S, K)
    <3>1. ASSUME NEW q \in Questions
          PROVE  \/ S[q] = Absent
                 \/ /\ S[q].exists
                    /\ \E x \in AnswersTo(K, q) \cup MarksOf(K, q) : x.seq = S[q].seq
      <4>1. CASE R[q] = Absent
        <5>1. ~R[q].exists
          BY <4>1 DEF Absent
        <5>2. QED
          BY <2>2, <4>1, <5>1
      <4>2. CASE R[q].exists /\ \E x \in AnswersTo(L, q) \cup MarksOf(L, q) : x.seq = R[q].seq
        BY <2>1, <2>2, <4>2
      <4>3. QED
        BY <4>1, <4>2 DEF Sound, RowIsClaimedIn
    <3>2. QED
      BY <3>1 DEF RowIsClaimedIn
  <2>5. ShownIsNewestIn(S, K)
    BY <2>1, <2>2 DEF Sound, ShownIsNewestIn
  <2>6. QED
    BY <2>3, <2>4, <2>5 DEF Sound
<1>5. QED
  BY <1>1, <1>2, <1>3, <1>4 DEF IsSequenced

(***************************************************************************)
(* The specification.                                                      *)
(***************************************************************************)

\* What holds of the committed sheet and, while a transaction is open, of its
\* private view; and the private view is the committed sheet or a later one.
Inv ==
    /\ TypeOK
    /\ Sound(rows, ledger)
    /\ Sound(tx.rows, tx.ledger)
    /\ tx.open => Forward(rows, ledger, tx.rows, tx.ledger)

\* No rows and no claims: nothing to violate.
LEMMA EmptySound == NoRows \in [Questions -> Row] /\ Sound(NoRows, {})
<1>1. NoRows \in [Questions -> Row]
  BY DEF NoRows, Absent, Row
<1>2. \A q \in Questions : NoRows[q] = Absent
  BY DEF NoRows
<1>3. QED
  BY <1>1, <1>2 DEF Absent, Sound, ClaimedIsReflectedIn, RowIsClaimedIn, ShownIsNewestIn,
                    AnswersTo, MarksOf

\* Being later is reflexive and transitive.
LEMMA ForwardOrder ==
    /\ \A R \in [Questions -> Row] : \A L : Forward(R, L, R, L)
    /\ \A R1, R2, R3 \in [Questions -> Row] : \A L1, L2, L3 :
          Forward(R1, L1, R2, L2) /\ Forward(R2, L2, R3, L3) => Forward(R1, L1, R3, L3)
<1>1. \A R \in [Questions -> Row] : \A L : Forward(R, L, R, L)
  BY DEF Forward, Row
<1>2. ASSUME NEW R1 \in [Questions -> Row], NEW R2 \in [Questions -> Row],
             NEW R3 \in [Questions -> Row], NEW L1, NEW L2, NEW L3,
             Forward(R1, L1, R2, L2), Forward(R2, L2, R3, L3)
      PROVE  Forward(R1, L1, R3, L3)
  BY <1>2 DEF Forward, Row
<1>3. QED
  BY <1>1, <1>2

\* The invariant holds initially.
LEMMA InitInv == Init => Inv
BY EmptySound, ForwardOrder DEF Init, Inv, TypeOK, Closed

\* Every step of the specification keeps the invariant and moves the sheet forward.
LEMMA NextInv == Inv /\ [Next]_vars => Inv' /\ Forward(rows, ledger, rows', ledger')
<1> SUFFICES ASSUME Inv, [Next]_vars
             PROVE  Inv' /\ Forward(rows, ledger, rows', ledger')
  OBVIOUS
<1> USE DEF Inv
<1>1. ASSUME NEW batch \in Batches, Begin(batch)
      PROVE  Inv' /\ Forward(rows, ledger, rows', ledger')
  <2>1. batch \in Seq(Mutation)
    BY SheetAssumption
  <2>2. TypeOK' /\ UNCHANGED <<rows, ledger>> /\ tx'.rows = rows /\ tx'.ledger = ledger
    BY <1>1, <2>1 DEF Begin, TypeOK
  <2>3. Forward(rows, ledger, rows, ledger)
    BY ForwardOrder DEF TypeOK
  <2>4. QED
    BY <2>2, <2>3
<1>2. CASE ApplyNext
  <2> DEFINE m == Head(tx.todo)
  <2>1. m \in Mutation /\ Tail(tx.todo) \in Seq(Mutation)
    BY <1>2 DEF ApplyNext, TypeOK
  <2>2. /\ UNCHANGED <<rows, ledger>>
        /\ tx'.open = tx.open /\ tx.open
        /\ tx' \in [open : BOOLEAN, todo : Seq(Mutation), rows : {tx'.rows}, ledger : {tx'.ledger}]
    BY <1>2, <2>1 DEF ApplyNext, TypeOK
  <2>3. CASE Claimed(tx.ledger, m)
    <3>1. tx'.rows = tx.rows /\ tx'.ledger = tx.ledger
      BY <1>2, <2>3 DEF ApplyNext, TypeOK
    <3>2. QED
      BY <2>2, <3>1, ForwardOrder DEF TypeOK
  <2>4. CASE ~Claimed(tx.ledger, m)
    <3>1. tx'.rows = Effect(tx.rows, m) /\ tx'.ledger = tx.ledger \cup {m}
      BY <1>2, <2>4 DEF ApplyNext, TypeOK
    <3>0. tx.rows \in [Questions -> Row] /\ tx.ledger \in SUBSET Mutation
      BY DEF TypeOK
    <3>2. tx'.rows \in [Questions -> Row] /\ Sound(tx'.rows, tx'.ledger)
      <4>1. Effect(tx.rows, m) \in [Questions -> Row]
        BY <2>1, <3>0, EffectType
      <4>2. Sound(Effect(tx.rows, m), tx.ledger \cup {m})
        BY <2>1, <3>0, EffectSound
      <4>3. QED
        BY <3>1, <4>1, <4>2
    <3>3. Forward(tx.rows, tx.ledger, tx'.rows, tx'.ledger)
      BY <2>1, <3>1, EffectForward DEF TypeOK
    <3>4. Forward(rows, ledger, tx'.rows, tx'.ledger)
      BY <2>2, <3>2, <3>3, ForwardOrder DEF TypeOK
    <3>5. QED
      BY <2>1, <2>2, <3>1, <3>2, <3>4, ForwardOrder DEF TypeOK
  <2>5. QED
    BY <2>3, <2>4
<1>3. CASE Commit
  BY <1>3, EmptySound, ForwardOrder DEF Commit, Closed, TypeOK
<1>4. CASE Rollback
  BY <1>4, EmptySound, ForwardOrder DEF Rollback, Closed, TypeOK
<1>5. CASE UNCHANGED vars
  BY <1>5, ForwardOrder DEF vars, TypeOK
<1>6. QED
  BY <1>1, <1>2, <1>3, <1>4, <1>5 DEF Next

\* Inv is an invariant of the sheet.
THEOREM SheetInvariant == Spec => []Inv
<1>1. QED
  BY InitInv, NextInv, PTL DEF Spec

\* Rows, ledger and transaction keep their types.
THEOREM SheetTypeOK == Spec => []TypeOK
<1>1. Inv => TypeOK
  BY DEF Inv
<1>2. QED
  BY <1>1, SheetInvariant, PTL

\* What the server reports as applied is never lost to an older write.
THEOREM AppliedIsReflected == Spec => []ClaimedIsReflected
<1>1. Inv => ClaimedIsReflected
  BY DEF Inv, Sound, ClaimedIsReflected
<1>2. QED
  BY <1>1, SheetInvariant, PTL

\* A row's sequence number was carried by a mutation the server accepted.
THEOREM RowsAreClaimed == Spec => []RowIsClaimed
<1>1. Inv => RowIsClaimed
  BY DEF Inv, Sound, RowIsClaimed
<1>2. QED
  BY <1>1, SheetInvariant, PTL

\* In whatever order batches come, a row shows the newest accepted answer,
\* unless a newer mark was accepted before it.
THEOREM NewestIsShown == Spec => []ShownIsNewest
<1>1. Inv => ShownIsNewest
  BY DEF Inv, Sound, ShownIsNewest
<1>2. QED
  BY <1>1, SheetInvariant, PTL

\* No step takes a sitting back.
THEOREM SheetMovesForward == Spec => NothingGoesBack
<1>1. Inv /\ [Next]_vars => [Forward(rows, ledger, rows', ledger')]_vars
  BY NextInv
<1>2. QED
  BY <1>1, SheetInvariant, PTL DEF Spec, NothingGoesBack

(***************************************************************************)
(* With answers alone the sheet implements LatestAnswer.                   *)
(***************************************************************************)
AnswersAlone == \A batch \in Batches : batch \in Seq(AnswerMutation)

\* What reaches the ledger was sent.
Origin == /\ ledger \subseteq Sent
          /\ tx.ledger \subseteq Sent
          /\ \A i \in DOMAIN tx.todo : tx.todo[i] \in Sent

\* The rows as a register: shown in the refinement of LatestAnswer.
View(R) == [q \in {x \in Questions : R[x].exists} |-> R[q].val]

\* Devices are where everything in the ledger comes from.
LEMMA OriginInv == Spec => []Origin
<1>1. Init => Origin
  BY DEF Init, Closed, Origin
<1>2. Inv /\ Origin /\ [Next]_vars => Origin'
  <2> SUFFICES ASSUME Inv, Origin, [Next]_vars PROVE Origin'
    OBVIOUS
  <2>1. ASSUME NEW batch \in Batches, Begin(batch) PROVE Origin'
    BY <2>1 DEF Begin, Origin, Sent
  <2>2. CASE ApplyNext
    <3>1. tx.todo \in Seq(Mutation) /\ tx.todo # <<>>
      BY <2>2 DEF ApplyNext, Inv, TypeOK
    <3>2. /\ tx'.todo = Tail(tx.todo)
          /\ tx'.ledger \subseteq tx.ledger \cup {Head(tx.todo)}
      BY <2>2 DEF ApplyNext, Inv, TypeOK
    <3>3. Head(tx.todo) \in Sent
      BY <3>1 DEF Origin
    <3>4. \A i \in DOMAIN tx'.todo : tx'.todo[i] \in Sent
      BY <3>1, <3>2 DEF Origin
    <3>5. QED
      BY <2>2, <3>2, <3>3, <3>4 DEF ApplyNext, Origin, Sent
  <2>3. CASE Commit
    BY <2>3 DEF Commit, Closed, Origin, Sent
  <2>4. CASE Rollback
    BY <2>4 DEF Rollback, Closed, Origin, Sent
  <2>5. CASE UNCHANGED vars
    BY <2>5 DEF vars, Origin, Sent
  <2>6. QED
    BY <2>1, <2>2, <2>3, <2>4, <2>5 DEF Next
<1>3. QED
  BY <1>1, <1>2, SheetInvariant, PTL DEF Spec

\* Sound rows over a ledger of answers are what LatestAnswer shows for it.
LEMMA SoundShows ==
    ASSUME AnswersAlone, NEW R \in [Questions -> Row], NEW L \in SUBSET Sent, Sound(R, L)
    PROVE  Register!Shows(L, View(R))
<1>1. L \subseteq AnswerMutation
  BY DEF AnswersAlone, Sent
<1>2. \A q \in Questions : MarksOf(L, q) = {}
  BY <1>1 DEF MarksOf, AnswerMutation
<1>3. \A q : AnswersTo(L, q) = Register!On(L, q)
  BY <1>1 DEF AnswersTo, Register!On, AnswerMutation
<1>4. DOMAIN View(R) = {a.q : a \in L}
  <2>1. ASSUME NEW a \in L PROVE a.q \in DOMAIN View(R)
    BY <1>1 DEF Row, Sound, ClaimedIsReflectedIn, IsSequenced, AnswerMutation, View
  <2>2. ASSUME NEW q \in DOMAIN View(R) PROVE \E a \in L : a.q = q
    <3>1. q \in Questions /\ R[q] # Absent
      BY <2>2 DEF View, Absent
    <3>2. QED
      BY <1>2, <3>1 DEF Row, Sound, RowIsClaimedIn, AnswersTo
  <2>3. QED
    BY <2>1, <2>2
<1>5. ASSUME NEW q \in DOMAIN View(R) PROVE View(R)[q] \in Register!Newest(L, q)
  <2>1. q \in Questions /\ View(R)[q] = R[q].val
    BY <1>5 DEF View
  <2>2. AnswersTo(L, q) # {}
    BY <1>4, <1>5, <1>1, <2>1 DEF AnswersTo, AnswerMutation
  <2>3. PICK a \in AnswersTo(L, q) :
            /\ R[q].val = a.val
            /\ \A x \in AnswersTo(L, q) : ~(a.seq < x.seq)
    BY <1>2, <2>1, <2>2 DEF Row, Sound, ShownIsNewestIn
  <2>4. \A x \in AnswersTo(L, q) : x.seq <= a.seq
    BY <1>1, <2>3 DEF AnswersTo, AnswerMutation
  <2>5. QED
    BY <1>3, <2>1, <2>3, <2>4 DEF Register!Newest
<1>6. QED
  BY <1>4, <1>5 DEF Register!Shows

\* Fed with answers alone, the ledger and rows implement the newest-wins register,
\* however the answers are batched, ordered and repeated.
THEOREM SheetIsARegister == ASSUME AnswersAlone PROVE Spec => RefinesLatestAnswer
<1>1. Init => Register!Init
  BY DEF Init, Register!Init, NoRows, Absent
<1>2. ASSUME Inv, Origin, Inv', Origin', Forward(rows, ledger, rows', ledger')
      PROVE  Register!Accept
  <2>1. Register!Shows(ledger', View(rows'))
    BY <1>2, SoundShows DEF Inv, TypeOK, Origin, Sent
  <2>2. ledger' = ledger \cup ledger' /\ ledger' \in SUBSET Sent
    BY <1>2 DEF Forward, Origin, Sent
  <2>3. QED
    BY <2>1, <2>2 DEF Register!Accept, View
<1>3. QED
  BY <1>1, <1>2, NextInv, SheetInvariant, OriginInv, PTL
     DEF Spec, RefinesLatestAnswer, Register!Spec

=============================================================================
