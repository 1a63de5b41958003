---------------------------- MODULE TakeSync_proofs ----------------------------
(***************************************************************************)
(* Proofs about TakeSync, for every paper, every set of events and every   *)
(* bound.  Three layers: TypeOK; where mutations are (ids name one         *)
(* mutation, what is confirmed is in the ledger); and, on a page that was  *)
(* never reloaded, in which order they reach the sheet.                    *)
(***************************************************************************)
EXTENDS TakeSync, TLAPS, WellFoundedInduction

(***************************************************************************)
(* Sequences.                                                              *)
(***************************************************************************)

\* Induction on the naturals, for a set rather than a predicate: a least element
\* outside the set has a predecessor inside it.
LEMMA NaturalInduction ==
    ASSUME NEW T, T \subseteq Nat, 0 \in T, \A n \in T : n + 1 \in T
    PROVE  T = Nat
<1> SUFFICES ASSUME Nat \ T # {} PROVE FALSE
  OBVIOUS
<1>1. PICK n \in Nat \ T : \A k \in Nat \ T : <<k, n>> \notin OpToRel(<, Nat)
  BY NatLessThanWellFounded, WFMin
<1>2. n # 0 /\ n - 1 \in Nat /\ n - 1 < n
  OBVIOUS
<1>3. n - 1 \in T
  BY <1>1, <1>2 DEF OpToRel
<1>4. QED
  BY <1>2, <1>3

\* The elements of the sequences the take client builds.
LEMMA ElementsEmpty == ToSet(<<>>) = {}
BY DEF ToSet

LEMMA ElementsOne == \A e : ToSet(<<e>>) = {e}
BY DEF ToSet

LEMMA ElementsAppend ==
    ASSUME NEW S, NEW s \in Seq(S), NEW e \in S
    PROVE  ToSet(Append(s, e)) = ToSet(s) \cup {e}
<1>1. /\ DOMAIN s = 1..Len(s) /\ Len(s) \in Nat
      /\ DOMAIN Append(s, e) = 1..(Len(s) + 1)
  OBVIOUS
<1>2. \A i \in 1..Len(s) + 1 : Append(s, e)[i] = IF i <= Len(s) THEN s[i] ELSE e
  BY <1>1
<1>3. QED
  BY <1>1, <1>2 DEF ToSet

LEMMA ElementsConcat ==
    ASSUME NEW S, NEW s \in Seq(S), NEW t \in Seq(S)
    PROVE  ToSet(s \o t) = ToSet(s) \cup ToSet(t)
<1>1. /\ DOMAIN s = 1..Len(s) /\ Len(s) \in Nat
      /\ DOMAIN t = 1..Len(t) /\ Len(t) \in Nat
      /\ DOMAIN (s \o t) = 1..(Len(s) + Len(t))
  OBVIOUS
<1>2. \A i \in 1..Len(s) : (s \o t)[i] = s[i] /\ i \in 1..(Len(s) + Len(t))
  BY <1>1
<1>3. \A i \in 1..Len(t) : (s \o t)[Len(s) + i] = t[i] /\ Len(s) + i \in 1..(Len(s) + Len(t))
  BY <1>1
<1>4. \A i \in 1..(Len(s) + Len(t)) :
          i \in 1..Len(s) \/ (i - Len(s) \in 1..Len(t) /\ i = Len(s) + (i - Len(s)))
  BY <1>1
<1>5. ToSet(s \o t) = {(s \o t)[i] : i \in 1..(Len(s) + Len(t))}
  BY <1>1 DEF ToSet
<1>6. ToSet(s) = {s[i] : i \in 1..Len(s)} /\ ToSet(t) = {t[i] : i \in 1..Len(t)}
  BY <1>1 DEF ToSet
<1>7. ToSet(s) \cup ToSet(t) \subseteq ToSet(s \o t)
  BY <1>2, <1>3, <1>5, <1>6
<1>8. ASSUME NEW i \in 1..(Len(s) + Len(t))
      PROVE  (s \o t)[i] \in ToSet(s) \cup ToSet(t)
  <2>1. CASE i \in 1..Len(s)
    BY <1>2, <1>6, <2>1
  <2>2. CASE i - Len(s) \in 1..Len(t) /\ i = Len(s) + (i - Len(s))
    BY <1>3, <1>6, <2>2
  <2>3. QED
    BY <1>4, <2>1, <2>2
<1>9. QED
  BY <1>5, <1>7, <1>8

LEMMA ElementsTail ==
    ASSUME NEW S, NEW s \in Seq(S), s # <<>>
    PROVE  /\ Head(s) \in S /\ Tail(s) \in Seq(S)
           /\ ToSet(s) = {Head(s)} \cup ToSet(Tail(s))
<1>1. /\ DOMAIN s = 1..Len(s) /\ Len(s) \in Nat \ {0}
      /\ Tail(s) \in Seq(S) /\ DOMAIN Tail(s) = 1..(Len(s) - 1)
      /\ Head(s) = s[1] /\ Head(s) \in S
  OBVIOUS
<1>2. \A i \in 1..(Len(s) - 1) : Tail(s)[i] = s[i + 1]
  BY <1>1
<1>3. \A i \in 1..Len(s) : i = 1 \/ (i - 1 \in 1..(Len(s) - 1) /\ s[i] = Tail(s)[i - 1])
  BY <1>1, <1>2
<1>4. /\ ToSet(s) = {s[i] : i \in 1..Len(s)}
      /\ ToSet(Tail(s)) = {Tail(s)[i] : i \in 1..(Len(s) - 1)}
  BY <1>1 DEF ToSet
<1>5. ToSet(s) \subseteq {Head(s)} \cup ToSet(Tail(s))
  BY <1>1, <1>3, <1>4
<1>6. ToSet(Tail(s)) \subseteq ToSet(s)
  <2>1. \A i \in 1..(Len(s) - 1) : i + 1 \in 1..Len(s)
    BY <1>1
  <2>2. QED
    BY <1>2, <1>4, <2>1
<1>7. Head(s) \in ToSet(s)
  BY <1>1, <1>4
<1>8. QED
  BY <1>1, <1>5, <1>6, <1>7

LEMMA ElementsInSet ==
    ASSUME NEW S, NEW s \in Seq(S)
    PROVE  ToSet(s) \subseteq S
BY DEF ToSet

\* Queues are in the order the reducer numbered them.
Sorted(s) ==
    \A i, j \in DOMAIN s :
        i < j /\ Sheet!IsSequenced(s[i]) /\ Sheet!IsSequenced(s[j]) => s[i].seq < s[j].seq

\* The recursion of PruneOutbox, as an equation.
Keeps(f, s, ids) ==
    f = [n \in 0..Len(s) |->
            IF n = 0 THEN <<>>
            ELSE IF s[n].id \in ids THEN f[n - 1]
            ELSE Append(f[n - 1], s[n])]

\* The equation has a solution: prefix by prefix.
LEMMA KeepsExists ==
    ASSUME NEW s \in Seq(Mutations), NEW ids
    PROVE  \E f : Keeps(f, s, ids)
<1> DEFINE Upto(n) == \E f : f = [k \in 0..n |->
                                    IF k = 0 THEN <<>>
                                    ELSE IF s[k].id \in ids THEN f[k - 1]
                                    ELSE Append(f[k - 1], s[k])]
           T == {n \in Nat : Upto(n)}
<1>1. Upto(0)
  <2>1. [k \in 0..0 |-> <<>>] = [k \in 0..0 |->
                                    IF k = 0 THEN <<>>
                                    ELSE IF s[k].id \in ids THEN [i \in 0..0 |-> <<>>][k - 1]
                                    ELSE Append([i \in 0..0 |-> <<>>][k - 1], s[k])]
    OBVIOUS
  <2>2. QED
    BY <2>1
<1>2. ASSUME NEW n \in Nat, Upto(n)
      PROVE  Upto(n + 1)
  <2>1. PICK f : f = [k \in 0..n |->
                        IF k = 0 THEN <<>>
                        ELSE IF s[k].id \in ids THEN f[k - 1]
                        ELSE Append(f[k - 1], s[k])]
    BY <1>2
  <2> DEFINE g == [k \in 0..(n + 1) |->
                     IF k <= n THEN f[k]
                     ELSE IF s[k].id \in ids THEN f[k - 1]
                     ELSE Append(f[k - 1], s[k])]
  <2>2. \A k \in 0..(n + 1) : k # 0 => k - 1 \in 0..n /\ g[k - 1] = f[k - 1]
    OBVIOUS
  <2>3. \A k \in 0..n : f[k] = IF k = 0 THEN <<>>
                               ELSE IF s[k].id \in ids THEN f[k - 1]
                               ELSE Append(f[k - 1], s[k])
    BY <2>1
  <2>4. \A k \in 0..(n + 1) : g[k] = IF k = 0 THEN <<>>
                                     ELSE IF s[k].id \in ids THEN g[k - 1]
                                     ELSE Append(g[k - 1], s[k])
    BY <2>2, <2>3
  <2>5. g = [k \in 0..(n + 1) |->
               IF k = 0 THEN <<>>
               ELSE IF s[k].id \in ids THEN g[k - 1]
               ELSE Append(g[k - 1], s[k])]
    BY <2>4
  <2>6. QED
    BY <2>5
<1> HIDE DEF Upto
<1>3. T = Nat
  <2>1. 0 \in T /\ \A n \in T : n + 1 \in T
    BY <1>1, <1>2
  <2> HIDE DEF T
  <2>2. T \subseteq Nat
    BY DEF T
  <2>3. QED
    BY <2>1, <2>2, NaturalInduction
<1>4. Upto(Len(s))
  BY <1>3
<1>5. QED
  BY <1>4, Zenon DEF Keeps, Upto

\* What pruneOutbox keeps: exactly the mutations whose ids the server did not
\* confirm, in the order they were in.
LEMMA PruneKeeps ==
    ASSUME NEW s \in Seq(Mutations), NEW ids
    PROVE  /\ PruneOutbox(s, ids) \in Batch
           /\ ToSet(PruneOutbox(s, ids)) = {m \in ToSet(s) : m.id \notin ids}
           /\ Sorted(s) => Sorted(PruneOutbox(s, ids))
<1> DEFINE f == CHOOSE g : Keeps(g, s, ids)
<1>1. Keeps(f, s, ids) /\ PruneOutbox(s, ids) = f[Len(s)]
  <2>1. Keeps(f, s, ids)
    BY KeepsExists
  <2>2. PruneOutbox(s, ids) = f[Len(s)]
    BY Zenon DEF Keeps, PruneOutbox
  <2>3. QED
    BY <2>1, <2>2
<1> HIDE DEF f
<1>2. \A n \in 0..Len(s) : f[n] = IF n = 0 THEN <<>>
                                  ELSE IF s[n].id \in ids THEN f[n - 1]
                                  ELSE Append(f[n - 1], s[n])
  BY <1>1 DEF Keeps
<1> DEFINE Upto(n) == {s[i] : i \in 1..n}
           Good(n) == /\ f[n] \in Seq(Mutations)
                      /\ ToSet(f[n]) = {m \in Upto(n) : m.id \notin ids}
                      /\ Sorted(s) => Sorted(f[n])
           T == {n \in Nat : n <= Len(s) => Good(n)}
<1>3. Good(0)
  <2>0. 0 \in 0..Len(s)
    OBVIOUS
  <2>1. f[0] = <<>>
    BY <1>2, <2>0, Zenon
  <2>2. <<>> \in Seq(Mutations) /\ Sorted(<<>>)
    BY DEF Sorted
  <2>3. {m \in Upto(0) : m.id \notin ids} = {}
    OBVIOUS
  <2> HIDE DEF Upto
  <2>4. f[0] \in Seq(Mutations)
    BY <2>1, <2>2
  <2>5. ToSet(f[0]) = {}
    BY <2>1, ElementsEmpty
  <2>6. Sorted(f[0])
    BY <2>1, <2>2
  <2>7. QED
    BY <2>3, <2>4, <2>5, <2>6
<1>4. ASSUME NEW n \in Nat, n + 1 <= Len(s), Good(n)
      PROVE  Good(n + 1)
  <2>1. /\ n + 1 \in 1..Len(s) /\ n + 1 \in 0..Len(s) /\ s[n + 1] \in Mutations
        /\ \A i \in 1..n : i \in 1..Len(s) /\ i < n + 1
    BY <1>4
  <2>2. Upto(n + 1) = Upto(n) \cup {s[n + 1]}
    <3>1. \A i \in 1..(n + 1) : i \in 1..n \/ i = n + 1
      OBVIOUS
    <3>2. \A i \in 1..n : i \in 1..(n + 1)
      OBVIOUS
    <3>3. n + 1 \in 1..(n + 1)
      OBVIOUS
    <3>4. QED
      BY <3>1, <3>2, <3>3
  <2>3. CASE s[n + 1].id \in ids
    <3>1. f[n + 1] = f[n]
      BY <1>2, <2>1, <2>3
    <3> HIDE DEF Upto
    <3>2. {m \in Upto(n + 1) : m.id \notin ids} = {m \in Upto(n) : m.id \notin ids}
      BY <2>2, <2>3
    <3>3. QED
      BY <1>4, <3>1, <3>2
  <2>4. CASE s[n + 1].id \notin ids
    <3>0. n + 1 # 0 /\ (n + 1) - 1 = n
      OBVIOUS
    <3>1. f[n + 1] = Append(f[n], s[n + 1]) /\ f[n + 1] \in Seq(Mutations)
      <4>1. f[n + 1] = Append(f[n], s[n + 1])
        BY <1>2, <2>1, <2>4, <3>0
      <4>2. QED
        BY <1>4, <2>1, <4>1
    <3>2. ToSet(f[n + 1]) = {m \in Upto(n + 1) : m.id \notin ids}
      <4> HIDE DEF Upto
      <4>1. \A m : m \in Upto(n + 1) <=> m \in Upto(n) \/ m = s[n + 1]
        BY <2>2
      <4>2. ToSet(f[n + 1]) = ToSet(f[n]) \cup {s[n + 1]}
        BY <1>4, <2>1, <3>1, ElementsAppend
      <4>3. QED
        BY <1>4, <2>4, <4>1, <4>2
    <3>3. ASSUME Sorted(s), NEW i \in DOMAIN f[n + 1], NEW j \in DOMAIN f[n + 1], i < j,
                 Sheet!IsSequenced(f[n + 1][i]), Sheet!IsSequenced(f[n + 1][j])
          PROVE  f[n + 1][i].seq < f[n + 1][j].seq
      <4>1. i \in DOMAIN f[n] /\ f[n + 1][i] = f[n][i] /\ f[n][i] \in ToSet(f[n])
        BY <1>4, <2>1, <3>1, <3>3 DEF ToSet
      <4>2. CASE j \in DOMAIN f[n]
        <5>1. f[n + 1][j] = f[n][j]
          BY <1>4, <2>1, <3>1, <4>2
        <5>2. Sorted(f[n])
          BY <1>4, <3>3
        <5>3. QED
          BY <3>3, <4>1, <4>2, <5>1, <5>2 DEF Sorted
      <4>3. CASE j \notin DOMAIN f[n]
        <5>1. f[n + 1][j] = s[n + 1]
          BY <1>4, <2>1, <3>1, <3>3, <4>3
        <5>2. PICK k \in 1..n : f[n][i] = s[k]
          BY <1>4, <4>1
        <5>3. k \in DOMAIN s /\ n + 1 \in DOMAIN s /\ k < n + 1
          BY <2>1, <5>2
        <5>4. QED
          BY <3>3, <4>1, <5>1, <5>2, <5>3 DEF Sorted
      <4>4. QED
        BY <4>2, <4>3
    <3>4. QED
      BY <3>1, <3>2, <3>3 DEF Sorted
  <2>5. QED
    BY <2>3, <2>4
<1>5. T = Nat
  <2>1. 0 \in T
    BY <1>3
  <2>2. ASSUME NEW n \in T PROVE n + 1 \in T
    BY <1>4, <2>2
  <2>3. QED
    BY <2>1, <2>2, NaturalInduction
<1>6. Len(s) \in Nat /\ Good(Len(s))
  BY <1>5
<1>7. Upto(Len(s)) = ToSet(s)
  BY DEF ToSet
<1>8. QED
  BY <1>1, <1>6, <1>7 DEF Batch

(***************************************************************************)
(* Types.                                                                  *)
(***************************************************************************)

\* What the reducer does with an event it accepts: the state and the one mutation,
\* if any, that records the change.
Answered(s, m, t) ==
    /\ m \in Sheet!AnswerMutation /\ m.seq = s.seq + 1
    /\ t = [s EXCEPT !.seq = s.seq + 1, !.resp = [s.resp EXCEPT ![m.q] = m.val]]
Flagged(s, m, t) ==
    /\ m \in Sheet!MarkMutation /\ m.seq = s.seq + 1
    /\ t = [s EXCEPT !.seq = s.seq + 1,
                     !.marked = IF m.on THEN s.marked \cup {m.q} ELSE s.marked \ {m.q}]
Unrecorded(s, t) == t \in AttemptState /\ t.seq = s.seq /\ t.resp = s.resp /\ t.marked = s.marked

LEMMA ReduceAccepts ==
    ASSUME NEW s \in AttemptState, NEW ev \in Events, NEW l \in BOOLEAN, NEW id \in Nat,
           Reduce(s, ev, l, id).rejected = "none"
    PROVE  LET r == Reduce(s, ev, l, id)
           IN  /\ r.state \in AttemptState
               /\ ~s.submitted
               /\ \/ r.mutations = <<>> /\ Unrecorded(s, r.state)
                  \/ \E m \in Mutations :
                        /\ r.mutations = <<m>> /\ m.id = id
                        /\ Answered(s, m, r.state) \/ Flagged(s, m, r.state)
<1> DEFINE r == Reduce(s, ev, l, id)
<1>1. /\ Rejection(s, ev, l) = "none"
      /\ r.state = Accepted(s, ev) /\ r.mutations = Emits(s, ev, id)
  BY DEF Reduce
<1>2. ~s.submitted
  BY <1>1 DEF Rejection
<1>3. CASE ev.t = "answer"
  <2>1. ev.q \in Questions /\ ev.v \in Values
    BY <1>1, <1>2, <1>3, EngineAssumption DEF Rejection, AnswerRejection
  <2> DEFINE m == [kind |-> "answer", id |-> id, q |-> ev.q, val |-> ev.v, seq |-> s.seq + 1]
  <2>2. r.mutations = <<m>> /\ m \in Sheet!AnswerMutation /\ m \in Mutations
    BY <1>1, <1>3, <2>1 DEF Emits, AttemptState, Mutations, Sheet!Mutation, Sheet!AnswerMutation
  <2>3. r.state = [s EXCEPT !.seq = s.seq + 1, !.resp = [s.resp EXCEPT ![ev.q] = ev.v]]
    BY <1>1, <1>3 DEF Accepted, IsNoop, AttemptState
  <2>4. r.state \in AttemptState
    <3>1. s.seq + 1 \in Nat /\ [s.resp EXCEPT ![ev.q] = ev.v] \in [Questions -> Values \cup {NoAnswer}]
      BY <2>1 DEF AttemptState
    <3>2. QED
      BY <2>3, <3>1 DEF AttemptState
  <2>5. Answered(s, m, r.state)
    BY <2>2, <2>3 DEF Answered
  <2>6. QED
    BY <1>2, <2>2, <2>4, <2>5
<1>4. CASE ev.t = "mark" /\ ~IsNoop(s, ev)
  <2>1. ev.q \in Questions /\ ev.on \in BOOLEAN
    BY <1>1, <1>2, <1>4, TakeAssumption DEF Rejection, MarkRejection
  <2> DEFINE m == [kind |-> "mark", id |-> id, q |-> ev.q, on |-> ev.on, seq |-> s.seq + 1]
  <2>2. r.mutations = <<m>> /\ m \in Sheet!MarkMutation /\ m \in Mutations
    BY <1>1, <1>4, <2>1 DEF Emits, AttemptState, Mutations, Sheet!Mutation, Sheet!MarkMutation
  <2>3. r.state = [s EXCEPT !.seq = s.seq + 1,
                            !.marked = IF ev.on THEN s.marked \cup {ev.q} ELSE s.marked \ {ev.q}]
    BY <1>1, <1>4 DEF Accepted, AttemptState
  <2>4. r.state \in AttemptState
    <3> DEFINE flags == IF ev.on THEN s.marked \cup {ev.q} ELSE s.marked \ {ev.q}
    <3>1. s.seq + 1 \in Nat /\ flags \in SUBSET Questions
      BY <2>1 DEF AttemptState
    <3>2. r.state = [s EXCEPT !.seq = s.seq + 1, !.marked = flags]
      BY <2>3
    <3> HIDE DEF flags
    <3>3. QED
      BY <3>1, <3>2 DEF AttemptState
  <2>5. Flagged(s, m, r.state)
    BY <2>2, <2>3 DEF Flagged
  <2>6. QED
    BY <1>2, <2>2, <2>4, <2>5
<1>5. CASE IsNoop(s, ev)
  BY <1>1, <1>2, <1>5 DEF Emits, Accepted, Unrecorded, IsNoop
<1>6. CASE ev.t = "navigate"
  <2>1. ev.to \in Nat
    BY <1>6, TakeAssumption
  <2>2. r.state = [s EXCEPT !.cursor = ev.to] /\ r.mutations = <<>>
    BY <1>1, <1>6 DEF Emits, Accepted, IsNoop
  <2>3. QED
    BY <1>2, <2>1, <2>2 DEF Unrecorded, AttemptState
<1>7. QED
  BY <1>3, <1>4, <1>5, <1>6, TakeAssumption

\* The submit event closes the state and records nothing.
LEMMA ReduceSubmit ==
    ASSUME NEW s \in AttemptState
    PROVE  LET t == Reduce(s, [t |-> "submit"], late, 0).state
           IN  t.submitted /\ Unrecorded(s, t)
<1> DEFINE ev == [t |-> "submit"]
<1>1. CASE s.submitted
  <2>1. Reduce(s, ev, late, 0).state = s
    BY <1>1 DEF Reduce, Rejection
  <2>2. QED
    BY <1>1, <2>1 DEF Unrecorded
<1>2. CASE ~s.submitted
  <2>1. Reduce(s, ev, late, 0).state = Accepted(s, ev)
    BY <1>2 DEF Reduce, Rejection
  <2>2. Accepted(s, ev) = [s EXCEPT !.submitted = TRUE]
    BY DEF Accepted, IsNoop
  <2>3. QED
    BY <2>1, <2>2 DEF Unrecorded, AttemptState
<1>3. QED
  BY <1>1, <1>2 DEF AttemptState

LEMMA FreshType == FreshState \in AttemptState
BY DEF FreshState, AttemptState

LEMMA EmptyBatch == <<>> \in Batch
BY DEF Batch

LEMMA ShortBatch ==
    ASSUME NEW b, b = <<>> \/ \E m \in Mutations : b = <<m>>
    PROVE  b \in Seq(Mutations)
<1>1. CASE b = <<>>
  BY <1>1
<1>2. ASSUME NEW m \in Mutations, b = <<m>>
      PROVE  b \in Seq(Mutations)
  BY <1>2
<1>3. QED
  BY <1>1, <1>2

LEMMA ConstantTypes ==
    /\ NoSnapshot \in SnapshotType
    /\ NoPost \in PostType
    /\ Sheet!NoRows \in [Questions -> Sheet!Row]
<1>1. NoSnapshot \in SnapshotType
  BY FreshType, EmptyBatch DEF NoSnapshot, SnapshotType
<1>2. NoPost \in PostType
  BY DEF NoPost, PostType, NoPaper
<1>3. Sheet!NoRows \in [Questions -> Sheet!Row]
  BY DEF Sheet!NoRows, Sheet!Absent, Sheet!Row
<1>4. QED
  BY <1>1, <1>2, <1>3

LEMMA InitType == Init => TypeOK
<1> SUFFICES ASSUME Init PROVE TypeOK
  OBVIOUS
<1>1. Sheet!TypeOK
  BY ConstantTypes, EmptyBatch DEF Init, Sheet!Init, Sheet!TypeOK, Sheet!Closed, Batch, Mutations
<1>2. call \in CallType
  BY FreshType, EmptyBatch DEF Init, NoCall, CallType
<1>3. write \in [pending : BOOLEAN, put : SnapshotType]
  BY ConstantTypes DEF Init, Idle
<1>4. /\ page \in {"loading", "live"} /\ armed \in {"ready", "backoff", "blocked"}
      /\ status \in {"saved", "saving", "offline", "blocked"}
      /\ handing \in {"no", "draining", "posting", "done"}
      /\ owner \in {"none", "call", "stray"}
      /\ strays \subseteq StrayType /\ strayPosts \subseteq PostType
  BY DEF Init
<1>5. submitted \in BOOLEAN /\ late \in BOOLEAN /\ made \in Nat /\ reloads \in Nat
  BY DEF Init
<1>6. /\ st \in AttemptState /\ outbox \in Batch
      /\ post \in PostType /\ paper \in PostType /\ disk \in SnapshotType
  BY FreshType, EmptyBatch, ConstantTypes DEF Init
<1>7. QED
  BY <1>1, <1>2, <1>3, <1>4, <1>5, <1>6, Zenon DEF TypeOK

\* What a step of the page may do to the two endpoints: nothing but become a stray.
LEMMA StraysLeftType ==
    ASSUME TypeOK
    PROVE  /\ \A S \in StraysLeft : S \subseteq StrayType
           /\ \A P \in StrayPostsLeft : P \subseteq PostType
<1>1. call.phase \in {"sent", "admitted"} =>
          [phase |-> call.phase, batch |-> call.batch] \in StrayType
  BY DEF TypeOK, CallType, StrayType
<1>2. \A S \in StraysLeft : S \subseteq StrayType
  BY <1>1 DEF StraysLeft, TypeOK
<1>3. \A P \in StrayPostsLeft : P \subseteq PostType
  BY DEF StrayPostsLeft, TypeOK
<1>4. QED
  BY <1>2, <1>3

LEMMA PostingType == \A box : Posting(box) \in PostType
BY DEF Posting, PostType, NoPaper

LEMMA SendingType ==
    ASSUME TypeOK, NEW box \in Batch
    PROVE  Sending(box) \in CallType
BY DEF Sending, CallType, TypeOK

LEMMA NoCallType == NoCall \in CallType
BY FreshType, EmptyBatch DEF NoCall, CallType

LEMMA PutType ==
    /\ \A s \in AttemptState, box \in Batch : Put(Snapshot(s, box)) \in [pending : BOOLEAN, put : SnapshotType]
    /\ Put(NoSnapshot) \in [pending : BOOLEAN, put : SnapshotType]
    /\ Idle \in [pending : BOOLEAN, put : SnapshotType]
BY ConstantTypes DEF Put, Snapshot, Idle, SnapshotType

\* Where handing goes and what it posts when a flush returns.
LEMMA ThenPostType ==
    ASSUME TypeOK, NEW box, ThenPost(box)
    PROVE  handing' \in {"no", "draining", "posting", "done"} /\ post' \in PostType
BY PostingType DEF TypeOK, ThenPost

LEMMA TimeOnType ==
    ASSUME TypeOK, NEW q \in Questions
    PROVE  TimeOn(q) \in Mutations
BY DEF TypeOK, TimeOn, Mutations, Sheet!Mutation, Sheet!TimingMutation

LEMMA ObservationType ==
    ASSUME TypeOK, NEW m \in Observation
    PROVE  /\ m \in Mutations /\ m.id = made + 1
           /\ m.kind \notin {"answer", "mark"} /\ ~Sheet!IsSequenced(m)
<1>1. CASE \E q \in Questions : m = TimeOn(q)
  BY <1>1, TimeOnType DEF TimeOn, Sheet!IsSequenced
<1>2. CASE m = [kind |-> "visibility", id |-> made + 1]
  BY <1>2 DEF TypeOK, Mutations, Sheet!Mutation, Sheet!VisibilityMutation, Sheet!IsSequenced
<1>3. QED
  BY <1>1, <1>2 DEF Observation

\* Any mutation takes a sheet to a sheet (the switch of applyMutations).
LEMMA EffectType ==
    ASSUME NEW R \in [Questions -> Sheet!Row], NEW m \in Mutations
    PROVE  Sheet!Effect(R, m) \in [Questions -> Sheet!Row]
<1>1. CASE m \in Sheet!AnswerMutation
  BY <1>1 DEF Sheet!AnswerMutation, Sheet!Effect, Sheet!UpsertAnswer, Sheet!Row
<1>2. CASE m \in Sheet!MarkMutation
  BY <1>2 DEF Sheet!MarkMutation, Sheet!Effect, Sheet!UpsertMark, Sheet!Row
<1>3. CASE m \in Sheet!TimingMutation
  <2>1. m.q \in Questions /\ m.kind = "timing" /\ Sheet!Clamp(m.ms) \in Nat
    BY <1>3 DEF Sheet!TimingMutation, Sheet!Clamp
  <2>2. R[m.q].ms + Sheet!Clamp(m.ms) \in Nat
    BY <2>1 DEF Sheet!Row
  <2>3. [R[m.q] EXCEPT !.ms = R[m.q].ms + Sheet!Clamp(m.ms)] \in Sheet!Row
    BY <2>1, <2>2 DEF Sheet!Row
  <2>4. QED
    BY <2>1, <2>3 DEF Sheet!Effect, Sheet!AddQuestionTime
<1>4. CASE m \in Sheet!VisibilityMutation
  BY <1>4 DEF Sheet!VisibilityMutation, Sheet!Effect
<1>5. QED
  BY <1>1, <1>2, <1>3, <1>4 DEF Mutations, Sheet!Mutation

LEMMA BeginType ==
    ASSUME TypeOK, NEW batch \in Batch, Sheet!Begin(batch)
    PROVE  Sheet!TypeOK'
BY DEF TypeOK, Sheet!TypeOK, Sheet!Begin, Batch, Mutations

LEMMA ApplyType ==
    ASSUME TypeOK, Sheet!ApplyNext
    PROVE  Sheet!TypeOK'
<1> DEFINE m == Head(tx.todo)
<1>1. /\ tx.todo \in Seq(Mutations) /\ tx.todo # <<>>
      /\ tx.rows \in [Questions -> Sheet!Row] /\ tx.ledger \subseteq Mutations
      /\ tx.open \in BOOLEAN
  BY DEF TypeOK, Sheet!TypeOK, Sheet!ApplyNext, Mutations
<1>2. m \in Mutations /\ Tail(tx.todo) \in Seq(Mutations)
  BY <1>1
<1>3. Sheet!Effect(tx.rows, m) \in [Questions -> Sheet!Row]
  BY <1>1, <1>2, EffectType
<1> DEFINE R == IF ~Sheet!Claimed(tx.ledger, m) THEN Sheet!Effect(tx.rows, m) ELSE tx.rows
           L == IF ~Sheet!Claimed(tx.ledger, m) THEN tx.ledger \cup {m} ELSE tx.ledger
<1>4. tx' = [tx EXCEPT !.todo = Tail(tx.todo), !.rows = R, !.ledger = L]
  BY DEF Sheet!ApplyNext
<1>5. R \in [Questions -> Sheet!Row] /\ L \subseteq Mutations
  BY <1>1, <1>2, <1>3
<1> HIDE DEF R, L, m
<1>6. tx' \in [open : BOOLEAN, todo : Seq(Mutations),
               rows : [Questions -> Sheet!Row], ledger : SUBSET Mutations]
  BY <1>2, <1>4, <1>5 DEF TypeOK, Sheet!TypeOK, Mutations
<1>7. QED
  BY <1>6 DEF TypeOK, Sheet!TypeOK, Sheet!ApplyNext, Mutations

LEMMA ClosedType ==
    Sheet!Closed \in [open : BOOLEAN, todo : Seq(Mutations),
                      rows : [Questions -> Sheet!Row], ledger : SUBSET Mutations]
BY ConstantTypes, EmptyBatch DEF Sheet!Closed, Batch

LEMMA EndType ==
    ASSUME TypeOK, Sheet!Commit \/ Sheet!Rollback
    PROVE  Sheet!TypeOK'
BY ClosedType DEF TypeOK, Sheet!TypeOK, Sheet!Commit, Sheet!Rollback, Mutations

\* The steps of the page.
LEMMA PageType ==
    ASSUME TypeOK,
           \/ Dispatch \/ Track \/ Flush \/ HandIn
           \/ FlushOk \/ FlushRefused \/ FlushFailed \/ BackoffElapsed \/ Online
           \/ HandedIn \/ HandInFailed
           \/ Reload \/ Restore \/ Persist \/ PutFails
    PROVE  TypeOK'
<1> USE DEF TypeOK, device, storage, sheet, server, net, clock, Sheet!TypeOK
<1>1. CASE Dispatch
  <2>1. PICK ev \in Events :
            LET r == Reduce(st, ev, late, made + 1)
            IN  /\ r.rejected = "none"
                /\ made' = made + Len(r.mutations)
                /\ st' = r.state
                /\ outbox' = outbox \o r.mutations
                /\ write' = Persisting(st', outbox')
    BY <1>1 DEF Dispatch
  <2> DEFINE r == Reduce(st, ev, late, made + 1)
  <2>2. r.state \in AttemptState /\ r.mutations \in Seq(Mutations)
    <3>1. st \in AttemptState /\ late \in BOOLEAN /\ made + 1 \in Nat /\ r.rejected = "none"
      BY <2>1
    <3> HIDE DEF r
    <3>2. r.state \in AttemptState /\ (r.mutations = <<>> \/ \E m \in Mutations : r.mutations = <<m>>)
      BY <3>1, ReduceAccepts DEF r
    <3>3. QED
      BY <3>2, ShortBatch
  <2> HIDE DEF r
  <2>3. st' \in AttemptState /\ outbox' \in Batch /\ made' \in Nat
    BY <2>1, <2>2 DEF Batch, r
  <2>4. write' \in [pending : BOOLEAN, put : SnapshotType]
    BY <2>1, <2>3, PutType DEF Persisting, r
  <2>5. QED
    BY <1>1, <2>3, <2>4 DEF Dispatch
<1>2. CASE Track
  <2>1. PICK m \in Observation : outbox' = Append(outbox, m)
    BY <1>2 DEF Track
  <2>2. outbox' \in Batch
    BY <2>1, ObservationType DEF Batch
  <2>3. QED
    BY <1>2, <2>2 DEF Track
<1>3. CASE Flush
  BY <1>3, SendingType DEF Flush
<1>4. CASE HandIn
  <2>1. PICK banked \in {<<>>} \cup {<<TimeOn(q)>> : q \in Questions} :
            outbox' = outbox \o banked /\ made' = made + Len(banked)
    BY <1>4 DEF HandIn
  <2>2. banked \in Seq(Mutations)
    <3>1. banked = <<>> \/ \E m \in Mutations : banked = <<m>>
      BY TimeOnType
    <3>2. QED
      BY <3>1, ShortBatch
  <2>3. outbox' \in Batch /\ made' \in Nat
    BY <2>1, <2>2 DEF Batch
  <2>4. st' \in AttemptState
    BY <1>4, ReduceSubmit DEF HandIn, Unrecorded
  <2>5. write' \in [pending : BOOLEAN, put : SnapshotType]
    BY <1>4, <2>3, <2>4, PutType DEF HandIn, Persisting
  <2>6. /\ call' \in CallType /\ post' \in PostType
        /\ handing' \in {"no", "draining", "posting", "done"}
    BY <1>4, <2>3, SendingType, PostingType DEF HandIn
  <2>7. QED
    BY <1>4, <2>3, <2>4, <2>5, <2>6 DEF HandIn
<1>5. CASE FlushOk
  <2>1. outbox' \in Batch
    BY <1>5, PruneKeeps DEF FlushOk, Batch
  <2>2. write' \in [pending : BOOLEAN, put : SnapshotType]
    BY <1>5, <2>1, PutType DEF FlushOk, CallType
  <2>3. QED
    BY <1>5, <2>1, <2>2, NoCallType, ThenPostType DEF FlushOk
<1>6. CASE FlushRefused
  BY <1>6, NoCallType, ThenPostType DEF FlushRefused
<1>7. CASE FlushFailed
  <2>1. strays' \subseteq StrayType
    BY <1>7, StraysLeftType DEF FlushFailed
  <2>2. owner' \in {"none", "call", "stray"}
    BY <1>7 DEF FlushFailed, NoLongerOurs
  <2>3. QED
    BY <1>7, <2>1, <2>2, NoCallType, ThenPostType DEF FlushFailed, AfterFault
<1>8. CASE BackoffElapsed \/ Online
  BY <1>8 DEF BackoffElapsed, Online
<1>9. CASE HandedIn
  BY <1>9, PutType, ConstantTypes DEF HandedIn
<1>10. CASE HandInFailed
  BY <1>10, StraysLeftType, ConstantTypes DEF HandInFailed
<1>11. CASE Reload
  <2>1. strays' \subseteq StrayType /\ strayPosts' \subseteq PostType
    BY <1>11, StraysLeftType DEF Reload
  <2>2. owner' \in {"none", "call", "stray"}
    BY <1>11 DEF Reload, NoLongerOurs
  <2>3. QED
    BY <1>11, <2>1, <2>2, NoCallType, ConstantTypes, FreshType, EmptyBatch, PutType DEF Reload
<1>12. CASE Restore
  <2>1. st' \in AttemptState /\ outbox' \in Batch
    BY <1>12 DEF Restore, SnapshotType
  <2>2. write' \in [pending : BOOLEAN, put : SnapshotType]
    BY <1>12, <2>1, PutType DEF Restore
  <2>3. QED
    BY <1>12, <2>1, <2>2 DEF Restore
<1>13. CASE Persist
  BY <1>13, PutType DEF Persist
<1>14. CASE PutFails
  BY <1>14, PutType DEF PutFails
<1>15. QED
  BY <1>1, <1>2, <1>3, <1>4, <1>5, <1>6, <1>7, <1>8, <1>9, <1>10, <1>11, <1>12, <1>13, <1>14

\* The steps of the two endpoints.
LEMMA EndpointType ==
    ASSUME TypeOK,
           \/ AdmitCall \/ BeginCall
           \/ \E r \in strays : AdmitStray(r) \/ BeginStray(r)
           \/ ApplyNext \/ Commit \/ Rollback
           \/ FindPost \/ ReadPost \/ ScorePost
           \/ \E p \in strayPosts : FindStrayPost(p) \/ ReadStrayPost(p) \/ ScoreStrayPost(p)
           \/ TimeUp
    PROVE  TypeOK'
<1> USE DEF TypeOK, device, storage, sheet, server, net, clock
<1>0. ASSUME NEW p \in PostType
      PROVE  SubmitFind(p) \in PostType /\ SubmitRead(p) \in PostType
             /\ [p EXCEPT !.phase = "ok"] \in PostType
  <2>1. RowValues \in [Questions -> Values \cup {Blank}]
    BY DEF RowValues, Sheet!TypeOK, Sheet!Row
  <2>2. QED
    BY <2>1 DEF SubmitFind, SubmitRead, PostType
<1>1. CASE AdmitCall
  BY <1>1 DEF AdmitCall, CallType, Sheet!TypeOK
<1>2. CASE BeginCall
  <2>1. Sheet!TypeOK'
    BY <1>2, BeginType DEF BeginCall, CallType
  <2>2. call' \in CallType
    BY <1>2 DEF BeginCall, CallType
  <2>3. QED
    BY <1>2, <2>1, <2>2 DEF BeginCall
<1>3. ASSUME NEW r \in strays, AdmitStray(r)
      PROVE  TypeOK'
  BY <1>3 DEF AdmitStray, StrayType, Sheet!TypeOK
<1>4. ASSUME NEW r \in strays, BeginStray(r)
      PROVE  TypeOK'
  <2>1. Sheet!TypeOK'
    BY <1>4, BeginType DEF BeginStray, StrayType
  <2>2. QED
    BY <1>4, <2>1 DEF BeginStray
<1>5. CASE ApplyNext
  BY <1>5, ApplyType DEF ApplyNext
<1>6. CASE Commit \/ Rollback
  <2>1. Sheet!TypeOK'
    BY <1>6, EndType DEF Commit, Rollback
  <2>2. call' \in CallType /\ owner' = "none"
    BY <1>6 DEF Commit, Rollback, Ends, CallType
  <2>3. QED
    BY <1>6, <2>1, <2>2 DEF Commit, Rollback, Ends
<1>7. CASE FindPost \/ ReadPost \/ ScorePost
  <2>1. /\ post' \in PostType /\ paper' \in PostType /\ submitted' \in BOOLEAN
        /\ UNCHANGED <<device, storage, sheet, call, strays, strayPosts, clock>>
    BY <1>0, <1>7 DEF FindPost, ReadPost, ScorePost
  <2>2. QED
    BY <2>1 DEF Sheet!TypeOK
<1>8. ASSUME NEW p \in strayPosts, FindStrayPost(p) \/ ReadStrayPost(p) \/ ScoreStrayPost(p)
      PROVE  TypeOK'
  <2>1. /\ strayPosts' \subseteq PostType /\ paper' \in PostType /\ submitted' \in BOOLEAN
        /\ UNCHANGED <<device, storage, sheet, call, strays, post, clock>>
    BY <1>0, <1>8 DEF FindStrayPost, ReadStrayPost, ScoreStrayPost
  <2>2. QED
    BY <2>1 DEF Sheet!TypeOK
<1>9. CASE TimeUp
  BY <1>9 DEF TimeUp, Sheet!TypeOK
<1>10. QED
  BY <1>1, <1>2, <1>3, <1>4, <1>5, <1>6, <1>7, <1>8, <1>9

LEMMA NextType == TypeOK /\ [Next]_vars => TypeOK'
<1> SUFFICES ASSUME TypeOK, [Next]_vars PROVE TypeOK'
  OBVIOUS
<1>1. CASE UNCHANGED vars
  BY <1>1 DEF TypeOK, vars, device, storage, sheet, server, net, clock, Sheet!TypeOK
<1>2. CASE Next
  BY <1>2, PageType, EndpointType DEF Next
<1>3. QED
  BY <1>1, <1>2

\* The variables of the sitting keep their types.
THEOREM TakeSyncType == Spec => []TypeOK
<1>1. QED
  BY InitType, NextType, PTL DEF Spec

(***************************************************************************)
(* Where mutations are.                                                    *)
(***************************************************************************)

\* Every mutation there is: queued, stored, travelling, being applied, applied.
OnTheWire == UNION {ToSet(r.batch) : r \in strays}
Everywhere == ToSet(outbox) \cup ToSet(call.batch) \cup OnTheWire
                  \cup ToSet(write.put.outbox) \cup ToSet(disk.outbox)
                  \cup ToSet(tx.todo) \cup tx.ledger \cup ledger

\* An id names one mutation (crypto.randomUUID).
Named == /\ \A m \in Everywhere : m.id <= made
         /\ \A m, n \in Everywhere : m.id = n.id => m = n

\* A step leaves the mutations where they are or moves copies of them about, except
\* for the two that make one, numbered next.
Makes(m) == /\ m \in Mutations /\ m.id = made + 1 /\ made' = made + 1
            /\ outbox' = Append(outbox, m)
            /\ Everywhere' \subseteq Everywhere \cup {m}

LEMMA DispatchMakes ==
    ASSUME TypeOK, Dispatch
    PROVE  \/ /\ made' = made /\ outbox' = outbox /\ Everywhere' \subseteq Everywhere
              /\ Unrecorded(st, st')
           \/ \E m : Makes(m) /\ (Answered(st, m, st') \/ Flagged(st, m, st'))
<1>1. PICK ev \in Events :
          LET r == Reduce(st, ev, late, made + 1)
          IN  /\ r.rejected = "none"
              /\ made' = made + Len(r.mutations)
              /\ st' = r.state
              /\ outbox' = outbox \o r.mutations
              /\ write' = Persisting(st', outbox')
  BY DEF Dispatch
<1> DEFINE r == Reduce(st, ev, late, made + 1)
<1>2. /\ st \in AttemptState /\ late \in BOOLEAN /\ made + 1 \in Nat /\ made \in Nat
      /\ outbox \in Seq(Mutations)
  BY DEF TypeOK, Batch
<1>3. /\ r.rejected = "none" /\ made' = made + Len(r.mutations) /\ st' = r.state
      /\ outbox' = outbox \o r.mutations /\ write' = Persisting(st', outbox')
  BY <1>1
<1> HIDE DEF r
<1>4. \/ r.mutations = <<>> /\ Unrecorded(st, r.state)
      \/ \E m \in Mutations : /\ r.mutations = <<m>> /\ m.id = made + 1
                              /\ Answered(st, m, r.state) \/ Flagged(st, m, r.state)
  BY <1>2, <1>3, ReduceAccepts DEF r
<1>5. UNCHANGED <<call, strays, disk, tx, ledger>>
  BY DEF Dispatch, sheet, net
<1>6. ToSet(write'.put.outbox) \subseteq ToSet(outbox') \cup ToSet(write.put.outbox)
  BY <1>3 DEF Persisting, Put, Snapshot
<1>7. CASE r.mutations = <<>> /\ Unrecorded(st, r.state)
  <2>1. made' = made /\ outbox' = outbox
    BY <1>2, <1>3, <1>7
  <2>2. QED
    BY <1>3, <1>5, <1>6, <1>7, <2>1 DEF Everywhere, OnTheWire
<1>8. ASSUME NEW m \in Mutations, r.mutations = <<m>>, m.id = made + 1,
             Answered(st, m, r.state) \/ Flagged(st, m, r.state)
      PROVE  Makes(m) /\ (Answered(st, m, st') \/ Flagged(st, m, st'))
  <2>1. made' = made + 1 /\ outbox' = Append(outbox, m)
    BY <1>2, <1>3, <1>8
  <2>2. ToSet(outbox') = ToSet(outbox) \cup {m}
    BY <1>2, <2>1, ElementsAppend
  <2>3. Everywhere' \subseteq Everywhere \cup {m}
    BY <1>5, <1>6, <2>2 DEF Everywhere, OnTheWire
  <2>4. QED
    BY <1>3, <1>8, <2>1, <2>3 DEF Makes
<1>9. QED
  BY <1>4, <1>7, <1>8

LEMMA TrackMakes ==
    ASSUME TypeOK, Track
    PROVE  \E m \in Observation : Makes(m)
<1>1. PICK m \in Observation : outbox' = Append(outbox, m)
  BY DEF Track
<1>2. m \in Mutations /\ m.id = made + 1 /\ outbox \in Seq(Mutations)
  BY ObservationType DEF TypeOK, Batch
<1>3. ToSet(outbox') = ToSet(outbox) \cup {m}
  BY <1>1, <1>2, ElementsAppend
<1>4. UNCHANGED <<call, strays, write, disk, tx, ledger>> /\ made' = made + 1
  BY DEF Track, sheet, net, storage
<1>5. QED
  BY <1>1, <1>2, <1>3, <1>4 DEF Makes, Everywhere, OnTheWire

\* The segment banked at hand-in is such an observation.
LEMMA HandInMakes ==
    ASSUME TypeOK, HandIn
    PROVE  \/ made' = made /\ outbox' = outbox /\ Everywhere' \subseteq Everywhere
           \/ \E m \in Observation : Makes(m)
<1>1. PICK banked \in {<<>>} \cup {<<TimeOn(q)>> : q \in Questions} :
          outbox' = outbox \o banked /\ made' = made + Len(banked)
  BY DEF HandIn
<1>2. /\ UNCHANGED <<strays, disk, tx, ledger>>
      /\ ToSet(write'.put.outbox) \subseteq ToSet(outbox') \cup ToSet(write.put.outbox)
      /\ ToSet(call'.batch) \subseteq ToSet(outbox') \cup ToSet(call.batch)
  <2>1. UNCHANGED <<strays, disk, tx, ledger>>
    BY DEF HandIn, sheet
  <2>2. ToSet(write'.put.outbox) \subseteq ToSet(outbox') \cup ToSet(write.put.outbox)
    BY DEF HandIn, Persisting, Put, Snapshot
  <2>3. call' = call \/ call' = Sending(outbox')
    BY DEF HandIn
  <2>4. QED
    BY <2>1, <2>2, <2>3 DEF Sending
<1>3. made \in Nat /\ outbox \in Seq(Mutations)
  BY DEF TypeOK, Batch
<1>4. CASE banked = <<>>
  <2>1. made' = made /\ outbox' = outbox
    BY <1>1, <1>3, <1>4
  <2>2. QED
    BY <1>2, <2>1 DEF Everywhere, OnTheWire
<1>5. ASSUME NEW q \in Questions, banked = <<TimeOn(q)>>
      PROVE  TimeOn(q) \in Observation /\ Makes(TimeOn(q))
  <2> DEFINE m == TimeOn(q)
  <2>1. m \in Observation /\ m \in Mutations /\ m.id = made + 1
    BY TimeOnType DEF Observation, TimeOn
  <2> HIDE DEF m
  <2>2. made' = made + 1 /\ outbox' = Append(outbox, m)
    BY <1>1, <1>3, <1>5, <2>1 DEF m
  <2>3. ToSet(outbox') = ToSet(outbox) \cup {m}
    BY <1>3, <2>1, <2>2, ElementsAppend
  <2>4. Everywhere' \subseteq Everywhere \cup {m}
    <3>1. OnTheWire' = OnTheWire /\ tx' = tx /\ ledger' = ledger /\ disk' = disk
      BY <1>2 DEF OnTheWire
    <3>2. QED
      BY <1>2, <2>3, <3>1 DEF Everywhere
  <2>5. Makes(m)
    BY <2>1, <2>2, <2>4 DEF Makes
  <2>6. QED
    BY <2>1, <2>5 DEF m
<1>6. QED
  BY <1>1, <1>4, <1>5

\* The other steps make nothing.
LEMMA OthersMove ==
    ASSUME TypeOK, Next, ~Dispatch, ~Track, ~HandIn
    PROVE  made' = made /\ Everywhere' \subseteq Everywhere
<1> USE DEF device, storage, sheet, server, net, clock
<1>1. CASE Flush
  BY <1>1 DEF Flush, Sending, Everywhere, OnTheWire
<1>2. CASE FlushOk
  <2>1. ToSet(outbox') \subseteq ToSet(outbox)
    BY <1>2, PruneKeeps DEF FlushOk, TypeOK, Batch
  <2>2. ToSet(write'.put.outbox) = ToSet(outbox') /\ ToSet(call'.batch) = {}
    BY <1>2, ElementsEmpty DEF FlushOk, Put, Snapshot, NoCall
  <2>3. QED
    BY <1>2, <2>1, <2>2 DEF FlushOk, Everywhere, OnTheWire
<1>3. CASE FlushRefused
  <2>1. ToSet(call'.batch) = {}
    BY <1>3, ElementsEmpty DEF FlushRefused, NoCall
  <2>2. QED
    BY <1>3, <2>1 DEF FlushRefused, Everywhere, OnTheWire
<1>4. ASSUME NEW S \in StraysLeft
      PROVE  UNION {ToSet(r.batch) : r \in S} \subseteq OnTheWire \cup ToSet(call.batch)
  BY DEF StraysLeft, OnTheWire
<1>5. CASE FlushFailed
  <2>1. ToSet(call'.batch) = {}
    BY <1>5, ElementsEmpty DEF FlushFailed, NoCall
  <2>2. OnTheWire' \subseteq OnTheWire \cup ToSet(call.batch)
    BY <1>4, <1>5 DEF FlushFailed, OnTheWire
  <2>3. QED
    BY <1>5, <2>1, <2>2 DEF FlushFailed, Everywhere
<1>6. CASE BackoffElapsed \/ Online
  BY <1>6 DEF BackoffElapsed, Online, Everywhere, OnTheWire
<1>7. CASE HandedIn
  <2>1. ToSet(write'.put.outbox) = {}
    BY <1>7, ElementsEmpty DEF HandedIn, Put, NoSnapshot
  <2>2. QED
    BY <1>7, <2>1 DEF HandedIn, Everywhere, OnTheWire
<1>8. CASE HandInFailed
  BY <1>8 DEF HandInFailed, Everywhere, OnTheWire
<1>9. CASE Reload
  <2>1. ToSet(call'.batch) = {} /\ ToSet(outbox') = {} /\ ToSet(write'.put.outbox) = {}
    BY <1>9, ElementsEmpty DEF Reload, NoCall, Idle, NoSnapshot
  <2>2. OnTheWire' \subseteq OnTheWire \cup ToSet(call.batch)
    BY <1>4, <1>9 DEF Reload, OnTheWire
  <2>3. QED
    BY <1>9, <2>1, <2>2 DEF Reload, Everywhere
<1>10. CASE Restore
  <2>1. ToSet(outbox') \subseteq ToSet(outbox) \cup ToSet(disk.outbox)
    BY <1>10 DEF Restore
  <2>2. ToSet(write'.put.outbox) = ToSet(outbox')
    BY <1>10 DEF Restore, Put, Snapshot
  <2>3. QED
    BY <1>10, <2>1, <2>2 DEF Restore, Everywhere, OnTheWire
<1>11. CASE Persist \/ PutFails
  <2>1. ToSet(write'.put.outbox) = {}
    BY <1>11, ElementsEmpty DEF Persist, PutFails, Idle, NoSnapshot
  <2>2. ToSet(disk'.outbox) \subseteq ToSet(disk.outbox) \cup ToSet(write.put.outbox)
    BY <1>11 DEF Persist, PutFails
  <2>3. QED
    BY <1>11, <2>1, <2>2 DEF Persist, PutFails, Everywhere, OnTheWire
<1>12. CASE AdmitCall
  <2>1. call'.batch = call.batch
    BY <1>12 DEF AdmitCall, TypeOK, CallType
  <2>2. QED
    BY <1>12, <2>1 DEF AdmitCall, Everywhere, OnTheWire
<1>13. CASE BeginCall
  <2>1. call'.batch = call.batch /\ tx'.todo = call.batch /\ tx'.ledger = ledger /\ ledger' = ledger
    BY <1>13 DEF BeginCall, Sheet!Begin, TypeOK, CallType
  <2>2. QED
    BY <1>13, <2>1 DEF BeginCall, Everywhere, OnTheWire
<1>14. ASSUME NEW r \in strays, AdmitStray(r)
       PROVE  made' = made /\ Everywhere' \subseteq Everywhere
  <2>1. [r EXCEPT !.phase = "admitted"].batch = r.batch
    BY DEF TypeOK, StrayType
  <2>2. OnTheWire' \subseteq OnTheWire
    BY <1>14, <2>1 DEF AdmitStray, OnTheWire
  <2>3. QED
    BY <1>14, <2>2 DEF AdmitStray, Everywhere
<1>15. ASSUME NEW r \in strays, BeginStray(r)
       PROVE  made' = made /\ Everywhere' \subseteq Everywhere
  <2>1. tx'.todo = r.batch /\ tx'.ledger = ledger /\ ledger' = ledger
    BY <1>15 DEF BeginStray, Sheet!Begin
  <2>2. OnTheWire' \subseteq OnTheWire /\ ToSet(r.batch) \subseteq OnTheWire
    BY <1>15 DEF BeginStray, OnTheWire
  <2>3. QED
    BY <1>15, <2>1, <2>2 DEF BeginStray, Everywhere
<1>16. CASE ApplyNext
  <2>1. ToSet(tx'.todo) \subseteq ToSet(tx.todo) /\ Head(tx.todo) \in ToSet(tx.todo)
    BY <1>16, ElementsTail DEF ApplyNext, Sheet!ApplyNext, TypeOK, Sheet!TypeOK
  <2>2. tx'.ledger \subseteq tx.ledger \cup {Head(tx.todo)} /\ ledger' = ledger
    BY <1>16 DEF ApplyNext, Sheet!ApplyNext, TypeOK, Sheet!TypeOK
  <2>3. QED
    BY <1>16, <2>1, <2>2 DEF ApplyNext, Everywhere, OnTheWire
<1>17. CASE Commit \/ Rollback
  <2>1. /\ tx'.todo = <<>> /\ tx'.ledger = {} /\ ledger' \subseteq ledger \cup tx.ledger
        /\ call'.batch = call.batch
    BY <1>17 DEF Commit, Rollback, Ends, Sheet!Commit, Sheet!Rollback, Sheet!Closed, TypeOK, CallType
  <2>2. QED
    BY <1>17, <2>1, ElementsEmpty DEF Commit, Rollback, Ends, Everywhere, OnTheWire
<1>18. CASE FindPost \/ ReadPost \/ ScorePost \/ TimeUp
  BY <1>18 DEF FindPost, ReadPost, ScorePost, TimeUp, Everywhere, OnTheWire
<1>19. ASSUME NEW p \in strayPosts, FindStrayPost(p) \/ ReadStrayPost(p) \/ ScoreStrayPost(p)
       PROVE  made' = made /\ Everywhere' \subseteq Everywhere
  BY <1>19 DEF FindStrayPost, ReadStrayPost, ScoreStrayPost, Everywhere, OnTheWire
<1>20. QED
  BY <1>1, <1>2, <1>3, <1>5, <1>6, <1>7, <1>8, <1>9, <1>10, <1>11, <1>12, <1>13, <1>14,
     <1>15, <1>16, <1>17, <1>18, <1>19 DEF Next

LEMMA EverywhereType ==
    ASSUME TypeOK
    PROVE  Everywhere \subseteq Mutations
<1>1. /\ outbox \in Seq(Mutations) /\ call.batch \in Seq(Mutations)
      /\ write.put.outbox \in Seq(Mutations) /\ disk.outbox \in Seq(Mutations)
  BY DEF TypeOK, Batch, CallType, SnapshotType
<1>2. tx.todo \in Seq(Mutations) /\ tx.ledger \subseteq Mutations /\ ledger \subseteq Mutations
  BY DEF TypeOK, Sheet!TypeOK, Mutations
<1>3. \A r \in strays : r.batch \in Seq(Mutations)
  BY DEF TypeOK, StrayType, Batch
<1>4. OnTheWire \subseteq Mutations
  BY <1>3, ElementsInSet DEF OnTheWire
<1>5. QED
  BY <1>1, <1>2, <1>4, ElementsInSet DEF Everywhere

\* Whoever makes a mutation numbers it anew, so ids stay names.
LEMMA NamedStays ==
    ASSUME TypeOK, Named, [Next]_vars
    PROVE  Named'
<1>0. /\ \A n \in Everywhere : n.id \in Nat
      /\ made \in Nat
  <2>1. Everywhere \subseteq Mutations
    BY EverywhereType
  <2>2. \A n \in Mutations : n.id \in Nat
    BY DEF Mutations, Sheet!Mutation, Sheet!AnswerMutation, Sheet!MarkMutation,
           Sheet!TimingMutation, Sheet!VisibilityMutation
  <2>3. QED
    BY <2>1, <2>2 DEF TypeOK
<1>1. ASSUME made' = made, Everywhere' \subseteq Everywhere
      PROVE  Named'
  BY <1>1 DEF Named
<1>2. ASSUME NEW m, Makes(m)
      PROVE  Named'
  BY <1>0, <1>2 DEF Makes, Named
<1>3. CASE UNCHANGED vars
  <2>1. made' = made /\ Everywhere' = Everywhere
    BY <1>3 DEF vars, device, storage, sheet, net, clock, Everywhere, OnTheWire
  <2>2. QED
    BY <1>1, <2>1
<1>4. CASE Next
  BY <1>1, <1>2, <1>4, DispatchMakes, TrackMakes, HandInMakes, OthersMove
<1>5. QED
  BY <1>3, <1>4

\* Who holds what: an open transaction has an owner and sees at least what is
\* committed; the call that owns it has every mutation of its batch claimed or about
\* to be; a call the server confirmed is in the ledger, whole; and a submit request
\* is awaited only by a page that is posting.
Custody ==
    /\ owner # "none" <=> tx.open
    /\ tx.open => ledger \subseteq tx.ledger
    /\ owner = "call" => /\ call.phase = "applying"
                         /\ ToSet(call.batch) \subseteq ToSet(tx.todo) \cup tx.ledger
    /\ call.phase = "ok" => ToSet(call.batch) \subseteq ledger
    /\ post.phase # "none" => handing = "posting"

\* The steps that leave the sheet, the requests and the hand-in alone.
LEMMA CustodyUntouched ==
    ASSUME Custody, UNCHANGED <<sheet, call, post, handing>>
    PROVE  Custody'
BY DEF Custody, sheet

\* When a flush returns there is no call any more, and the owner is not the call.
LEMMA CustodyFlushReturns ==
    ASSUME TypeOK, Custody, NEW box, call.phase # "none", call' = NoCall, ThenPost(box),
           UNCHANGED <<ledger, tx>>, NoLongerOurs
    PROVE  Custody'
<1>1. post'.phase # "none" => handing' = "posting"
  BY DEF Custody, ThenPost
<1>2. call'.phase = "none" /\ owner' # "call" /\ (owner' # "none" <=> owner # "none")
  BY DEF NoCall, NoLongerOurs
<1>3. QED
  BY <1>1, <1>2 DEF Custody

LEMMA CustodyPage ==
    ASSUME TypeOK, Custody,
           \/ Dispatch \/ Track \/ Flush \/ HandIn
           \/ FlushOk \/ FlushRefused \/ FlushFailed \/ BackoffElapsed \/ Online
           \/ HandedIn \/ HandInFailed
           \/ Reload \/ Restore \/ Persist \/ PutFails
    PROVE  Custody'
<1> USE DEF device, storage, sheet, server, net, clock
<1>1. CASE Dispatch \/ Track \/ BackoffElapsed \/ Online \/ Restore \/ Persist \/ PutFails
  BY <1>1, CustodyUntouched DEF Dispatch, Track, BackoffElapsed, Online, Restore, Persist, PutFails
<1>2. CASE Flush
  BY <1>2 DEF Flush, CanFlush, Sending, Custody
<1>3. CASE HandIn
  <2>1. /\ \/ call.phase = "none" /\ call' = Sending(outbox') /\ post' = post
           \/ call' = call /\ post' = Posting(outbox') /\ handing' = "posting"
        /\ handing = "no" /\ UNCHANGED <<ledger, tx, owner>>
    BY <1>3 DEF HandIn, CanFlush
  <2>2. QED
    BY <2>1 DEF Custody, Sending
<1>4. CASE FlushOk \/ FlushRefused
  <2>1. owner # "call" /\ owner' = owner
    BY <1>4 DEF Custody, FlushOk, FlushRefused
  <2>2. NoLongerOurs
    BY <2>1 DEF NoLongerOurs
  <2>3. QED
    BY <1>4, <2>2, CustodyFlushReturns DEF FlushOk, FlushRefused
<1>5. CASE FlushFailed
  BY <1>5, CustodyFlushReturns DEF FlushFailed
<1>6. CASE HandedIn \/ HandInFailed
  BY <1>6 DEF HandedIn, HandInFailed, NoPost, Custody
<1>7. CASE Reload
  <2>1. /\ call'.phase = "none" /\ post'.phase = "none" /\ owner' # "call"
        /\ (owner' # "none" <=> owner # "none") /\ UNCHANGED <<ledger, tx>>
    BY <1>7 DEF Reload, NoCall, NoPost, NoLongerOurs
  <2>2. QED
    BY <2>1 DEF Custody
<1>8. QED
  BY <1>1, <1>2, <1>3, <1>4, <1>5, <1>6, <1>7

LEMMA CustodyEndpoint ==
    ASSUME TypeOK, Named, Custody,
           \/ AdmitCall \/ BeginCall
           \/ \E r \in strays : AdmitStray(r) \/ BeginStray(r)
           \/ ApplyNext \/ Commit \/ Rollback
           \/ FindPost \/ ReadPost \/ ScorePost
           \/ \E p \in strayPosts : FindStrayPost(p) \/ ReadStrayPost(p) \/ ScoreStrayPost(p)
           \/ TimeUp
    PROVE  Custody'
<1> USE DEF device, storage, sheet, server, net, clock
<1>1. CASE AdmitCall
  <2>1. call.phase = "sent" /\ call'.phase \in {"refused", "admitted"} /\ UNCHANGED <<sheet, post, handing>>
    BY <1>1 DEF AdmitCall, TypeOK, CallType
  <2>2. QED
    BY <2>1 DEF Custody
<1>2. CASE BeginCall
  <2>1. /\ owner' = "call" /\ call'.phase = "applying" /\ call'.batch = call.batch
        /\ tx'.open /\ tx'.todo = call.batch /\ tx'.ledger = ledger
        /\ UNCHANGED <<ledger, post, handing>>
    BY <1>2 DEF BeginCall, Sheet!Begin, TypeOK, CallType
  <2>2. QED
    BY <2>1 DEF Custody
<1>3. ASSUME NEW r \in strays, AdmitStray(r)
      PROVE  Custody'
  BY <1>3, CustodyUntouched DEF AdmitStray
<1>4. ASSUME NEW r \in strays, BeginStray(r)
      PROVE  Custody'
  <2>1. owner' = "stray" /\ tx'.open /\ tx'.ledger = ledger /\ UNCHANGED <<ledger, call, post, handing>>
    BY <1>4 DEF BeginStray, Sheet!Begin
  <2>2. QED
    BY <2>1 DEF Custody
<1>5. CASE ApplyNext
  <2> DEFINE m == Head(tx.todo)
  <2>1. /\ tx.open /\ tx'.open /\ tx'.todo = Tail(tx.todo)
        /\ tx'.ledger = IF ~Sheet!Claimed(tx.ledger, m) THEN tx.ledger \cup {m} ELSE tx.ledger
        /\ UNCHANGED <<ledger, owner, call, post, handing>>
    BY <1>5 DEF ApplyNext, Sheet!ApplyNext, TypeOK, Sheet!TypeOK
  <2>2. ToSet(tx.todo) = {m} \cup ToSet(tx'.todo)
    BY <1>5, <2>1, ElementsTail DEF ApplyNext, Sheet!ApplyNext, TypeOK, Sheet!TypeOK
  <2>3. Sheet!Claimed(tx.ledger, m) => m \in tx.ledger
    BY <2>2 DEF Sheet!Claimed, Named, Everywhere
  <2>4. m \in tx'.ledger /\ tx.ledger \subseteq tx'.ledger
    BY <2>1, <2>3
  <2>5. QED
    BY <2>1, <2>2, <2>4 DEF Custody
<1>6. CASE Commit
  <2>1. /\ owner' = "none" /\ tx.open /\ ~tx'.open /\ tx.todo = <<>> /\ ledger' = tx.ledger
        /\ call' = (IF owner = "call" THEN [call EXCEPT !.phase = "ok"] ELSE call)
        /\ UNCHANGED <<post, handing>>
    BY <1>6 DEF Commit, Sheet!Commit, Ends, Sheet!Closed
  <2>2. ToSet(tx.todo) = {}
    BY <2>1, ElementsEmpty
  <2>3. call'.batch = call.batch /\ (call'.phase = "ok" => owner = "call" \/ call.phase = "ok")
    BY <2>1 DEF TypeOK, CallType
  <2>4. QED
    BY <2>1, <2>2, <2>3 DEF Custody
<1>7. CASE Rollback
  <2>1. /\ owner' = "none" /\ ~tx'.open /\ UNCHANGED <<ledger, post, handing>>
        /\ call' = (IF owner = "call" THEN [call EXCEPT !.phase = "failed"] ELSE call)
    BY <1>7 DEF Rollback, Sheet!Rollback, Ends, Sheet!Closed
  <2>2. call'.batch = call.batch /\ (call'.phase = "ok" => call.phase = "ok")
    BY <2>1 DEF TypeOK, CallType
  <2>3. QED
    BY <2>1, <2>2 DEF Custody
<1>8. CASE FindPost \/ ReadPost \/ ScorePost
  BY <1>8 DEF FindPost, ReadPost, ScorePost, Custody
<1>9. ASSUME NEW p \in strayPosts, FindStrayPost(p) \/ ReadStrayPost(p) \/ ScoreStrayPost(p)
      PROVE  Custody'
  BY <1>9, CustodyUntouched DEF FindStrayPost, ReadStrayPost, ScoreStrayPost
<1>10. CASE TimeUp
  BY <1>10, CustodyUntouched DEF TimeUp
<1>11. QED
  BY <1>1, <1>2, <1>3, <1>4, <1>5, <1>6, <1>7, <1>8, <1>9, <1>10

LEMMA CustodyStays == TypeOK /\ Named /\ Custody /\ [Next]_vars => Custody'
<1> SUFFICES ASSUME TypeOK, Named, Custody, [Next]_vars PROVE Custody'
  OBVIOUS
<1>1. CASE UNCHANGED vars
  BY <1>1, CustodyUntouched DEF vars, device, sheet, net
<1>2. CASE Next
  BY <1>2, CustodyPage, CustodyEndpoint DEF Next
<1>3. QED
  BY <1>1, <1>2

\* The ledger only grows.
LEMMA LedgerGrows ==
    ASSUME Custody, [Next]_vars
    PROVE  ledger \subseteq ledger'
<1>1. CASE Commit
  BY <1>1 DEF Commit, Sheet!Commit, Custody
<1>2. CASE ~Commit
  BY <1>2 DEF Next, vars, sheet, Dispatch, Track, Flush, HandIn, FlushOk, FlushRefused,
              FlushFailed, BackoffElapsed, Online, HandedIn, HandInFailed, Reload, Restore,
              Persist, PutFails, AdmitCall, BeginCall, AdmitStray, BeginStray, ApplyNext,
              Rollback, FindPost, ReadPost, ScorePost, FindStrayPost, ReadStrayPost,
              ScoreStrayPost, TimeUp, Sheet!Begin, Sheet!ApplyNext, Sheet!Rollback
<1>3. QED
  BY <1>1, <1>2

(***************************************************************************)
(* Nothing queued is lost.                                                 *)
(***************************************************************************)

\* A confirmed flush takes from the queue only what the ledger has.
LEMMA FlushOkPrunes ==
    ASSUME TypeOK, Named, Custody, FlushOk
    PROVE  /\ ToSet(outbox') \subseteq ToSet(outbox)
           /\ ToSet(outbox) \subseteq ToSet(outbox') \cup ledger
           /\ ledger' = ledger
<1>1. ToSet(outbox') = {m \in ToSet(outbox) : m.id \notin Batched(call.batch)}
  BY PruneKeeps DEF FlushOk, TypeOK, Batch
<1>2. ToSet(call.batch) \subseteq ledger
  BY DEF FlushOk, Custody
<1>3. \A m \in ToSet(outbox) : m.id \in Batched(call.batch) => m \in ToSet(call.batch)
  BY DEF Batched, Named, Everywhere
<1>4. QED
  BY <1>1, <1>2, <1>3 DEF FlushOk, sheet

\* A step that makes no mutation of the taker's leaves his in the queue, and one that
\* makes any adds to it.
LEMMA HandInQueues ==
    ASSUME TypeOK, HandIn
    PROVE  /\ ToSet(outbox) \subseteq ToSet(outbox')
           /\ \A m \in ToSet(outbox') : m \in ToSet(outbox) \/ m \in Observation
<1>1. ASSUME NEW m \in Observation, Makes(m)
      PROVE  ToSet(outbox') = ToSet(outbox) \cup {m}
  BY <1>1, ElementsAppend DEF Makes, TypeOK, Batch
<1>2. QED
  BY <1>1, HandInMakes

LEMMA TrackQueues ==
    ASSUME TypeOK, Track
    PROVE  /\ ToSet(outbox) \subseteq ToSet(outbox')
           /\ \A m \in ToSet(outbox') : m \in ToSet(outbox) \/ m \in Observation
<1>1. ASSUME NEW m \in Observation, Makes(m)
      PROVE  ToSet(outbox') = ToSet(outbox) \cup {m}
  BY <1>1, ElementsAppend DEF Makes, TypeOK, Batch
<1>2. QED
  BY <1>1, TrackMakes

LEMMA DispatchQueues ==
    ASSUME TypeOK, Dispatch
    PROVE  ToSet(outbox) \subseteq ToSet(outbox')
<1>1. ASSUME NEW m, Makes(m)
      PROVE  ToSet(outbox') = ToSet(outbox) \cup {m}
  BY <1>1, ElementsAppend DEF Makes, TypeOK, Batch
<1>2. QED
  BY <1>1, DispatchMakes

\* The steps that touch neither the queue nor what is stored of it.
Elsewhere == UNCHANGED <<page, outbox, write, disk>>

LEMMA OthersElsewhere ==
    ASSUME Custody, [Next]_vars,
           ~Dispatch, ~Track, ~HandIn, ~FlushOk, ~HandedIn, ~Reload, ~Restore, ~Persist, ~PutFails
    PROVE  Elsewhere /\ (handing' = "done" <=> handing = "done")
           /\ (handing = "no" => handing' = "no")
<1> USE DEF device, storage, sheet, server, net, clock, Elsewhere
<1>1. CASE UNCHANGED vars
  BY <1>1 DEF vars
<1>2. CASE Flush \/ BackoffElapsed \/ Online \/ AdmitCall \/ BeginCall \/ ApplyNext
           \/ FindPost \/ ReadPost \/ ScorePost \/ TimeUp
  BY <1>2 DEF Flush, BackoffElapsed, Online, AdmitCall, BeginCall, ApplyNext, FindPost,
              ReadPost, ScorePost, TimeUp
<1>3. CASE FlushRefused \/ FlushFailed
  BY <1>3 DEF FlushRefused, FlushFailed, ThenPost
<1>4. CASE HandInFailed
  BY <1>4 DEF HandInFailed, Custody
<1>5. CASE Commit \/ Rollback
  BY <1>5 DEF Commit, Rollback, Ends, Custody
<1>6. ASSUME NEW r \in strays, AdmitStray(r) \/ BeginStray(r)
      PROVE  Elsewhere /\ handing' = handing /\ call' = call
  BY <1>6 DEF AdmitStray, BeginStray
<1>7. ASSUME NEW p \in strayPosts, FindStrayPost(p) \/ ReadStrayPost(p) \/ ScoreStrayPost(p)
      PROVE  Elsewhere /\ handing' = handing /\ call' = call
  BY <1>7 DEF FindStrayPost, ReadStrayPost, ScoreStrayPost
<1>8. QED
  BY <1>1, <1>2, <1>3, <1>4, <1>5, <1>6, <1>7 DEF Next

\* What the taker typed stays in the snapshot or on its way to it.
LEMMA DurableStays ==
    ASSUME DiskMayFail = FALSE, TypeOK, Named, Custody, TypedIsDurable, [Next]_vars
    PROVE  TypedIsDurable'
<1> DEFINE Typed(box) == {m \in ToSet(box) : m.kind \in {"answer", "mark"}}
           Store(w, d) == ToSet((IF w.pending THEN w.put ELSE d).outbox)
<1>1. page = "live" /\ handing # "done" => Typed(outbox) \subseteq Store(write, disk) \cup ledger
  BY DEF TypedIsDurable
<1> SUFFICES ASSUME page' = "live", handing' # "done"
             PROVE  Typed(outbox') \subseteq Store(write', disk') \cup ledger'
  BY DEF TypedIsDurable
<1>2. ledger \subseteq ledger'
  BY LedgerGrows
<1>3. \A s, box : Store(Put(Snapshot(s, box)), disk') = ToSet(box)
  BY DEF Put, Snapshot
<1>4. ASSUME \E s : write' = Put(Snapshot(s, outbox'))
      PROVE  Typed(outbox') \subseteq Store(write', disk')
  BY <1>3, <1>4
<1>5. ASSUME UNCHANGED <<page, write, disk>>, handing # "done",
             \A m \in ToSet(outbox') : m \in ToSet(outbox) \/ m \in Observation
      PROVE  Typed(outbox') \subseteq Store(write', disk') \cup ledger'
  <2>1. Typed(outbox') \subseteq Typed(outbox)
    BY <1>5, ObservationType
  <2>2. page = "live" /\ Store(write', disk') = Store(write, disk)
    BY <1>5
  <2>3. QED
    BY <1>1, <1>2, <1>5, <2>1, <2>2
<1>6. CASE Dispatch
  <2>1. page = "live" /\ write' = Persisting(st', outbox') /\ st' # st
    BY <1>6 DEF Dispatch
  <2>2. QED
    BY <1>4, <2>1 DEF Persisting
<1>7. CASE Track
  BY <1>5, <1>7, TrackQueues DEF Track, storage
<1>8. CASE HandIn
  <2>1. CASE write' = Put(Snapshot(st', outbox'))
    BY <1>4, <2>1
  <2>2. CASE write' = write
    BY <1>5, <1>8, <2>2, HandInQueues DEF HandIn
  <2>3. QED
    BY <1>8, <2>1, <2>2 DEF HandIn, Persisting
<1>9. CASE FlushOk \/ Restore
  BY <1>4, <1>9 DEF FlushOk, Restore
<1>10. CASE HandedIn \/ Reload \/ PutFails
  BY <1>10 DEF HandedIn, Reload, PutFails
<1>11. CASE Persist
  <2>1. page = "live" /\ handing # "done" /\ Store(write', disk') = Store(write, disk) /\ outbox' = outbox
    BY <1>11 DEF Persist, device, Idle
  <2>2. QED
    BY <1>1, <1>2, <2>1
<1>12. CASE ~(Dispatch \/ Track \/ HandIn \/ FlushOk \/ HandedIn \/ Reload \/ Restore \/ Persist \/ PutFails)
  BY <1>1, <1>2, <1>12, OthersElsewhere DEF Elsewhere
<1>13. QED
  BY <1>6, <1>7, <1>8, <1>9, <1>10, <1>11, <1>12

\* What is stored is behind the queue of a live page by no more than the ledger: the
\* snapshot, the put on its way and the queue hold, each later one, all of the earlier
\* that the server does not have.  What a taker queues while the page loads is not in it.
Shelved ==
    /\ page = "loading" => handing = "no"
    /\ ~disk.there => disk.outbox = <<>>
    /\ write.pending /\ ~write.put.there => write.put.outbox = <<>>
    /\ page = "live" /\ handing # "done" =>
          /\ ToSet(disk.outbox) \subseteq ToSet(outbox) \cup ledger
          /\ write.pending => ToSet(write.put.outbox) \subseteq ToSet(outbox) \cup ledger
    /\ page = "live" /\ write.pending /\ handing # "done" =>
          ToSet(disk.outbox) \subseteq ToSet(write.put.outbox) \cup ledger

\* The queue grows, or shrinks by what the ledger has, and is put on its way to the disk
\* or is not.
LEMMA QueuePutShelved ==
    ASSUME Shelved, page = "live", page' = "live", handing # "done", disk' = disk,
           ledger \subseteq ledger',
           ToSet(outbox) \subseteq ToSet(outbox') \cup ledger',
           \/ write' = write
           \/ \E s : write' = Put(Snapshot(s, outbox'))
    PROVE  Shelved'
<1>1. CASE write' = write
  BY <1>1 DEF Shelved
<1>2. ASSUME NEW s, write' = Put(Snapshot(s, outbox'))
      PROVE  Shelved'
  <2>1. write'.pending /\ write'.put.there /\ write'.put.outbox = outbox'
    BY <1>2 DEF Put, Snapshot
  <2>2. ToSet(disk'.outbox) \subseteq ToSet(outbox') \cup ledger'
    BY DEF Shelved
  <2>3. QED
    BY <2>1, <2>2 DEF Shelved
<1>3. QED
  BY <1>1, <1>2

LEMMA ShelvedStays ==
    ASSUME TypeOK, Named, Custody, Shelved, [Next]_vars
    PROVE  Shelved'
<1>0. ledger \subseteq ledger' /\ page \in {"loading", "live"}
  BY LedgerGrows DEF TypeOK
<1>1. CASE Dispatch
  <2>1. /\ page' = page /\ disk' = disk /\ handing' = handing
        /\ write' = Persisting(st', outbox')
    BY <1>1 DEF Dispatch
  <2>2. CASE page = "live" /\ handing # "done"
    BY <1>0, <1>1, <2>1, <2>2, QueuePutShelved, DispatchQueues DEF Persisting
  <2>3. CASE page = "loading" \/ handing = "done"
    <3>1. write' = write \/ (write'.pending /\ write'.put.there)
      BY <2>1 DEF Persisting, Put, Snapshot
    <3>2. QED
      BY <2>1, <2>3, <3>1 DEF Shelved
  <2>4. QED
    BY <1>0, <2>2, <2>3
<1>2. CASE Track
  <2>1. UNCHANGED <<page, handing, write, disk>>
    BY <1>2 DEF Track, storage
  <2>2. CASE page = "live"
    BY <1>0, <1>2, <2>1, <2>2, QueuePutShelved, TrackQueues DEF Track
  <2>3. CASE page = "loading"
    BY <2>1, <2>3 DEF Shelved
  <2>4. QED
    BY <1>0, <2>2, <2>3
<1>3. CASE HandIn
  BY <1>0, <1>3, QueuePutShelved, HandInQueues DEF HandIn, Persisting
<1>4. CASE FlushOk
  <2>1. /\ page' = page /\ disk' = disk
        /\ (handing' = "done" <=> handing = "done")
        /\ (handing = "no" => handing' = "no")
        /\ write' = Put(Snapshot(call.base, outbox'))
    BY <1>4 DEF FlushOk, ThenPost
  <2>2. CASE page = "live" /\ handing # "done"
    BY <1>0, <1>4, <2>1, <2>2, QueuePutShelved, FlushOkPrunes
  <2>3. CASE page = "loading" \/ handing = "done"
    BY <2>1, <2>3 DEF Shelved, Put, Snapshot
  <2>4. QED
    BY <1>0, <2>2, <2>3
<1>5. CASE HandedIn
  BY <1>5 DEF HandedIn, Put, NoSnapshot, Shelved, Custody
<1>6. CASE Reload
  BY <1>6 DEF Reload, NoCall, Idle, Shelved
<1>7. CASE Restore
  <2>1. /\ page' = "live" /\ ToSet(disk.outbox) \subseteq ToSet(outbox') /\ disk' = disk
        /\ write'.pending /\ write'.put.there /\ write'.put.outbox = outbox'
    BY <1>7, ElementsEmpty DEF Restore, Put, Snapshot, Shelved
  <2>2. QED
    BY <2>1 DEF Shelved
<1>8. CASE Persist
  <2>1. /\ page' = page /\ page = "live" /\ outbox' = outbox /\ handing' = handing
        /\ disk' = write.put /\ write.pending /\ ~write'.pending
    BY <1>8 DEF Persist, device, Idle
  <2>2. QED
    BY <1>0, <2>1 DEF Shelved
<1>9. CASE PutFails
  <2>1. ~write'.pending /\ UNCHANGED <<device, disk, call, ledger>>
    BY <1>9 DEF PutFails, Idle, sheet, net
  <2>2. QED
    BY <2>1 DEF Shelved, device
<1>10. CASE ~(Dispatch \/ Track \/ HandIn \/ FlushOk \/ HandedIn \/ Reload \/ Restore \/ Persist \/ PutFails)
  <2>1. /\ Elsewhere /\ (handing' = "done" <=> handing = "done")
        /\ (handing = "no" => handing' = "no")
    BY <1>10, OthersElsewhere
  <2>2. QED
    BY <1>0, <2>1 DEF Shelved, Elsewhere
<1>11. QED
  BY <1>1, <1>2, <1>3, <1>4, <1>5, <1>6, <1>7, <1>8, <1>9, <1>10

\* A step of the page, reloading and restoring a snapshot apart, leaves in the queue or
\* the ledger all that was in the queue; and the put that commits holds all the snapshot held.
LEMMA QueueStays ==
    ASSUME TypeOK, Named, Custody, Shelved, [Next]_vars
    PROVE  /\ reloads' = reloads /\ ~(Restore /\ disk.there) =>
                  ToSet(outbox) \subseteq ToSet(outbox') \cup ledger
           /\ handing # "done" => ToSet(disk.outbox) \subseteq ToSet(disk'.outbox) \cup ledger
<1>1. CASE Dispatch \/ Track \/ HandIn
  BY <1>1, DispatchQueues, TrackQueues, HandInQueues DEF Dispatch, Track, HandIn, storage
<1>2. CASE FlushOk
  BY <1>2, FlushOkPrunes DEF FlushOk
<1>3. CASE Reload
  BY <1>3 DEF Reload, TypeOK
<1>4. CASE Restore
  <2>1. (disk.there \/ outbox' = outbox) /\ disk' = disk
    BY <1>4 DEF Restore
  <2>2. QED
    BY <1>4, <2>1
<1>5. CASE Persist
  BY <1>5 DEF Persist, device, Shelved
<1>6. CASE HandedIn \/ PutFails
  BY <1>6 DEF HandedIn, PutFails, device
<1>7. CASE ~(Dispatch \/ Track \/ HandIn \/ FlushOk \/ HandedIn \/ Reload \/ Restore \/ Persist \/ PutFails)
  BY <1>7, OthersElsewhere DEF Elsewhere
<1>8. QED
  BY <1>1, <1>2, <1>3, <1>4, <1>5, <1>6, <1>7

LEMMA InitCustody == Init => Named /\ Custody /\ Shelved /\ TypedIsDurable
<1> SUFFICES ASSUME Init PROVE Named /\ Custody /\ Shelved /\ TypedIsDurable
  OBVIOUS
<1>1. /\ outbox = <<>> /\ call.batch = <<>> /\ call.phase = "none" /\ post.phase = "none"
      /\ strays = {} /\ write.put.outbox = <<>> /\ ~write.pending
      /\ disk.outbox = <<>> /\ ~disk.there
      /\ tx.todo = <<>> /\ ~tx.open /\ tx.ledger = {} /\ ledger = {}
      /\ page = "loading" /\ handing = "no" /\ owner = "none"
  BY DEF Init, NoCall, NoPost, Idle, NoSnapshot, Sheet!Init, Sheet!Closed
<1>2. Everywhere = {}
  BY <1>1, ElementsEmpty DEF Everywhere, OnTheWire
<1>3. QED
  BY <1>1, <1>2, ElementsEmpty DEF Named, Custody, Shelved, TypedIsDurable

\* Where every mutation is, and that its id names it, for any taker, any network and
\* any number of reloads.
THEOREM MutationsAreInCustody == Spec => [](Named /\ Custody)
<1>1. Init => TypeOK /\ Named /\ Custody
  BY InitType, InitCustody
<1>2. TypeOK /\ Named /\ Custody /\ [Next]_vars => (TypeOK /\ Named /\ Custody)'
  BY NextType, NamedStays, CustodyStays
<1>3. QED
  BY <1>1, <1>2, PTL DEF Spec

\* What the taker typed is on the server, in the snapshot or in the put on its way
\* there, as long as the device can store it (the persist effect of useAttempt).
THEOREM TypedStaysDurable ==
    ASSUME DiskMayFail = FALSE
    PROVE  Spec => []TypedIsDurable
<1>1. Init => TypeOK /\ Named /\ Custody /\ TypedIsDurable
  BY InitType, InitCustody
<1>2. TypeOK /\ Named /\ Custody /\ TypedIsDurable /\ [Next]_vars
          => (TypeOK /\ Named /\ Custody /\ TypedIsDurable)'
  BY NextType, NamedStays, CustodyStays, DurableStays
<1>3. QED
  BY <1>1, <1>2, PTL DEF Spec

\* A queued mutation leaves the outbox, or the snapshot, only once the server has it
\* (pruneOutbox), whether or not the taker acts before the snapshot is restored: all a
\* restore may cost is what was typed before it (use-attempt.ts:56-63).
THEOREM QueueStaysKept == Spec => QueueIsKept
<1>1. Init => TypeOK /\ Named /\ Custody /\ Shelved
  BY InitType, InitCustody
<1>2. TypeOK /\ Named /\ Custody /\ Shelved /\ [Next]_vars
          => (TypeOK /\ Named /\ Custody /\ Shelved)'
  BY NextType, NamedStays, CustodyStays, ShelvedStays
<1>3. TypeOK /\ Named /\ Custody /\ Shelved /\ [Next]_vars
          => [ /\ reloads' = reloads /\ ~(Restore /\ disk.there) =>
                      ToSet(outbox) \subseteq ToSet(outbox') \cup ledger
               /\ handing # "done" => ToSet(disk.outbox) \subseteq ToSet(disk'.outbox) \cup ledger ]_vars
  BY QueueStays
<1>4. QED
  BY <1>1, <1>2, <1>3, PTL DEF Spec, QueueIsKept

(***************************************************************************)
(* In which order the sheet gets what the device made, on a page that was  *)
(* never reloaded.  K is what the taker made, L a ledger.                  *)
(***************************************************************************)

Known == ToSet(outbox) \cup ledger

\* Numbers below s, one for each answer or flag.
Numbered(K, s) ==
    /\ \A m \in K : Sheet!IsSequenced(m) => m.seq <= s
    /\ \A m, n \in K : Sheet!IsSequenced(m) /\ Sheet!IsSequenced(n) /\ m.seq = n.seq => m = n

\* A batch in order, such that whatever precedes one of its mutations is in it or in L.
Fit(b, K, L) ==
    /\ b \in Seq(Mutations) /\ Sorted(b) /\ ToSet(b) \subseteq K
    /\ \A m \in ToSet(b), n \in K :
          Sheet!IsSequenced(m) /\ Sheet!IsSequenced(n) /\ n.seq < m.seq => n \in ToSet(b) \cup L

\* A ledger without gaps.
Whole(L, K) ==
    /\ L \subseteq K
    /\ \A m \in L, n \in K :
          Sheet!IsSequenced(m) /\ Sheet!IsSequenced(n) /\ n.seq < m.seq => n \in L

\* The value and the flag the newest mutations of a question give it.
ShowsAnswer(v, S) ==
    \/ v = Blank /\ S = {}
    \/ \E a \in S : v = a.val /\ \A m \in S : m.seq <= a.seq
ShowsFlag(b, S) ==
    \/ ~b /\ S = {}
    \/ \E k \in S : (b <=> k.on) /\ \A m \in S : m.seq <= k.seq

DeviceShows(s, K) ==
    \A q \in Questions : /\ ShowsAnswer(AsRow(s.resp[q]), Sheet!AnswersTo(K, q))
                         /\ ShowsFlag(q \in s.marked, Sheet!MarksOf(K, q))
RowsShow(R, L) ==
    \A q \in Questions :
        /\ ShowsAnswer(R[q].val, Sheet!AnswersTo(L, q))
        /\ ShowsFlag(R[q].marked, Sheet!MarksOf(L, q))
        /\ R[q].exists => \E n \in Sheet!AnswersTo(L, q) \cup Sheet!MarksOf(L, q) : n.seq = R[q].seq

LEMMA SequencedType ==
    ASSUME NEW m \in Mutations
    PROVE  /\ Sheet!IsSequenced(m) => m.seq \in Nat /\ m.q \in Questions
           /\ m.kind = "answer" => m \in Sheet!AnswerMutation
           /\ m.kind = "mark" => m \in Sheet!MarkMutation
BY DEF Mutations, Sheet!Mutation, Sheet!AnswerMutation, Sheet!MarkMutation,
       Sheet!TimingMutation, Sheet!VisibilityMutation, Sheet!IsSequenced

\* Newer mutations leave batches fit and ledgers whole.
LEMMA FitStays ==
    ASSUME NEW b, NEW K, NEW K2, NEW L, NEW L2, Fit(b, K, L), K \subseteq K2, L \subseteq L2,
           K2 \subseteq Mutations,
           \A n \in K2 \ K, m \in K :
               Sheet!IsSequenced(m) /\ Sheet!IsSequenced(n) => m.seq < n.seq
    PROVE  Fit(b, K2, L2)
<1>1. ASSUME NEW m \in ToSet(b), NEW n \in K2,
             Sheet!IsSequenced(m), Sheet!IsSequenced(n), n.seq < m.seq
      PROVE  n \in ToSet(b) \cup L2
  <2>1. m \in K /\ m.seq \in Nat /\ n.seq \in Nat
    BY <1>1, SequencedType DEF Fit
  <2>2. n \in K
    BY <1>1, <2>1
  <2>3. QED
    BY <1>1, <2>2 DEF Fit
<1>2. QED
  BY <1>1 DEF Fit

LEMMA WholeStays ==
    ASSUME NEW K, NEW K2, NEW L, Whole(L, K), K \subseteq K2, K2 \subseteq Mutations,
           \A n \in K2 \ K, m \in K :
               Sheet!IsSequenced(m) /\ Sheet!IsSequenced(n) => m.seq < n.seq
    PROVE  Whole(L, K2)
<1>1. ASSUME NEW m \in L, NEW n \in K2,
             Sheet!IsSequenced(m), Sheet!IsSequenced(n), n.seq < m.seq
      PROVE  n \in L
  <2>1. m \in K /\ m.seq \in Nat /\ n.seq \in Nat
    BY <1>1, SequencedType DEF Whole
  <2>2. n \in K
    BY <1>1, <2>1
  <2>3. QED
    BY <1>1, <2>2 DEF Whole
<1>2. QED
  BY <1>1 DEF Whole

\* Queues stay sorted.
LEMMA SortedEmpty == Sorted(<<>>)
BY DEF Sorted

LEMMA SortedAppend ==
    ASSUME NEW s \in Seq(Mutations), Sorted(s), NEW e \in Mutations,
           \A m \in ToSet(s) : Sheet!IsSequenced(m) /\ Sheet!IsSequenced(e) => m.seq < e.seq
    PROVE  Sorted(Append(s, e))
<1> DEFINE t == Append(s, e)
<1>1. /\ DOMAIN s = 1..Len(s) /\ DOMAIN t = 1..(Len(s) + 1) /\ Len(s) \in Nat
      /\ \A i \in 1..Len(s) : t[i] = s[i]
      /\ t[Len(s) + 1] = e
  OBVIOUS
<1> HIDE DEF t
<1>2. ASSUME NEW i \in DOMAIN t, NEW j \in DOMAIN t, i < j,
             Sheet!IsSequenced(t[i]), Sheet!IsSequenced(t[j])
      PROVE  t[i].seq < t[j].seq
  <2>1. i \in 1..Len(s) /\ t[i] = s[i] /\ s[i] \in ToSet(s)
    BY <1>1, <1>2 DEF ToSet
  <2>2. CASE j \in 1..Len(s)
    BY <1>1, <1>2, <2>1, <2>2 DEF Sorted
  <2>3. CASE j = Len(s) + 1
    BY <1>1, <1>2, <2>1, <2>3
  <2>4. QED
    BY <1>1, <2>2, <2>3
<1>3. QED
  BY <1>2 DEF Sorted, t

LEMMA SortedTail ==
    ASSUME NEW s \in Seq(Mutations), Sorted(s), s # <<>>
    PROVE  /\ Sorted(Tail(s))
           /\ \A n \in ToSet(Tail(s)) :
                 Sheet!IsSequenced(Head(s)) /\ Sheet!IsSequenced(n) => Head(s).seq < n.seq
<1> DEFINE t == Tail(s)
<1>1. /\ DOMAIN s = 1..Len(s) /\ Len(s) \in Nat \ {0} /\ DOMAIN t = 1..(Len(s) - 1)
      /\ \A i \in 1..(Len(s) - 1) : t[i] = s[i + 1]
      /\ Head(s) = s[1]
  OBVIOUS
<1> HIDE DEF t
<1>2. Sorted(t)
  BY <1>1 DEF Sorted
<1>3. ASSUME NEW n \in ToSet(t), Sheet!IsSequenced(Head(s)), Sheet!IsSequenced(n)
      PROVE  Head(s).seq < n.seq
  <2>1. PICK i \in 1..(Len(s) - 1) : n = s[i + 1]
    BY <1>1 DEF ToSet
  <2>2. i + 1 \in DOMAIN s /\ 1 \in DOMAIN s /\ 1 < i + 1
    BY <1>1
  <2>3. QED
    BY <1>1, <1>3, <2>1, <2>2 DEF Sorted
<1>4. QED
  BY <1>2, <1>3 DEF t

\* One newest mutation, one value.
LEMMA ShownOnce ==
    ASSUME NEW S \in SUBSET Mutations, \A m \in S : Sheet!IsSequenced(m),
           \A m, n \in S : m.seq = n.seq => m = n
    PROVE  /\ \A v, w : ShowsAnswer(v, S) /\ ShowsAnswer(w, S) => v = w
           /\ \A b, c \in BOOLEAN : ShowsFlag(b, S) /\ ShowsFlag(c, S) => b = c
<1>1. \A m \in S : m.seq \in Nat
  BY SequencedType
<1>2. \A m, n \in S : m.seq <= n.seq /\ n.seq <= m.seq => m = n
  BY <1>1
<1>3. QED
  BY <1>2 DEF ShowsAnswer, ShowsFlag

\* The newest mutation is the one shown.
LEMMA NewestIsShown ==
    ASSUME NEW S \in SUBSET Mutations, NEW m \in Mutations, m.seq \in Nat,
           \A n \in S : n.seq \in Nat /\ n.seq < m.seq
    PROVE  /\ ShowsAnswer(m.val, S \cup {m})
           /\ \A b : (b <=> m.on) => ShowsFlag(b, S \cup {m})
<1>1. m \in S \cup {m} /\ \A n \in S \cup {m} : n.seq <= m.seq
  OBVIOUS
<1>2. QED
  BY <1>1 DEF ShowsAnswer, ShowsFlag

\* What a mutation adds to the answers and flags of a question.
LEMMA AddedTo ==
    ASSUME NEW L, NEW m \in Mutations, NEW q
    PROVE  /\ Sheet!AnswersTo(L \cup {m}, q) =
                  IF m.kind = "answer" /\ m.q = q THEN Sheet!AnswersTo(L, q) \cup {m}
                                                  ELSE Sheet!AnswersTo(L, q)
           /\ Sheet!MarksOf(L \cup {m}, q) =
                  IF m.kind = "mark" /\ m.q = q THEN Sheet!MarksOf(L, q) \cup {m}
                                                ELSE Sheet!MarksOf(L, q)
BY DEF Sheet!AnswersTo, Sheet!MarksOf

\* A mutation newer than all of the ledger is shown by its row from then on
\* (upsertAnswer and upsertMark: the guard lets it through).
LEMMA AppliedInOrder ==
    ASSUME NEW R \in [Questions -> Sheet!Row], NEW L \in SUBSET Mutations, NEW m \in Mutations,
           RowsShow(R, L),
           \A n \in L : Sheet!IsSequenced(n) /\ Sheet!IsSequenced(m) => n.seq < m.seq
    PROVE  RowsShow(Sheet!Effect(R, m), L \cup {m})
<1> DEFINE S == Sheet!Effect(R, m)
           A(q) == Sheet!AnswersTo(L, q)
           F(q) == Sheet!MarksOf(L, q)
<1>0. \A q : /\ A(q) \subseteq L /\ F(q) \subseteq L
             /\ \A n \in A(q) \cup F(q) : Sheet!IsSequenced(n) /\ n.seq \in Nat
  BY SequencedType DEF Sheet!AnswersTo, Sheet!MarksOf, Sheet!IsSequenced
<1>1. CASE ~Sheet!IsSequenced(m)
  <2>1. \A q \in Questions : /\ S[q].val = R[q].val /\ S[q].marked = R[q].marked
                             /\ S[q].exists = R[q].exists /\ S[q].seq = R[q].seq
    <3>1. CASE m \in Sheet!TimingMutation
      BY <3>1 DEF Sheet!TimingMutation, Sheet!Effect, Sheet!AddQuestionTime, Sheet!Row
    <3>2. CASE m \in Sheet!VisibilityMutation
      BY <3>2 DEF Sheet!VisibilityMutation, Sheet!Effect
    <3>3. QED
      BY <1>1, <3>1, <3>2 DEF Mutations, Sheet!Mutation, Sheet!AnswerMutation,
                              Sheet!MarkMutation, Sheet!IsSequenced
  <2>2. \A q : Sheet!AnswersTo(L \cup {m}, q) = A(q) /\ Sheet!MarksOf(L \cup {m}, q) = F(q)
    BY <1>1, AddedTo DEF Sheet!IsSequenced
  <2>3. QED
    BY <2>1, <2>2 DEF RowsShow
<1>2. ASSUME Sheet!IsSequenced(m)
      PROVE  Sheet!Writes(R, m) /\ m.q \in Questions /\ m.seq \in Nat
  <2>1. m.q \in Questions /\ m.seq \in Nat
    BY <1>2, SequencedType
  <2>2. \A n \in A(m.q) \cup F(m.q) : n.seq < m.seq
    BY <1>0, <1>2
  <2>3. QED
    BY <2>1, <2>2 DEF RowsShow, Sheet!Writes
<1>3. CASE m.kind = "answer"
  <2>1. Sheet!IsSequenced(m)
    BY <1>3 DEF Sheet!IsSequenced
  <2>2. /\ m.q \in Questions /\ m.seq \in Nat /\ m.kind # "mark"
        /\ S = Sheet!UpsertAnswer(R, m)
    BY <1>2, <1>3, <2>1 DEF Sheet!Effect
  <2>3. /\ S[m.q].exists /\ S[m.q].val = m.val /\ S[m.q].seq = m.seq
        /\ S[m.q].marked = R[m.q].marked
        /\ \A q \in Questions : q # m.q => S[q] = R[q]
    BY <2>2 DEF Sheet!UpsertAnswer, Sheet!Row
  <2>4. ShowsAnswer(m.val, A(m.q) \cup {m})
    BY <1>0, <2>1, <2>2, NewestIsShown
  <2>5. ASSUME NEW q \in Questions
        PROVE  /\ ShowsAnswer(S[q].val, Sheet!AnswersTo(L \cup {m}, q))
               /\ ShowsFlag(S[q].marked, Sheet!MarksOf(L \cup {m}, q))
               /\ S[q].exists => \E n \in Sheet!AnswersTo(L \cup {m}, q)
                                              \cup Sheet!MarksOf(L \cup {m}, q) : n.seq = S[q].seq
    <3>1. CASE q = m.q
      <4>1. /\ Sheet!AnswersTo(L \cup {m}, q) = A(q) \cup {m}
            /\ Sheet!MarksOf(L \cup {m}, q) = F(q)
        BY <1>3, <2>2, <3>1, AddedTo
      <4>2. QED
        BY <2>3, <2>4, <3>1, <4>1 DEF RowsShow
    <3>2. CASE q # m.q
      <4>1. /\ Sheet!AnswersTo(L \cup {m}, q) = A(q)
            /\ Sheet!MarksOf(L \cup {m}, q) = F(q)
        BY <3>2, AddedTo
      <4>2. QED
        BY <2>3, <3>2, <4>1 DEF RowsShow
    <3>3. QED
      BY <3>1, <3>2
  <2>6. QED
    BY <2>5 DEF RowsShow
<1>4. CASE m.kind = "mark"
  <2>1. Sheet!IsSequenced(m)
    BY <1>4 DEF Sheet!IsSequenced
  <2>2. /\ m.q \in Questions /\ m.seq \in Nat /\ m.kind # "answer"
        /\ S = Sheet!UpsertMark(R, m)
    BY <1>2, <1>4, <2>1 DEF Sheet!Effect
  <2>3. /\ S[m.q].exists /\ (S[m.q].marked <=> m.on) /\ S[m.q].seq = m.seq
        /\ S[m.q].val = R[m.q].val
        /\ \A q \in Questions : q # m.q => S[q] = R[q]
    BY <2>2 DEF Sheet!UpsertMark, Sheet!Row
  <2>4. ShowsFlag(S[m.q].marked, F(m.q) \cup {m})
    BY <1>0, <2>1, <2>2, <2>3, NewestIsShown
  <2>5. ASSUME NEW q \in Questions
        PROVE  /\ ShowsAnswer(S[q].val, Sheet!AnswersTo(L \cup {m}, q))
               /\ ShowsFlag(S[q].marked, Sheet!MarksOf(L \cup {m}, q))
               /\ S[q].exists => \E n \in Sheet!AnswersTo(L \cup {m}, q)
                                              \cup Sheet!MarksOf(L \cup {m}, q) : n.seq = S[q].seq
    <3>1. CASE q = m.q
      <4>1. /\ Sheet!AnswersTo(L \cup {m}, q) = A(q)
            /\ Sheet!MarksOf(L \cup {m}, q) = F(q) \cup {m}
        BY <1>4, <2>2, <3>1, AddedTo
      <4>2. QED
        BY <2>3, <2>4, <3>1, <4>1 DEF RowsShow
    <3>2. CASE q # m.q
      <4>1. /\ Sheet!AnswersTo(L \cup {m}, q) = A(q)
            /\ Sheet!MarksOf(L \cup {m}, q) = F(q)
        BY <3>2, AddedTo
      <4>2. QED
        BY <2>3, <3>2, <4>1 DEF RowsShow
    <3>3. QED
      BY <3>1, <3>2
  <2>6. QED
    BY <2>5 DEF RowsShow
<1>5. QED
  BY <1>1, <1>3, <1>4 DEF Sheet!IsSequenced

\* The device shows what it has just recorded.
LEMMA RecordedIsShown ==
    ASSUME NEW s \in AttemptState, NEW t, NEW K \in SUBSET Mutations, NEW m \in Mutations,
           Numbered(K, s.seq), DeviceShows(s, K),
           Answered(s, m, t) \/ Flagged(s, m, t)
    PROVE  /\ Sheet!IsSequenced(m) /\ m.seq = s.seq + 1 /\ t.seq = m.seq
           /\ \A n \in K : Sheet!IsSequenced(n) => n.seq < m.seq
           /\ Numbered(K \cup {m}, t.seq) /\ DeviceShows(t, K \cup {m})
<1>1. /\ Sheet!IsSequenced(m) /\ m.seq = s.seq + 1 /\ t.seq = m.seq /\ s.seq \in Nat
      /\ m.q \in Questions /\ m.seq \in Nat
  BY DEF Answered, Flagged, AttemptState, Sheet!AnswerMutation, Sheet!MarkMutation,
         Sheet!IsSequenced
<1>2. \A n \in K : Sheet!IsSequenced(n) => n.seq \in Nat /\ n.seq < m.seq
  BY <1>1, SequencedType DEF Numbered
<1>3. Numbered(K \cup {m}, t.seq)
  BY <1>1, <1>2 DEF Numbered
<1>4. \A q : \A n \in Sheet!AnswersTo(K, q) \cup Sheet!MarksOf(K, q) :
          n \in K /\ n.seq \in Nat /\ n.seq < m.seq
  BY <1>2 DEF Sheet!AnswersTo, Sheet!MarksOf, Sheet!IsSequenced
<1>5. CASE Answered(s, m, t)
  <2>1. /\ m.kind = "answer" /\ m.val \in Values
        /\ t.marked = s.marked
        /\ \A q \in Questions : t.resp[q] = IF q = m.q THEN m.val ELSE s.resp[q]
    BY <1>1, <1>5 DEF Answered, AttemptState, Sheet!AnswerMutation
  <2>2. AsRow(m.val) = m.val
    BY <2>1, EngineAssumption DEF AsRow
  <2>3. ASSUME NEW q \in Questions
        PROVE  /\ ShowsAnswer(AsRow(t.resp[q]), Sheet!AnswersTo(K \cup {m}, q))
               /\ ShowsFlag(q \in t.marked, Sheet!MarksOf(K \cup {m}, q))
    <3>1. Sheet!MarksOf(K \cup {m}, q) = Sheet!MarksOf(K, q)
      BY <2>1, AddedTo
    <3>2. ShowsFlag(q \in t.marked, Sheet!MarksOf(K \cup {m}, q))
      BY <2>1, <3>1 DEF DeviceShows
    <3>3. CASE q = m.q
      <4>1. Sheet!AnswersTo(K \cup {m}, q) = Sheet!AnswersTo(K, q) \cup {m}
        BY <2>1, <3>3, AddedTo
      <4>2. Sheet!AnswersTo(K, q) \subseteq Mutations
        BY DEF Sheet!AnswersTo
      <4>3. ShowsAnswer(m.val, Sheet!AnswersTo(K, q) \cup {m})
        BY <1>1, <1>4, <4>2, NewestIsShown
      <4>4. QED
        BY <2>1, <2>2, <3>2, <3>3, <4>1, <4>3
    <3>4. CASE q # m.q
      <4>1. Sheet!AnswersTo(K \cup {m}, q) = Sheet!AnswersTo(K, q)
        BY <3>4, AddedTo
      <4>2. QED
        BY <2>1, <3>2, <3>4, <4>1 DEF DeviceShows
    <3>5. QED
      BY <3>3, <3>4
  <2>4. QED
    BY <1>1, <1>2, <1>3, <2>3 DEF DeviceShows
<1>6. CASE Flagged(s, m, t)
  <2>1. /\ m.kind = "mark" /\ t.resp = s.resp /\ m.on \in BOOLEAN
        /\ t.marked = IF m.on THEN s.marked \cup {m.q} ELSE s.marked \ {m.q}
    BY <1>1, <1>6 DEF Flagged, AttemptState, Sheet!MarkMutation
  <2>2. /\ m.q \in t.marked <=> m.on
        /\ \A q \in Questions : q # m.q => (q \in t.marked <=> q \in s.marked)
    BY <2>1
  <2>3. ASSUME NEW q \in Questions
        PROVE  /\ ShowsAnswer(AsRow(t.resp[q]), Sheet!AnswersTo(K \cup {m}, q))
               /\ ShowsFlag(q \in t.marked, Sheet!MarksOf(K \cup {m}, q))
    <3>1. Sheet!AnswersTo(K \cup {m}, q) = Sheet!AnswersTo(K, q)
      BY <2>1, AddedTo
    <3>2. ShowsAnswer(AsRow(t.resp[q]), Sheet!AnswersTo(K \cup {m}, q))
      BY <2>1, <3>1 DEF DeviceShows
    <3>3. CASE q = m.q
      <4>1. Sheet!MarksOf(K \cup {m}, q) = Sheet!MarksOf(K, q) \cup {m}
        BY <2>1, <3>3, AddedTo
      <4>2. \A n \in Sheet!MarksOf(K \cup {m}, q) : n.seq <= m.seq
        BY <1>1, <1>2, <4>1 DEF Sheet!MarksOf, Sheet!IsSequenced
      <4>3. ShowsFlag(q \in t.marked, Sheet!MarksOf(K \cup {m}, q))
        BY <2>2, <3>3, <4>1, <4>2 DEF ShowsFlag
      <4>4. QED
        BY <3>2, <4>3
    <3>4. CASE q # m.q
      <4>1. Sheet!MarksOf(K \cup {m}, q) = Sheet!MarksOf(K, q)
        BY <3>4, AddedTo
      <4>2. ShowsFlag(q \in s.marked, Sheet!MarksOf(K, q))
        BY DEF DeviceShows
      <4>3. ShowsFlag(q \in t.marked, Sheet!MarksOf(K \cup {m}, q))
        BY <2>2, <3>4, <4>1, <4>2 DEF ShowsFlag
      <4>4. QED
        BY <3>2, <4>3
    <3>5. QED
      BY <3>3, <3>4
  <2>4. QED
    BY <1>1, <1>2, <1>3, <2>3 DEF DeviceShows
<1>7. QED
  BY <1>5, <1>6

\* The sitting of a page that was never reloaded: the device shows what it recorded,
\* the sheet what it has applied, and every batch is one the sheet can apply next.
InOrder ==
    /\ page = "loading" => ~disk.there
    /\ Sorted(outbox) /\ Numbered(Known, st.seq) /\ DeviceShows(st, Known)
    /\ Fit(call.batch, Known, ledger)
    /\ \A r \in strays : Fit(r.batch, Known, ledger)
    /\ Whole(ledger, Known) /\ RowsShow(rows, ledger)
    /\ tx.open => /\ Fit(tx.todo, Known, tx.ledger)
                  /\ Whole(tx.ledger, Known)
                  /\ RowsShow(tx.rows, tx.ledger)

LEMMA KnownType ==
    ASSUME TypeOK
    PROVE  Known \subseteq Mutations
BY EverywhereType DEF Known, Everywhere

\* What each step does to the sheet.
LEMMA SheetMoves ==
    ASSUME [Next]_vars
    PROVE  \/ UNCHANGED <<rows, ledger, tx>>
           \/ Sheet!Begin(call.batch)
           \/ \E r \in strays : Sheet!Begin(r.batch)
           \/ Sheet!ApplyNext \/ Commit \/ Sheet!Rollback
<1> USE DEF device, storage, sheet, server, net, clock
<1>1. CASE UNCHANGED vars
  BY <1>1 DEF vars
<1>2. CASE \/ Dispatch \/ Track \/ Flush \/ HandIn \/ FlushOk \/ FlushRefused \/ FlushFailed
           \/ BackoffElapsed \/ Online \/ HandedIn \/ HandInFailed \/ Reload \/ Restore
           \/ Persist \/ PutFails \/ AdmitCall \/ FindPost \/ ReadPost \/ ScorePost \/ TimeUp
  BY <1>2 DEF Dispatch, Track, Flush, HandIn, FlushOk, FlushRefused, FlushFailed,
              BackoffElapsed, Online, HandedIn, HandInFailed, Reload, Restore, Persist,
              PutFails, AdmitCall, FindPost, ReadPost, ScorePost, TimeUp
<1>3. CASE BeginCall \/ ApplyNext \/ Commit \/ Rollback
  BY <1>3 DEF BeginCall, ApplyNext, Rollback
<1>4. ASSUME NEW r \in strays, AdmitStray(r) \/ BeginStray(r)
      PROVE  UNCHANGED <<rows, ledger, tx>> \/ Sheet!Begin(r.batch)
  BY <1>4 DEF AdmitStray, BeginStray
<1>5. ASSUME NEW p \in strayPosts, FindStrayPost(p) \/ ReadStrayPost(p) \/ ScoreStrayPost(p)
      PROVE  UNCHANGED <<rows, ledger, tx>>
  BY <1>5 DEF FindStrayPost, ReadStrayPost, ScoreStrayPost
<1>6. QED
  BY <1>1, <1>2, <1>3, <1>4, <1>5 DEF Next

\* What each step does to the batches under way.
LEMMA BatchesMove ==
    ASSUME TypeOK, [Next]_vars
    PROVE  /\ call'.batch = call.batch \/ call'.batch = <<>> \/ call'.batch = outbox'
           /\ \A r \in strays' : r.batch = call.batch \/ \E x \in strays : r.batch = x.batch
<1> USE DEF device, storage, sheet, server, net, clock
<1>1. CASE UNCHANGED vars
  BY <1>1 DEF vars
<1>2. CASE \/ Dispatch \/ Track \/ BackoffElapsed \/ Online \/ HandedIn \/ HandInFailed
           \/ Restore \/ Persist \/ PutFails \/ ApplyNext
           \/ FindPost \/ ReadPost \/ ScorePost \/ TimeUp
  BY <1>2 DEF Dispatch, Track, BackoffElapsed, Online, HandedIn, HandInFailed, Restore,
              Persist, PutFails, ApplyNext, FindPost, ReadPost, ScorePost, TimeUp
<1>3. CASE Flush \/ HandIn
  BY <1>3 DEF Flush, HandIn, Sending
<1>4. CASE FlushOk \/ FlushRefused
  BY <1>4 DEF FlushOk, FlushRefused, NoCall
<1>5. ASSUME NEW S \in StraysLeft
      PROVE  \A r \in S : r.batch = call.batch \/ r \in strays
  BY DEF StraysLeft
<1>6. CASE FlushFailed \/ Reload
  <2>1. call'.batch = <<>> /\ strays' \in StraysLeft
    BY <1>6 DEF FlushFailed, Reload, NoCall
  <2>2. QED
    BY <1>5, <2>1
<1>7. CASE AdmitCall \/ BeginCall \/ Commit \/ Rollback
  BY <1>7 DEF AdmitCall, BeginCall, Commit, Rollback, Ends, TypeOK, CallType
<1>8. ASSUME NEW r \in strays, AdmitStray(r) \/ BeginStray(r)
      PROVE  call' = call /\ \A y \in strays' : \E x \in strays : y.batch = x.batch
  <2>1. [r EXCEPT !.phase = "admitted"].batch = r.batch
    BY DEF TypeOK, StrayType
  <2>2. QED
    BY <1>8, <2>1 DEF AdmitStray, BeginStray
<1>9. ASSUME NEW p \in strayPosts, FindStrayPost(p) \/ ReadStrayPost(p) \/ ScoreStrayPost(p)
      PROVE  call' = call /\ strays' = strays
  BY <1>9 DEF FindStrayPost, ReadStrayPost, ScoreStrayPost
<1>10. QED
  BY <1>1, <1>2, <1>3, <1>4, <1>6, <1>7, <1>8, <1>9 DEF Next

\* What is not the device's doing leaves its state alone.
LEMMA StateStays ==
    ASSUME [Next]_vars, ~Dispatch, ~HandIn, ~Reload, ~Restore
    PROVE  st' = st
<1> USE DEF device, storage, sheet, server, net, clock
<1>1. CASE UNCHANGED vars
  BY <1>1 DEF vars
<1>2. CASE \/ Track \/ Flush \/ FlushOk \/ FlushRefused \/ FlushFailed \/ BackoffElapsed
           \/ Online \/ HandedIn \/ HandInFailed \/ Persist \/ PutFails
  BY <1>2 DEF Track, Flush, FlushOk, FlushRefused, FlushFailed, BackoffElapsed, Online,
              HandedIn, HandInFailed, Persist, PutFails
<1>3. CASE \/ AdmitCall \/ BeginCall \/ ApplyNext \/ Commit \/ Rollback
           \/ FindPost \/ ReadPost \/ ScorePost \/ TimeUp
  BY <1>3 DEF AdmitCall, BeginCall, ApplyNext, Commit, Rollback, Ends, FindPost, ReadPost,
              ScorePost, TimeUp
<1>4. ASSUME NEW r \in strays, AdmitStray(r) \/ BeginStray(r)
      PROVE  st' = st
  BY <1>4 DEF AdmitStray, BeginStray
<1>5. ASSUME NEW p \in strayPosts, FindStrayPost(p) \/ ReadStrayPost(p) \/ ScoreStrayPost(p)
      PROVE  st' = st
  BY <1>5 DEF FindStrayPost, ReadStrayPost, ScoreStrayPost
<1>6. QED
  BY <1>1, <1>2, <1>3, <1>4, <1>5 DEF Next

\* An observation is not something the device shows.
LEMMA ObservedKnown ==
    ASSUME TypeOK, InOrder, NEW m \in Observation, Makes(m), ledger' = ledger, Unrecorded(st, st')
    PROVE  /\ Known' = Known \cup {m} /\ Sorted(outbox')
           /\ Numbered(Known', st'.seq) /\ DeviceShows(st', Known')
<1>1. m \in Mutations /\ ~Sheet!IsSequenced(m) /\ m.kind \notin {"answer", "mark"}
  BY ObservationType
<1>2. Known' = Known \cup {m}
  BY ElementsAppend DEF Known, Makes, TypeOK, Batch
<1>3. Sorted(outbox')
  BY <1>1, SortedAppend DEF Makes, InOrder, TypeOK, Batch
<1>4. Numbered(Known', st'.seq)
  BY <1>1, <1>2 DEF Numbered, InOrder, Unrecorded
<1>5. \A q : /\ Sheet!AnswersTo(Known', q) = Sheet!AnswersTo(Known, q)
             /\ Sheet!MarksOf(Known', q) = Sheet!MarksOf(Known, q)
  BY <1>1, <1>2, AddedTo
<1>6. DeviceShows(st', Known')
  BY <1>5 DEF DeviceShows, InOrder, Unrecorded
<1>7. QED
  BY <1>2, <1>3, <1>4, <1>6

\* The device keeps showing what it recorded, and records only what is newer.
DeviceGoesOn ==
    /\ Known \subseteq Known'
    /\ \A n \in Known' \ Known, m \in Known :
          Sheet!IsSequenced(m) /\ Sheet!IsSequenced(n) => m.seq < n.seq
    /\ page' = "loading" => ~disk'.there
    /\ Sorted(outbox') /\ Numbered(Known', st'.seq) /\ DeviceShows(st', Known')

LEMMA DeviceStays ==
    ASSUME TypeOK, Named, Custody, InOrder, [Next]_vars, ~Reload
    PROVE  DeviceGoesOn
<1>0. /\ page \in {"loading", "live"} /\ st \in AttemptState /\ outbox \in Seq(Mutations)
      /\ Known \subseteq Mutations
  BY KnownType DEF TypeOK, Batch
<1>1. ASSUME Known' = Known, Sorted(outbox'), page' = "loading" => ~disk'.there,
             st' = st \/ Unrecorded(st, st')
      PROVE  DeviceGoesOn
  <2>1. st'.seq = st.seq /\ st'.resp = st.resp /\ st'.marked = st.marked
    BY <1>1 DEF Unrecorded
  <2>2. QED
    BY <1>1, <2>1 DEF DeviceGoesOn, InOrder, DeviceShows
<1>2. ASSUME NEW m \in Observation, Makes(m), ledger' = ledger, Unrecorded(st, st'),
             page' = "loading" => ~disk'.there
      PROVE  DeviceGoesOn
  BY <1>2, ObservationType, ObservedKnown DEF DeviceGoesOn
<1>3. CASE Dispatch
  <2>1. UNCHANGED <<page, disk, ledger>>
    BY <1>3 DEF Dispatch, sheet
  <2>2. CASE outbox' = outbox /\ Unrecorded(st, st')
    BY <1>1, <2>1, <2>2 DEF Known, InOrder
  <2>3. ASSUME NEW m, Makes(m), Answered(st, m, st') \/ Flagged(st, m, st')
        PROVE  DeviceGoesOn
    <3>1. m \in Mutations /\ outbox' = Append(outbox, m) /\ Known' = Known \cup {m}
      BY <1>0, <2>1, <2>3, ElementsAppend DEF Makes, Known
    <3>2. /\ Sheet!IsSequenced(m) /\ \A n \in Known : Sheet!IsSequenced(n) => n.seq < m.seq
          /\ Numbered(Known \cup {m}, st'.seq) /\ DeviceShows(st', Known \cup {m})
      BY <1>0, <2>3, <3>1, RecordedIsShown DEF InOrder
    <3>3. Sorted(outbox')
      BY <1>0, <3>1, <3>2, SortedAppend DEF InOrder, Known
    <3>4. QED
      BY <2>1, <3>1, <3>2, <3>3 DEF DeviceGoesOn, InOrder
  <2>4. QED
    BY <1>3, <2>2, <2>3, DispatchMakes
<1>4. CASE Track
  <2>1. UNCHANGED <<page, disk, ledger>> /\ Unrecorded(st, st')
    BY <1>0, <1>4 DEF Track, storage, sheet, Unrecorded
  <2>2. page' = "loading" => ~disk'.there
    BY <2>1 DEF InOrder
  <2>3. QED
    BY <1>2, <1>4, <2>1, <2>2, TrackMakes
<1>5. CASE HandIn
  <2>1. page = "live" /\ page' = page /\ ledger' = ledger
    BY <1>5 DEF HandIn, sheet
  <2>2. Unrecorded(st, st')
    BY <1>0, <1>5, ReduceSubmit DEF HandIn
  <2>3. CASE outbox' = outbox
    BY <1>1, <2>1, <2>2, <2>3 DEF Known, InOrder
  <2>4. QED
    BY <1>2, <1>5, <2>1, <2>2, <2>3, HandInMakes
<1>6. CASE FlushOk
  <2>1. Known' = Known
    BY <1>6, FlushOkPrunes DEF Known
  <2>2. Sorted(outbox')
    BY <1>0, <1>6, PruneKeeps DEF FlushOk, InOrder
  <2>3. UNCHANGED <<page, disk, st>>
    BY <1>6 DEF FlushOk
  <2>4. QED
    BY <1>1, <2>1, <2>2, <2>3 DEF InOrder
<1>7. CASE Restore
  <2>1. UNCHANGED <<st, outbox, ledger>> /\ page' = "live"
    BY <1>7 DEF Restore, InOrder, sheet
  <2>2. QED
    BY <1>1, <2>1 DEF Known, InOrder
<1>8. CASE Persist
  <2>1. UNCHANGED <<page, st, outbox, ledger>> /\ page = "live"
    BY <1>8 DEF Persist, device, sheet
  <2>2. QED
    BY <1>1, <2>1 DEF Known, InOrder
<1>9. CASE HandedIn \/ PutFails
  <2>1. UNCHANGED <<page, disk, st, outbox, ledger>>
    BY <1>9 DEF HandedIn, PutFails, device, sheet
  <2>2. QED
    BY <1>1, <2>1 DEF Known, InOrder
<1>10. CASE ~(Dispatch \/ Track \/ HandIn \/ FlushOk \/ HandedIn \/ Reload \/ Restore \/ Persist \/ PutFails)
  <2>1. UNCHANGED <<page, disk, st, outbox>>
    BY <1>10, OthersElsewhere, StateStays DEF Elsewhere
  <2>2. ledger' = ledger \/ Commit
    BY SheetMoves DEF Sheet!Begin, Sheet!ApplyNext, Sheet!Rollback
  <2>3. ASSUME Commit
        PROVE  Known' = Known
    <3>1. tx.open /\ ledger' = tx.ledger
      BY <2>3 DEF Commit, Sheet!Commit
    <3>2. QED
      BY <2>1, <3>1 DEF Known, InOrder, Custody, Whole
  <2>4. QED
    BY <1>1, <2>1, <2>2, <2>3 DEF Known, InOrder
<1>11. QED
  BY <1>3, <1>4, <1>5, <1>6, <1>7, <1>8, <1>9, <1>10

\* The batches under way stay fit.
LEMMA BatchesStay ==
    ASSUME TypeOK, TypeOK', Custody, InOrder, DeviceGoesOn, [Next]_vars
    PROVE  /\ Fit(call'.batch, Known', ledger')
           /\ \A r \in strays' : Fit(r.batch, Known', ledger')
<1>1. ledger \subseteq ledger' /\ Known' \subseteq Mutations
  BY LedgerGrows, ElementsInSet DEF Known, TypeOK, Batch, Sheet!TypeOK, Mutations
<1>2. \A b : Fit(b, Known, ledger) => Fit(b, Known', ledger')
  BY <1>1, FitStays DEF DeviceGoesOn
<1>3. Fit(<<>>, Known', ledger')
  BY SortedEmpty, ElementsEmpty DEF Fit
<1>4. Fit(outbox', Known', ledger')
  BY DEF Fit, Known, DeviceGoesOn, TypeOK, Batch
<1>5. QED
  BY <1>2, <1>3, <1>4, BatchesMove DEF InOrder

\* The mutation at the head of the transaction is newer than all it has applied.
LEMMA HeadIsNewest ==
    ASSUME TypeOK, Named, InOrder, tx.open, tx.todo # <<>>,
           ~Sheet!Claimed(tx.ledger, Head(tx.todo))
    PROVE  \A n \in tx.ledger :
               Sheet!IsSequenced(n) /\ Sheet!IsSequenced(Head(tx.todo)) => n.seq < Head(tx.todo).seq
<1> DEFINE m == Head(tx.todo)
<1>1. /\ m \in Mutations /\ m \in Known /\ m \notin tx.ledger
      /\ Known \subseteq Mutations /\ tx.ledger \subseteq Known
  BY ElementsTail, KnownType DEF TypeOK, Sheet!TypeOK, InOrder, Fit, Whole, Sheet!Claimed, Mutations
<1> HIDE DEF m
<1>2. ASSUME NEW n \in tx.ledger, Sheet!IsSequenced(n), Sheet!IsSequenced(m)
      PROVE  n.seq < m.seq
  <2>1. n.seq \in Nat /\ m.seq \in Nat /\ n \in Known
    BY <1>1, <1>2, SequencedType
  <2>2. ~(m.seq < n.seq)
    BY <1>1, <1>2 DEF InOrder, Whole
  <2>3. m.seq # n.seq
    BY <1>1, <1>2, <2>1 DEF InOrder, Numbered
  <2>4. QED
    BY <2>1, <2>2, <2>3
<1>3. QED
  BY <1>2 DEF m

\* A transaction applies mutations in the order they were made.
LEMMA ApplyInOrder ==
    ASSUME TypeOK, Named, Custody, InOrder, Sheet!ApplyNext
    PROVE  /\ UNCHANGED <<rows, ledger>> /\ tx'.open
           /\ Fit(tx'.todo, Known, tx'.ledger) /\ Whole(tx'.ledger, Known)
           /\ RowsShow(tx'.rows, tx'.ledger)
<1> DEFINE m == Head(tx.todo)
           t == Tail(tx.todo)
           L == tx.ledger
<1>1. /\ tx.open /\ tx.todo \in Seq(Mutations) /\ tx.todo # <<>>
      /\ L \subseteq Mutations /\ tx.rows \in [Questions -> Sheet!Row]
      /\ Fit(tx.todo, Known, L) /\ Whole(L, Known) /\ RowsShow(tx.rows, L)
  BY DEF TypeOK, Sheet!TypeOK, Sheet!ApplyNext, InOrder, Mutations
<1>2. /\ m \in Mutations /\ t \in Seq(Mutations) /\ ToSet(tx.todo) = {m} \cup ToSet(t)
      /\ Sorted(t)
      /\ \A n \in ToSet(t) : Sheet!IsSequenced(m) /\ Sheet!IsSequenced(n) => m.seq < n.seq
  BY <1>1, ElementsTail, SortedTail DEF Fit
<1>3. /\ UNCHANGED <<rows, ledger>> /\ tx'.open /\ tx'.todo = t
      /\ tx'.rows = IF ~Sheet!Claimed(L, m) THEN Sheet!Effect(tx.rows, m) ELSE tx.rows
      /\ tx'.ledger = IF ~Sheet!Claimed(L, m) THEN L \cup {m} ELSE L
  BY <1>1 DEF Sheet!ApplyNext, TypeOK, Sheet!TypeOK
<1>4. Sheet!Claimed(L, m) => m \in L
  BY <1>2 DEF Sheet!Claimed, Named, Everywhere
<1>5. Sheet!Claimed(L, m) \/
          \A n \in L : Sheet!IsSequenced(n) /\ Sheet!IsSequenced(m) => n.seq < m.seq
  BY <1>1, HeadIsNewest
<1>6. Known \subseteq Mutations
  BY KnownType
<1> HIDE DEF m, t, L
<1>7. m \in tx'.ledger /\ L \subseteq tx'.ledger /\ tx'.ledger \subseteq L \cup {m}
  BY <1>3, <1>4
<1>8. Fit(t, Known, tx'.ledger)
  BY <1>1, <1>2, <1>7 DEF Fit
<1>9. Whole(tx'.ledger, Known)
  <2>1. ASSUME NEW n \in Known, Sheet!IsSequenced(m), Sheet!IsSequenced(n), n.seq < m.seq
        PROVE  n \in tx'.ledger
    <3>1. n \in ToSet(tx.todo) \cup L
      BY <1>1, <1>2, <2>1 DEF Fit
    <3>2. n \notin ToSet(t)
      <4>1. n.seq \in Nat /\ m.seq \in Nat
        BY <1>2, <1>6, <2>1, SequencedType
      <4>2. QED
        BY <1>2, <2>1, <4>1
    <3>3. QED
      BY <1>2, <1>7, <3>1, <3>2
  <2>2. m \in Known
    BY <1>1, <1>2 DEF Fit
  <2>3. QED
    BY <1>1, <1>7, <2>1, <2>2 DEF Whole
<1>10. RowsShow(tx'.rows, tx'.ledger)
  <2>1. CASE Sheet!Claimed(L, m)
    BY <1>1, <1>3, <2>1
  <2>2. CASE ~Sheet!Claimed(L, m)
    BY <1>1, <1>2, <1>3, <1>5, <2>2, AppliedInOrder
  <2>3. QED
    BY <2>1, <2>2
<1>11. QED
  BY <1>3, <1>8, <1>9, <1>10

\* Nothing is applied at first.
LEMMA NoRowsShow == RowsShow(Sheet!NoRows, {})
<1>1. \A q : Sheet!AnswersTo({}, q) = {} /\ Sheet!MarksOf({}, q) = {}
  BY DEF Sheet!AnswersTo, Sheet!MarksOf
<1>2. \A q \in Questions : /\ Sheet!NoRows[q].val = Blank /\ ~Sheet!NoRows[q].marked
                           /\ ~Sheet!NoRows[q].exists
  BY DEF Sheet!NoRows, Sheet!Absent
<1>3. QED
  BY <1>1, <1>2 DEF RowsShow, ShowsAnswer, ShowsFlag

\* The sheet stays in order.
LEMMA SheetStays ==
    ASSUME TypeOK, TypeOK', Named, Custody, InOrder, DeviceGoesOn, [Next]_vars
    PROVE  /\ Whole(ledger', Known') /\ RowsShow(rows', ledger')
           /\ tx'.open => /\ Fit(tx'.todo, Known', tx'.ledger)
                          /\ Whole(tx'.ledger, Known')
                          /\ RowsShow(tx'.rows, tx'.ledger)
<1>1. Known' \subseteq Mutations
  BY ElementsInSet DEF Known, TypeOK, Batch, Sheet!TypeOK, Mutations
<1>2. \A L : Whole(L, Known) => Whole(L, Known')
  BY <1>1, WholeStays DEF DeviceGoesOn
<1>3. \A b, L : Fit(b, Known, L) => Fit(b, Known', L)
  BY <1>1, FitStays DEF DeviceGoesOn
<1>4. CASE UNCHANGED <<rows, ledger, tx>>
  BY <1>2, <1>3, <1>4 DEF InOrder
<1>5. ASSUME NEW b, Fit(b, Known, ledger), Sheet!Begin(b)
      PROVE  /\ UNCHANGED <<rows, ledger>> /\ tx'.todo = b /\ tx'.rows = rows
             /\ tx'.ledger = ledger
  BY <1>5 DEF Sheet!Begin
<1>6. CASE Sheet!Begin(call.batch) \/ \E r \in strays : Sheet!Begin(r.batch)
  BY <1>2, <1>3, <1>5, <1>6 DEF InOrder
<1>7. CASE Sheet!ApplyNext
  BY <1>2, <1>3, <1>7, ApplyInOrder DEF InOrder
<1>8. CASE Commit
  <2>1. tx.open /\ ~tx'.open /\ rows' = tx.rows /\ ledger' = tx.ledger
    BY <1>8 DEF Commit, Sheet!Commit, Sheet!Closed
  <2>2. QED
    BY <1>2, <2>1 DEF InOrder
<1>9. CASE Sheet!Rollback
  <2>1. ~tx'.open /\ UNCHANGED <<rows, ledger>>
    BY <1>9 DEF Sheet!Rollback, Sheet!Closed
  <2>2. QED
    BY <1>2, <2>1 DEF InOrder
<1>10. QED
  BY <1>4, <1>6, <1>7, <1>8, <1>9, SheetMoves

LEMMA InitInOrder == Init => InOrder
<1> SUFFICES ASSUME Init PROVE InOrder
  OBVIOUS
<1>1. /\ outbox = <<>> /\ ledger = {} /\ rows = Sheet!NoRows /\ ~tx.open
      /\ call.batch = <<>> /\ strays = {} /\ ~disk.there /\ st = FreshState
  BY DEF Init, NoCall, Sheet!Init, Sheet!Closed, NoSnapshot
<1>2. Known = {}
  BY <1>1, ElementsEmpty DEF Known
<1>3. DeviceShows(st, {})
  <2>1. \A q : Sheet!AnswersTo({}, q) = {} /\ Sheet!MarksOf({}, q) = {}
    BY DEF Sheet!AnswersTo, Sheet!MarksOf
  <2>2. \A q \in Questions : AsRow(st.resp[q]) = Blank /\ q \notin st.marked
    BY <1>1 DEF FreshState, AsRow
  <2>3. QED
    BY <2>1, <2>2 DEF DeviceShows, ShowsAnswer, ShowsFlag
<1>4. Fit(<<>>, {}, {}) /\ Whole({}, {}) /\ Numbered({}, st.seq)
  BY SortedEmpty, ElementsEmpty DEF Fit, Whole, Numbered
<1>5. QED
  BY <1>1, <1>2, <1>3, <1>4, SortedEmpty, NoRowsShow DEF InOrder

\* Only a reload counts as one.
LEMMA ReloadsMove ==
    ASSUME TypeOK, [Next]_vars
    PROVE  reloads' = reloads \/ (Reload /\ reloads' # 0)
<1> USE DEF device, storage, sheet, server, net, clock
<1>1. CASE UNCHANGED vars
  BY <1>1 DEF vars
<1>2. CASE \/ Dispatch \/ Track \/ Flush \/ HandIn \/ FlushOk \/ FlushRefused \/ FlushFailed
           \/ BackoffElapsed \/ Online \/ HandedIn \/ HandInFailed \/ Restore \/ Persist
           \/ PutFails
  BY <1>2 DEF Dispatch, Track, Flush, HandIn, FlushOk, FlushRefused, FlushFailed,
              BackoffElapsed, Online, HandedIn, HandInFailed, Restore, Persist, PutFails
<1>3. CASE \/ AdmitCall \/ BeginCall \/ ApplyNext \/ Commit \/ Rollback
           \/ FindPost \/ ReadPost \/ ScorePost \/ TimeUp
  BY <1>3 DEF AdmitCall, BeginCall, ApplyNext, Commit, Rollback, Ends, FindPost, ReadPost,
              ScorePost, TimeUp
<1>4. ASSUME NEW r \in strays, AdmitStray(r) \/ BeginStray(r)
      PROVE  reloads' = reloads
  BY <1>4 DEF AdmitStray, BeginStray
<1>5. ASSUME NEW p \in strayPosts, FindStrayPost(p) \/ ReadStrayPost(p) \/ ScoreStrayPost(p)
      PROVE  reloads' = reloads
  BY <1>5 DEF FindStrayPost, ReadStrayPost, ScoreStrayPost
<1>6. CASE Reload
  BY <1>6 DEF Reload, TypeOK
<1>7. QED
  BY <1>1, <1>2, <1>3, <1>4, <1>5, <1>6 DEF Next

LEMMA InOrderStays ==
    ASSUME TypeOK, TypeOK', Named, Custody, InOrder,
           [Next]_vars, ~Reload
    PROVE  DeviceGoesOn /\ InOrder'
<1>1. DeviceGoesOn
  BY DeviceStays
<1>2. /\ Fit(call'.batch, Known', ledger')
      /\ \A r \in strays' : Fit(r.batch, Known', ledger')
  BY <1>1, BatchesStay
<1>3. /\ Whole(ledger', Known') /\ RowsShow(rows', ledger')
      /\ tx'.open => /\ Fit(tx'.todo, Known', tx'.ledger)
                     /\ Whole(tx'.ledger, Known')
                     /\ RowsShow(tx'.rows, tx'.ledger)
  BY <1>1, SheetStays
<1>4. QED
  BY <1>1, <1>2, <1>3, Zenon DEF InOrder, DeviceGoesOn

\* Nothing that the sheet shows is left in the queue.
Settled == \A m \in ToSet(outbox) : ~Sheet!IsSequenced(m)

\* A settled sheet shows what the device shows.
LEMMA SettledAgrees ==
    ASSUME TypeOK, InOrder, Settled
    PROVE  Agree
<1>1. ASSUME NEW q \in Questions
      PROVE  rows[q].val = AsRow(st.resp[q]) /\ rows[q].marked = (q \in st.marked)
  <2>1. Sheet!AnswersTo(Known, q) = Sheet!AnswersTo(ledger, q)
    BY DEF Settled, Known, Sheet!AnswersTo, Sheet!IsSequenced
  <2>2. Sheet!MarksOf(Known, q) = Sheet!MarksOf(ledger, q)
    BY DEF Settled, Known, Sheet!MarksOf, Sheet!IsSequenced
  <2>3. Known \subseteq Mutations
    BY KnownType
  <2> DEFINE A == Sheet!AnswersTo(Known, q)
             M == Sheet!MarksOf(Known, q)
  <2>4. /\ A \in SUBSET Mutations /\ M \in SUBSET Mutations
        /\ \A m \in A \cup M : Sheet!IsSequenced(m) /\ m \in Known
    BY <2>3 DEF Sheet!AnswersTo, Sheet!MarksOf, Sheet!IsSequenced
  <2>5. /\ ShowsAnswer(AsRow(st.resp[q]), A) /\ ShowsFlag(q \in st.marked, M)
        /\ ShowsAnswer(rows[q].val, A) /\ ShowsFlag(rows[q].marked, M)
    BY <2>1, <2>2 DEF InOrder, DeviceShows, RowsShow
  <2> HIDE DEF A, M
  <2>6. /\ \A m, n \in A : m.seq = n.seq => m = n
        /\ \A m, n \in M : m.seq = n.seq => m = n
    BY <2>4 DEF InOrder, Numbered
  <2>7. rows[q].marked \in BOOLEAN /\ (q \in st.marked) \in BOOLEAN
    BY DEF TypeOK, Sheet!TypeOK, Sheet!Row
  <2>8. rows[q].val = AsRow(st.resp[q])
    BY <2>4, <2>5, <2>6, ShownOnce
  <2>9. rows[q].marked = (q \in st.marked)
    BY <2>4, <2>5, <2>6, <2>7, ShownOnce
  <2>10. QED
    BY <2>8, <2>9
<1>2. QED
  BY <1>1 DEF Agree

\* A page that shows "Saved" has nothing in flight and nothing keeps it from sending.
Labelled == status = "saved" => call.phase = "none" /\ armed = "ready"

LEMMA LabelledStays == TypeOK /\ Custody /\ Labelled /\ [Next]_vars => Labelled'
<1> SUFFICES ASSUME TypeOK, Custody, Labelled, [Next]_vars PROVE Labelled'
  OBVIOUS
<1> USE DEF device, storage, sheet, server, net, clock, Labelled
<1>1. CASE UNCHANGED vars
  BY <1>1 DEF vars
<1>2. CASE Dispatch \/ Track \/ HandedIn \/ HandInFailed \/ Restore \/ Persist \/ PutFails
  BY <1>2 DEF Dispatch, Track, HandedIn, HandInFailed, Restore, Persist, PutFails
<1>3. CASE Flush \/ HandIn
  BY <1>3 DEF Flush, HandIn
<1>4. CASE FlushOk \/ FlushRefused \/ FlushFailed \/ BackoffElapsed \/ Online \/ Reload
  BY <1>4 DEF FlushOk, FlushRefused, FlushFailed, BackoffElapsed, Online, Reload, NoCall
<1>5. CASE AdmitCall \/ BeginCall
  BY <1>5 DEF AdmitCall, BeginCall
<1>6. CASE Commit \/ Rollback
  BY <1>6 DEF Commit, Rollback, Ends, Custody
<1>7. CASE ApplyNext \/ FindPost \/ ReadPost \/ ScorePost \/ TimeUp
  BY <1>7 DEF ApplyNext, FindPost, ReadPost, ScorePost, TimeUp
<1>8. ASSUME NEW r \in strays, AdmitStray(r) \/ BeginStray(r)
      PROVE  Labelled'
  BY <1>8 DEF AdmitStray, BeginStray
<1>9. ASSUME NEW p \in strayPosts, FindStrayPost(p) \/ ReadStrayPost(p) \/ ScoreStrayPost(p)
      PROVE  Labelled'
  BY <1>9 DEF FindStrayPost, ReadStrayPost, ScoreStrayPost
<1>10. QED
  BY <1>1, <1>2, <1>3, <1>4, <1>5, <1>6, <1>7, <1>8, <1>9 DEF Next

\* On a page that was never reloaded an empty outbox means the sheet shows what the
\* taker sees, and what "Saved" is shown over can be sent at once (use-attempt.ts flush
\* and dispatch), whether or not the taker acts before the page has restored.
THEOREM SavedIsSaved == Spec => []SavedMeansSaved
<1> DEFINE Inv == TypeOK /\ Named /\ Custody /\ Labelled /\ (reloads = 0 => InOrder)
<1>1. Init => Inv
  BY InitType, InitCustody, InitInOrder DEF Init, NoCall, Labelled
<1>2. Inv /\ [Next]_vars => Inv'
  <2> SUFFICES ASSUME Inv, [Next]_vars PROVE Inv'
    OBVIOUS
  <2>1. TypeOK' /\ Named' /\ Custody' /\ Labelled'
    BY NextType, NamedStays, CustodyStays, LabelledStays
  <2>2. ASSUME reloads' = 0 PROVE InOrder'
    <3>1. reloads = 0 /\ ~Reload
      BY <2>2, ReloadsMove DEF Reload, TypeOK
    <3>2. QED
      BY <2>1, <3>1, InOrderStays
  <2>3. QED
    BY <2>1, <2>2
<1>3. Inv => SavedMeansSaved
  <2>1. outbox = <<>> => Settled
    BY ElementsEmpty DEF Settled
  <2>2. QED
    BY <2>1, SettledAgrees DEF SavedMeansSaved, Labelled, CanFlush
<1>4. QED
  BY <1>1, <1>2, <1>3, PTL DEF Spec

(***************************************************************************)
(* The paper: what score() was given by a hand-in that found nothing queued. *)
(***************************************************************************)
LEMMA SettledAgreesNext == TypeOK' /\ InOrder' /\ Settled' => Agree'
<1>1. TypeOK /\ InOrder /\ Settled => Agree
  BY SettledAgrees
<1>2. QED
  BY <1>1, PTL

\* A state that was handed in takes no more answers.
LEMMA HandedInStays ==
    ASSUME TypeOK, Named, Custody, InOrder, [Next]_vars, ~Reload, st.submitted
    PROVE  st'.submitted /\ st'.resp = st.resp /\ (Settled => Settled')
<1>1. ~Dispatch
  BY ReduceAccepts DEF Dispatch, TypeOK
<1>2. CASE HandIn
  BY <1>2, ReduceSubmit, HandInQueues, ObservationType DEF HandIn, Unrecorded, TypeOK, Settled
<1>3. CASE Track
  BY <1>3, TrackQueues, ObservationType DEF Track, Settled
<1>4. CASE FlushOk
  BY <1>4, FlushOkPrunes DEF FlushOk, Settled
<1>5. CASE HandedIn \/ Restore \/ Persist \/ PutFails
  BY <1>5 DEF HandedIn, Restore, Persist, PutFails, InOrder, device, Settled
<1>6. CASE ~(Track \/ HandIn \/ FlushOk \/ HandedIn \/ Restore \/ Persist \/ PutFails)
  BY <1>1, <1>6, OthersElsewhere, StateStays DEF Elsewhere, Settled
<1>7. QED
  BY <1>2, <1>3, <1>4, <1>5, <1>6

\* What a settled sheet shows is final.
LEMMA SettledIsFinal ==
    ASSUME TypeOK, TypeOK', Named, Custody, InOrder,
           [Next]_vars, ~Reload, st.submitted, Settled
    PROVE  RowValues' = RowValues
<1>1. st'.resp = st.resp /\ Settled'
  BY HandedInStays
<1>2. Agree /\ Agree'
  BY <1>1, InOrderStays, SettledAgrees, SettledAgreesNext
<1>3. \A q \in Questions : rows'[q].val = rows[q].val
  BY <1>1, <1>2 DEF Agree
<1>4. QED
  BY <1>3 DEF RowValues

\* What the requests in flight may become.
Rephased(p, post2) ==
    \/ post2 = SubmitFind(p)
    \/ post2 = SubmitRead(p) /\ rows' = rows
    \/ post2 = [p EXCEPT !.phase = "ok"]

LEMMA PostsMove ==
    ASSUME TypeOK, [Next]_vars, ~Reload
    PROVE  /\ \/ post' = post \/ post' = NoPost \/ Rephased(post, post')
              \/ post' = Posting(outbox') /\ (HandIn \/ handing = "draining")
           /\ \A p \in strayPosts' :
                  p = post \/ p \in strayPosts \/ \E x \in strayPosts : Rephased(x, p)
           /\ \/ UNCHANGED <<submitted, paper>>
              \/ paper'.phase = "read" /\ (paper' = post \/ paper' \in strayPosts)
           /\ handing' = "draining" => handing = "draining" \/ HandIn
<1> USE DEF device, storage, sheet, server, net, clock
<1>1. CASE UNCHANGED vars
  BY <1>1 DEF vars
<1>2. CASE \/ Dispatch \/ Track \/ Flush \/ BackoffElapsed \/ Online \/ Restore \/ Persist
           \/ PutFails \/ AdmitCall \/ BeginCall \/ ApplyNext \/ TimeUp
  BY <1>2 DEF Dispatch, Track, Flush, BackoffElapsed, Online, Restore, Persist, PutFails,
              AdmitCall, BeginCall, ApplyNext, TimeUp
<1>3. CASE HandIn \/ FlushOk \/ FlushRefused \/ FlushFailed
  BY <1>3 DEF HandIn, FlushOk, FlushRefused, FlushFailed, ThenPost
<1>4. CASE HandedIn \/ Commit \/ Rollback
  BY <1>4 DEF HandedIn, Commit, Rollback, Ends
<1>5. CASE HandInFailed
  BY <1>5 DEF HandInFailed, StrayPostsLeft
<1>6. CASE FindPost \/ ReadPost \/ ScorePost
  BY <1>6 DEF FindPost, ReadPost, ScorePost, Rephased
<1>7. ASSUME NEW r \in strays, AdmitStray(r) \/ BeginStray(r)
      PROVE  UNCHANGED <<post, strayPosts, submitted, paper, handing>>
  BY <1>7 DEF AdmitStray, BeginStray
<1>8. ASSUME NEW p \in strayPosts, FindStrayPost(p) \/ ReadStrayPost(p) \/ ScoreStrayPost(p)
      PROVE  /\ UNCHANGED <<post, handing>>
             /\ \A y \in strayPosts' : y \in strayPosts \/ \E x \in strayPosts : Rephased(x, y)
             /\ \/ UNCHANGED <<submitted, paper>>
                \/ paper'.phase = "read" /\ paper' \in strayPosts
  <2>1. CASE FindStrayPost(p)
    <3>1. Rephased(p, SubmitFind(p))
      BY DEF Rephased
    <3>2. QED
      BY <2>1, <3>1 DEF FindStrayPost
  <2>2. CASE ReadStrayPost(p)
    <3>1. Rephased(p, SubmitRead(p))
      BY <2>2 DEF Rephased, ReadStrayPost
    <3>2. QED
      BY <2>2, <3>1 DEF ReadStrayPost
  <2>3. CASE ScoreStrayPost(p)
    BY <2>3 DEF ScoreStrayPost
  <2>4. QED
    BY <1>8, <2>1, <2>2, <2>3
<1>9. QED
  BY <1>1, <1>2, <1>3, <1>4, <1>5, <1>6, <1>7, <1>8 DEF Next

\* A hand-in that found nothing queued was closed to answers, and what it read is
\* what the sheet shows.
Drained(p) ==
    p.drained => st.submitted /\ Settled /\ (p.phase = "read" => p.seen = RowValues)

\* The same, after a step.
StaysDrained(p) ==
    p.drained => st'.submitted /\ Settled' /\ (p.phase = "read" => p.seen = RowValues')

Papers ==
    /\ handing = "draining" => st.submitted
    /\ Drained(post) /\ \A p \in strayPosts : Drained(p)
    /\ submitted => paper.phase = "read" /\ Drained(paper)

LEMMA PapersStay ==
    ASSUME TypeOK, TypeOK', Named, Custody, InOrder, Papers,
           [Next]_vars, ~Reload
    PROVE  Papers'
<1>1. st.submitted => st'.submitted
  BY HandedInStays
<1>2. st.submitted /\ Settled => st'.submitted /\ Settled' /\ RowValues' = RowValues
  BY HandedInStays, SettledIsFinal
<1>3. HandIn => st'.submitted
  BY ReduceSubmit DEF HandIn, TypeOK
<1>4. \A p : Drained(p) => StaysDrained(p)
  BY <1>2 DEF Drained, StaysDrained
<1>5. ASSUME NEW p \in PostType, NEW r, Drained(p), Rephased(p, r)
      PROVE  StaysDrained(r)
  <2>1. r.drained = p.drained
    BY <1>5 DEF Rephased, SubmitFind, SubmitRead, PostType
  <2>2. r.phase = "read" => r.seen = RowValues /\ rows' = rows
    BY <1>5 DEF Rephased, SubmitFind, SubmitRead, PostType
  <2>3. r.drained => st.submitted /\ Settled
    BY <1>5, <2>1 DEF Drained
  <2>4. QED
    BY <1>2, <2>2, <2>3 DEF StaysDrained
<1>6. /\ post \in PostType /\ strayPosts \subseteq PostType
      /\ Drained(post) /\ \A p \in strayPosts : Drained(p)
  BY DEF Papers, TypeOK
<1>7. handing' = "draining" => st'.submitted
  BY <1>1, <1>3, PostsMove DEF Papers
<1>8. StaysDrained(post')
  <2>1. CASE post' = NoPost
    BY <2>1 DEF StaysDrained, NoPost
  <2>2. CASE post' = Posting(outbox') /\ (HandIn \/ handing = "draining")
    <3>1. post'.drained => outbox' = <<>>
      BY <2>2 DEF Posting
    <3>2. outbox' = <<>> => Settled'
      BY ElementsEmpty DEF Settled
    <3>3. st'.submitted /\ post'.phase # "read"
      BY <1>1, <1>3, <2>2 DEF Papers, Posting
    <3>4. QED
      BY <3>1, <3>2, <3>3 DEF StaysDrained
  <2>3. QED
    BY <1>4, <1>5, <1>6, <2>1, <2>2, PostsMove
<1>9. \A p \in strayPosts' : StaysDrained(p)
  BY <1>4, <1>5, <1>6, PostsMove
<1>10. submitted' => paper'.phase = "read" /\ StaysDrained(paper')
  BY <1>4, <1>6, PostsMove DEF Papers
<1>11. QED
  BY <1>7, <1>8, <1>9, <1>10 DEF Papers, Drained, StaysDrained

LEMMA InitPapers == Init => Papers
BY DEF Init, Papers, Drained, NoPost

\* A hand-in that found the outbox empty is marked on what the taker sees, and nothing
\* reaches the sheet afterwards (submitAttempt reads the responses outside the
\* transaction that closes the attempt).
THEOREM DrainedPaperStaysWhole == Spec => []DrainedPaperIsWhole
<1> DEFINE Inv == /\ TypeOK /\ Named /\ Custody
                  /\ reloads = 0 => InOrder /\ Papers
<1>1. Init => Inv
  BY InitType, InitCustody, InitInOrder, InitPapers
<1>2. Inv /\ [Next]_vars => Inv'
  <2> SUFFICES ASSUME Inv, [Next]_vars PROVE Inv'
    OBVIOUS
  <2>1. TypeOK' /\ Named' /\ Custody'
    BY NextType, NamedStays, CustodyStays
  <2>2. ASSUME reloads' = 0 PROVE InOrder' /\ Papers'
    <3>1. reloads = 0 /\ ~Reload
      BY <2>2, ReloadsMove DEF Reload, TypeOK
    <3>2. QED
      BY <2>1, <3>1, InOrderStays, PapersStay
  <2>3. QED
    BY <2>1, <2>2
<1>3. Inv => DrainedPaperIsWhole
  BY SettledAgrees DEF DrainedPaperIsWhole, Papers, Drained
<1>4. QED
  BY <1>1, <1>2, <1>3, PTL DEF Spec

(***************************************************************************)
(* What the sheet promises a network that delivers anything it keeps in a  *)
(* sitting, whatever the page does.                                        *)
(***************************************************************************)
Alone == INSTANCE AnswerSheet_proofs WITH Ids <- Nat, MaxTimingDelta <- 1, Batches <- Batch

\* The batches of a sitting are those AnswerSheet assumes.
LEMMA SittingSendsBatches ==
    (\A batch \in Batch : batch \in Seq(Alone!Mutation)) /\ 1 \in Nat /\ Blank \notin Values
BY TakeAssumption
   DEF Batch, Mutations, Sheet!Mutation, Sheet!AnswerMutation, Sheet!MarkMutation,
       Sheet!TimingMutation, Sheet!VisibilityMutation, Alone!Mutation, Alone!AnswerMutation,
       Alone!MarkMutation, Alone!TimingMutation, Alone!VisibilityMutation

\* The server half of a sitting, reloads and all, is an answer sheet: every step of
\* TakeSync is a step of AnswerSheet or leaves rows, ledger and transaction alone.
THEOREM SittingUsesTheSheet == Spec => Alone!Spec
<1>1. Init => Alone!Init
  BY DEF Init, Sheet!Init, Sheet!NoRows, Sheet!Absent, Sheet!Closed,
         Alone!Init, Alone!NoRows, Alone!Absent, Alone!Closed
<1>2. TypeOK /\ [Next]_vars => [Alone!Next]_(Alone!vars)
  <2> SUFFICES ASSUME TypeOK, [Next]_vars PROVE [Alone!Next]_(Alone!vars)
    OBVIOUS
  <2>1. ASSUME NEW b \in Batch, Sheet!Begin(b)
        PROVE  Alone!Next
    BY <2>1 DEF Sheet!Begin, Alone!Begin, Alone!Next
  <2>2. call.batch \in Batch /\ \A r \in strays : r.batch \in Batch
    BY DEF TypeOK, CallType, StrayType
  <2>3. CASE Sheet!ApplyNext
    <3>1. Alone!ApplyNext
      BY <2>3 DEF Sheet!ApplyNext, Alone!ApplyNext, Sheet!Claimed, Alone!Claimed,
                  Sheet!Effect, Alone!Effect, Sheet!Writes, Alone!Writes,
                  Sheet!UpsertAnswer, Alone!UpsertAnswer, Sheet!UpsertMark, Alone!UpsertMark,
                  Sheet!AddQuestionTime, Alone!AddQuestionTime, Sheet!Clamp, Alone!Clamp
    <3>2. QED
      BY <3>1 DEF Alone!Next
  <2>4. CASE Commit \/ Sheet!Rollback
    BY <2>4 DEF Commit, Sheet!Commit, Alone!Commit, Sheet!Rollback, Alone!Rollback,
                Sheet!Closed, Alone!Closed, Sheet!NoRows, Alone!NoRows,
                Sheet!Absent, Alone!Absent, Alone!Next
  <2>5. CASE UNCHANGED <<rows, ledger, tx>>
    BY <2>5 DEF Alone!vars
  <2>6. QED
    BY <2>1, <2>2, <2>3, <2>4, <2>5, SheetMoves
<1>3. Spec => []TypeOK
  BY TakeSyncType
<1>4. QED
  BY <1>1, <1>2, <1>3, PTL DEF Spec, Alone!Spec

\* So a reload, a lost snapshot or numbers used twice never lose an applied mutation to
\* an older write, never leave a row no accepted mutation accounts for, never hide the
\* newest accepted answer but behind a newer flag, and never take the sheet back
\* (upsertAnswer, upsertMark, claimMutation, addQuestionTime).
THEOREM SheetKeepsItsWord ==
    Spec => /\ [](Alone!ClaimedIsReflected /\ Alone!RowIsClaimed /\ Alone!ShownIsNewest)
            /\ Alone!NothingGoesBack
<1>1. Alone!Spec => []Alone!ClaimedIsReflected
  BY SittingSendsBatches, Alone!AppliedIsReflected
<1>2. Alone!Spec => []Alone!RowIsClaimed
  BY SittingSendsBatches, Alone!RowsAreClaimed
<1>3. Alone!Spec => []Alone!ShownIsNewest
  BY SittingSendsBatches, Alone!NewestIsShown
<1>4. Alone!Spec => Alone!NothingGoesBack
  BY SittingSendsBatches, Alone!SheetMovesForward
<1>5. Spec => Alone!Spec
  BY SittingUsesTheSheet
<1>6. QED
  BY <1>1, <1>2, <1>3, <1>4, <1>5, PTL

================================================================================
