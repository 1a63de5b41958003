-------------------------- MODULE Authoring_proofs --------------------------
(***************************************************************************)
(* Proofs about Authoring, for any number of requests of any kind on a     *)
(* draft of any size.                                                      *)
(***************************************************************************)
EXTENDS Authoring, FiniteSetTheorems, WellFoundedInduction, TLAPS

(***************************************************************************)
(* Lists of questions.                                                     *)
(***************************************************************************)
LEMMA OneIndex ==
    ASSUME NEW S, NEW l \in Seq(S), IsInjective(l), NEW k \in 1 .. Len(l)
    PROVE  IndexIn(l, l[k]) = k - 1
BY DEF IndexIn, IsInjective

\* Position and id order the rows of a table.
LEMMA BeforeOrders ==
    ASSUME NEW p, NEW S \in SUBSET Ids, \A i \in S : p[i].pos \in Nat
    PROVE  /\ \A i \in S : ~Before(p, i, i)
           /\ \A i, j, k \in S : Before(p, i, j) /\ Before(p, j, k) => Before(p, i, k)
           /\ \A i, j \in S : i = j \/ Before(p, i, j) \/ Before(p, j, i)
<1>1. \A i \in S : i \in Nat
  BY AuthoringAssumption
<1>2. QED
  BY <1>1 DEF Before

\* How many rows come before a row.
Rank(p, i) == Cardinality({j \in There(p) : Before(p, j, i)})

LEMMA RankType ==
    ASSUME NEW p, \A i \in There(p) : p[i].pos \in Nat
    PROVE  /\ IsFiniteSet(There(p)) /\ Cardinality(There(p)) \in Nat
           /\ \A i \in There(p) : Rank(p, i) \in 0 .. Cardinality(There(p)) - 1
           /\ \A i, j \in There(p) : Before(p, i, j) => Rank(p, i) < Rank(p, j)
           /\ \A i, j \in There(p) : Rank(p, i) = Rank(p, j) => i = j
<1> DEFINE S == There(p)
           Pre(i) == {j \in S : Before(p, j, i)}
<1>1. S \in SUBSET Ids
  BY DEF There
<1>2. IsFiniteSet(S) /\ Cardinality(S) \in Nat
  BY <1>1, AuthoringAssumption, FS_Subset, FS_CardinalityType
<1>3. ASSUME NEW T \in SUBSET S, NEW U \in SUBSET T, U # T
      PROVE  Cardinality(U) \in Nat /\ Cardinality(T) \in Nat /\ Cardinality(U) < Cardinality(T)
  <2>1. IsFiniteSet(T)
    BY <1>2, FS_Subset
  <2>2. IsFiniteSet(U) /\ Cardinality(U) <= Cardinality(T) /\ Cardinality(U) # Cardinality(T)
    BY <1>3, <2>1, FS_Subset
  <2>3. Cardinality(U) \in Nat /\ Cardinality(T) \in Nat
    BY <2>1, <2>2, FS_CardinalityType
  <2>4. QED
    BY <2>2, <2>3
<1>4. /\ \A i \in S : ~Before(p, i, i)
      /\ \A i, j, k \in S : Before(p, i, j) /\ Before(p, j, k) => Before(p, i, k)
      /\ \A i, j \in S : i = j \/ Before(p, i, j) \/ Before(p, j, i)
  BY <1>1, BeforeOrders
<1> HIDE DEF S
<1>5. \A i \in S : Rank(p, i) = Cardinality(Pre(i)) /\ Pre(i) \in SUBSET S /\ Pre(i) # S
  BY <1>4 DEF Rank, S
<1>6. ASSUME NEW i \in S
      PROVE  Rank(p, i) \in Nat /\ Rank(p, i) < Cardinality(S)
  <2>1. S \in SUBSET S /\ Pre(i) \in SUBSET S /\ Pre(i) # S /\ Rank(p, i) = Cardinality(Pre(i))
    BY <1>5
  <2> HIDE DEF Pre
  <2>2. QED
    BY <1>3, <2>1
<1>7. ASSUME NEW i \in S, NEW j \in S, Before(p, i, j)
      PROVE  Rank(p, i) < Rank(p, j)
  <2>1. Pre(i) \in SUBSET Pre(j) /\ i \in Pre(j) /\ i \notin Pre(i)
    BY <1>4, <1>7
  <2>2. Pre(i) # Pre(j)
    BY <2>1
  <2> HIDE DEF Pre
  <2>3. QED
    BY <1>3, <1>5, <2>1, <2>2
<1>8. \A i, j \in S : Rank(p, i) = Rank(p, j) => i = j
  <2>1. \A i \in S : Rank(p, i) \in Nat
    BY <1>6
  <2>2. QED
    BY <1>4, <1>7, <2>1
<1>9. \A i \in S : Rank(p, i) \in 0 .. Cardinality(S) - 1
  BY <1>2, <1>6
<1>10. QED
  BY <1>2, <1>7, <1>8, <1>9 DEF S

\* Every place is taken.
LEMMA RankIsOnto ==
    ASSUME NEW p, \A i \in There(p) : p[i].pos \in Nat
    PROVE  \A k \in 0 .. Cardinality(There(p)) - 1 : \E i \in There(p) : Rank(p, i) = k
<1> DEFINE S == There(p)
           n == Cardinality(S)
           f == [i \in S |-> Rank(p, i)]
<1>1. /\ IsFiniteSet(S) /\ n \in Nat
      /\ \A i \in S : Rank(p, i) \in 0 .. n - 1
      /\ \A i, j \in S : Rank(p, i) = Rank(p, j) => i = j
  BY RankType
<1>2. IsFiniteSet(0 .. n - 1) /\ Cardinality(0 .. n - 1) = n
  BY <1>1, FS_Interval
<1>3. f \in Injection(S, 0 .. n - 1)
  BY <1>1 DEF Injection, IsInjective
<1> HIDE DEF f
<1>4. f \in Surjection(S, 0 .. n - 1)
  <2>1. Cardinality(S) = Cardinality(0 .. n - 1)
    BY <1>2
  <2> HIDE DEF S, n
  <2>2. QED
    BY <1>2, <1>3, <2>1, FS_Injection
<1>5. QED
  BY <1>4 DEF Surjection, f

\* InOrder lists the rows once each, in the order of position and id
\* (listQuestionIdsInOrder).
LEMMA InOrderLists ==
    ASSUME NEW p, \A i \in There(p) : p[i].pos \in Nat
    PROVE  LET list == InOrder(p)
           IN  /\ list \in Seq(Ids) /\ IsInjective(list) /\ ToSet(list) = There(p)
               /\ Len(list) = Cardinality(There(p)) /\ Len(list) \in Nat
               /\ \A a, b \in 1 .. Len(list) : Before(p, list[a], list[b]) <=> a < b
<1> DEFINE S == There(p)
           n == Cardinality(S)
           list == InOrder(p)
<1>1. /\ n \in Nat
      /\ \A i \in S : Rank(p, i) \in 0 .. n - 1
      /\ \A i, j \in S : Before(p, i, j) => Rank(p, i) < Rank(p, j)
      /\ \A i, j \in S : Rank(p, i) = Rank(p, j) => i = j
  BY RankType
<1>2. S \in SUBSET Ids
  BY DEF There
<1>3. \A i, j \in S : i = j \/ Before(p, i, j) \/ Before(p, j, i)
  BY <1>2, BeforeOrders
<1>4. list = [k \in 1 .. n |-> CHOOSE i \in S : Rank(p, i) = k - 1]
  BY DEF InOrder, Rank
<1>5. ASSUME NEW k \in 1 .. n
      PROVE  list[k] \in S /\ Rank(p, list[k]) = k - 1
  <2>1. k - 1 \in 0 .. n - 1
    BY <1>1
  <2>2. \E i \in S : Rank(p, i) = k - 1
    BY <2>1, RankIsOnto
  <2> HIDE DEF list, S, n
  <2>3. QED
    BY <1>4, <2>2
<1>6. list \in Seq(Ids) /\ Len(list) = n /\ DOMAIN list = 1 .. n
  <2>1. list \in [1 .. n -> Ids]
    <3>1. DOMAIN list = 1 .. n
      BY <1>4
    <3> HIDE DEF list, S, n
    <3>2. QED
      BY <1>2, <1>4, <1>5
  <2> HIDE DEF list, S, n
  <2>2. QED
    BY <1>1, <2>1
<1> HIDE DEF list, S, n
<1>7. IsInjective(list)
  BY <1>1, <1>5, <1>6 DEF IsInjective
<1>8. ToSet(list) = S
  <2>1. ASSUME NEW i \in S
        PROVE  \E k \in 1 .. n : list[k] = i
    <3>1. Rank(p, i) + 1 \in 1 .. n
      BY <1>1
    <3>2. Rank(p, list[Rank(p, i) + 1]) = Rank(p, i) /\ list[Rank(p, i) + 1] \in S
      BY <1>1, <1>5, <3>1
    <3>3. QED
      BY <1>1, <3>1, <3>2
  <2>2. QED
    BY <1>5, <1>6, <2>1 DEF ToSet
<1>9. ASSUME NEW a \in 1 .. n, NEW b \in 1 .. n
      PROVE  Before(p, list[a], list[b]) <=> a < b
  <2>1. /\ list[a] \in S /\ list[b] \in S
        /\ Rank(p, list[a]) = a - 1 /\ Rank(p, list[b]) = b - 1
    BY <1>5
  <2>2. CASE a < b
    BY <1>1, <1>3, <2>1, <2>2
  <2>3. CASE ~(a < b)
    BY <1>1, <2>1, <2>3
  <2>4. QED
    BY <2>2, <2>3
<1>10. QED
  BY <1>1, <1>6, <1>7, <1>8, <1>9 DEF list, S, n

(***************************************************************************)
(* Types.                                                                  *)
(***************************************************************************)
\* What a transaction may hold: rows of some of the ids.
Holding == UNION {[D -> Rows] : D \in SUBSET Ids}

Typed ==
    /\ status \in {"draft", "published"} /\ settings \in Requests \cup {0}
    /\ published \in Nat
    /\ paper \in [Ids -> Rows]
    /\ keyOf \in [Keys -> Ids \cup {0}] /\ made \in [Keys -> SUBSET Ids]
    /\ req \in [Requests -> Request(Holding)]
    /\ asked \subseteq Seq(Ids) /\ alone \in BOOLEAN

LEMMA HoldingRows ==
    ASSUME NEW w \in Holding
    PROVE  DOMAIN w \subseteq Ids /\ \A i \in DOMAIN w : w[i] \in Rows
BY DEF Holding

LEMMA IsHolding ==
    ASSUME NEW D \in SUBSET Ids, NEW w \in [D -> Rows]
    PROVE  w \in Holding
BY DEF Holding

LEMMA TypedIsTypeOK == Typed => TypeOK
<1> SUFFICES ASSUME Typed PROVE TypeOK
  OBVIOUS
<1>1. ASSUME NEW r \in Requests
      PROVE  LET held == req[r].writes
             IN  /\ req[r] \in Request({held}) /\ DOMAIN held \subseteq Ids
                 /\ \A i \in DOMAIN held : held[i] \in Rows
  <2>1. req[r] \in Request(Holding) /\ req[r].writes \in Holding
    BY DEF Typed, Request
  <2>2. req[r] \in Request({req[r].writes})
    BY <2>1 DEF Request
  <2>3. QED
    BY <2>1, <2>2, HoldingRows
<1>2. QED
  BY <1>1 DEF Typed, TypeOK

LEMMA RowTypes ==
    /\ NoQuestion \in Rows /\ Deleted \in Rows
    /\ \A pos \in Nat, ready \in BOOLEAN, by \in Requests \cup {0} :
          Question(pos, ready, by) \in Rows
BY DEF NoQuestion, Deleted, Question, Rows

LEMMA AtopHolding ==
    ASSUME NEW v \in Holding, NEW w \in Holding
    PROVE  /\ Atop(v, w) \in Holding /\ DOMAIN Atop(v, w) = DOMAIN v \cup DOMAIN w
           /\ \A i \in DOMAIN v \cup DOMAIN w :
                  Atop(v, w)[i] = IF i \in DOMAIN v THEN v[i] ELSE w[i]
<1> DEFINE D == DOMAIN v \cup DOMAIN w
           u == [i \in D |-> IF i \in DOMAIN v THEN v[i] ELSE w[i]]
<1>1. D \in SUBSET Ids /\ u \in [D -> Rows]
  BY HoldingRows
<1>2. u \in Holding
  BY <1>1, IsHolding
<1>3. QED
  BY <1>2 DEF Atop

LEMMA RowHolding ==
    ASSUME NEW i \in Ids, NEW row \in Rows
    PROVE  Row(i, row) \in Holding /\ DOMAIN Row(i, row) = {i} /\ Row(i, row)[i] = row
<1>1. {i} \in SUBSET Ids /\ Row(i, row) \in [{i} -> Rows]
  BY DEF Row
<1>2. QED
  BY <1>1, IsHolding DEF Row

LEMMA NoWritesHolding == NoWrites \in Holding /\ DOMAIN NoWrites = {}
<1>1. {} \in SUBSET Ids /\ NoWrites \in [{} -> Rows]
  BY DEF NoWrites
<1>2. QED
  BY <1>1, IsHolding DEF NoWrites

LEMMA IdleType ==
    /\ Idle \in Request(Holding) /\ Idle.writes = NoWrites /\ Idle.at = "idle"
    /\ [Idle EXCEPT !.at = "over"] \in Request(Holding)
    /\ [Idle EXCEPT !.at = "over"].at = "over"
    /\ [Idle EXCEPT !.at = "over"].writes = NoWrites
<1>1. <<>> \in Seq(Ids) /\ NoWrites \in Holding
  BY NoWritesHolding
<1>2. Idle \in Request(Holding)
  BY <1>1 DEF Idle, Request
<1>3. Idle.writes = NoWrites /\ Idle.at = "idle"
  BY DEF Idle
<1>4. QED
  BY <1>2, <1>3 DEF Request

LEMMA ViewType ==
    ASSUME Typed, NEW r \in Requests
    PROVE  /\ View(r) \in [Ids -> Rows]
           /\ \A i \in Ids : View(r)[i] = IF i \in DOMAIN req[r].writes
                                          THEN req[r].writes[i] ELSE paper[i]
<1>1. /\ req[r].writes \in Holding /\ paper \in [Ids -> Rows]
  BY DEF Typed, Request
<1>2. DOMAIN req[r].writes \subseteq Ids /\ \A i \in DOMAIN req[r].writes : req[r].writes[i] \in Rows
  BY <1>1, HoldingRows
<1>3. QED
  BY <1>1, <1>2 DEF View, Atop

(***************************************************************************)
(* A step of r is r's alone.                                               *)
(***************************************************************************)
Becomes(r, R) == /\ R \in Request(Holding) /\ req' \in [Requests -> Request(Holding)]
                 /\ req'[r] = R /\ \A o \in Requests : o # r => req'[o] = req[o]

LEMMA BecomesNext ==
    ASSUME Typed, NEW r \in Requests, NEW R \in Request(Holding), req' = [req EXCEPT ![r] = R]
    PROVE  Becomes(r, R)
BY DEF Typed, Becomes

LEMMA NowBecomes ==
    ASSUME Typed, NEW r \in Requests, NEW at, Now(r, at),
           at \in {"count", "insert", "commit", "place", "status"}
    PROVE  Becomes(r, [req[r] EXCEPT !.at = at])
<1>1. req[r] \in Request(Holding)
  BY DEF Typed
<1>2. [req[r] EXCEPT !.at = at] \in Request(Holding)
  BY <1>1 DEF Request
<1>3. QED
  BY <1>2, BecomesNext DEF Now

LEMMA OverBecomes ==
    ASSUME Typed, NEW r \in Requests, Over(r)
    PROVE  Becomes(r, [Idle EXCEPT !.at = "over"])
BY IdleType, BecomesNext DEF Over

LEMMA WritingBecomes ==
    ASSUME Typed, NEW r \in Requests, NEW w \in Holding, NEW at, Writing(r, w, at),
           at \in {"commit", "claim", "renumber"}
    PROVE  Becomes(r, [req[r] EXCEPT !.writes = Atop(w, req[r].writes), !.at = at])
<1>1. req[r] \in Request(Holding) /\ req[r].writes \in Holding
  BY DEF Typed, Request
<1>2. Atop(w, req[r].writes) \in Holding
  BY <1>1, AtopHolding
<1>3. [req[r] EXCEPT !.writes = Atop(w, req[r].writes), !.at = at] \in Request(Holding)
  BY <1>1, <1>2 DEF Request
<1>4. QED
  BY <1>3, BecomesNext DEF Writing

(***************************************************************************)
(* What a request is doing at each of its steps.                           *)
(***************************************************************************)
Shape(R) ==
    /\ R.at \notin {"claim", "renumber", "place", "commit"} => DOMAIN R.writes = {}
    /\ R.key # NoKey => R.op = "add"
    /\ R.at \in {"key", "lateKey", "count", "claim"} => R.op = "add"
    /\ R.at \in {"key", "lateKey", "claim"} => R.key # NoKey
    /\ R.at = "insert" => R.op = "add" \/ (R.op = "drafts" /\ R.n <= MaxDrafts)
    /\ R.at \in {"check", "status"} => R.op = "publish"
    /\ R.at = "save" => R.op = "update" /\ R.q \in Ids
    /\ R.at \in {"remove", "renumber"} => R.op = "delete" /\ R.q \in Ids
    /\ R.at = "list" => R.op = "reorder" /\ R.n = 0
    /\ R.at = "place" => R.op \in {"reorder", "delete"} /\ R.n <= Len(R.list)
    /\ R.at = "place" => IsInjective(R.list)
    /\ R.at = "commit" => R.op \in {"add", "drafts", "update", "publish"}

Beginnings == {"key", "lateKey", "count", "insert", "save", "remove", "list", "check", "set", "over"}

LEMMA BeginBecomes ==
    ASSUME Typed, NEW r \in Requests, Begin(r)
    PROVE  /\ Becomes(r, req'[r]) /\ Shape(req'[r])
           /\ req'[r].at \in Beginnings /\ (req'[r].at = "insert" => req'[r].op = "drafts")
           /\ req[r].at = "idle"
           /\ status = "published" => req'[r].at \in {"lateKey", "over"}
<1>1. PICK op \in Ops, q \in There(paper) \cup {0}, k \in Keys \cup {NoKey},
           n \in 0 .. MaxDrafts, ready \in BOOLEAN, list \in Lists \cup {<<>>} :
          /\ q # 0 <=> op \in {"update", "delete"}
          /\ k # NoKey => op = "add"
          /\ n # 0 <=> op = "drafts"
          /\ ready => op \in {"add", "update"}
          /\ list # <<>> <=> op = "reorder"
          /\ req' = [req EXCEPT ![r] = [Idle EXCEPT
                !.op = op, !.q = q, !.key = k, !.n = n, !.ready = ready, !.list = list,
                !.at = CASE op = "add" /\ k # NoKey -> IF status = "draft" THEN "key" ELSE "lateKey"
                         [] op = "add" /\ k = NoKey -> IF status = "draft" THEN "count" ELSE "over"
                         [] op # "add" -> IF status = "draft" THEN FirstStep[op] ELSE "over"]]
  BY DEF Begin, DraftSeen
<1> DEFINE at == CASE op = "add" /\ k # NoKey -> IF status = "draft" THEN "key" ELSE "lateKey"
                   [] op = "add" /\ k = NoKey -> IF status = "draft" THEN "count" ELSE "over"
                   [] op # "add" -> IF status = "draft" THEN FirstStep[op] ELSE "over"
           R == [Idle EXCEPT !.op = op, !.q = q, !.key = k, !.n = n, !.ready = ready,
                             !.list = list, !.at = at]
<1>2. op \in {"add", "drafts", "update", "delete", "reorder", "publish", "settings"}
  BY AuthoringAssumption
<1>3. /\ at \in Beginnings
      /\ status = "published" => at \in {"lateKey", "over"}
      /\ at \in {"key", "lateKey"} => op = "add" /\ k # NoKey
      /\ at = "count" => op = "add"
      /\ at = "insert" => op = "drafts"
      /\ at = "save" => op = "update"
      /\ at = "remove" => op = "delete"
      /\ at = "list" => op = "reorder"
      /\ at = "check" => op = "publish"
  BY <1>2 DEF FirstStep, Beginnings
<1>4. list \in Seq(Ids)
  <2>1. CASE list = <<>>
    BY <2>1
  <2>2. CASE list \in Lists
    <3>1. Lists \subseteq Seq(Ids)
      BY AuthoringAssumption
    <3>2. QED
      BY <2>2, <3>1
  <2>3. QED
    BY <2>1, <2>2
<1>5. q \in Ids \cup {0} /\ n \in Nat /\ n <= MaxDrafts
  BY AuthoringAssumption DEF There
<1> HIDE DEF at
<1>6. at \in {"idle", "key", "lateKey", "count", "insert", "claim", "save", "remove",
              "renumber", "list", "place", "check", "status", "set", "commit", "over"}
  BY <1>3 DEF Beginnings
<1>7. /\ R \in Request(Holding)
      /\ R.op = op /\ R.q = q /\ R.key = k /\ R.n = n /\ R.list = list /\ R.at = at
      /\ R.writes = NoWrites
  <2>1. /\ R.op = op /\ R.q = q /\ R.key = k /\ R.n = n /\ R.list = list /\ R.at = at
        /\ R.writes = NoWrites
    BY IdleType DEF Request
  <2>2. R \in Request(Holding)
    <3> DEFINE A == [Idle EXCEPT !.op = op, !.q = q, !.key = k]
               B == [A EXCEPT !.n = n, !.ready = ready, !.list = list]
    <3>1. A \in Request(Holding)
      BY <1>2, <1>5, IdleType DEF Request
    <3> HIDE DEF A
    <3>2. B \in Request(Holding)
      BY <1>4, <1>5, <3>1 DEF Request
    <3> HIDE DEF B
    <3>3. [B EXCEPT !.at = at] \in Request(Holding)
      BY <1>6, <3>2 DEF Request
    <3>4. QED
      BY <3>3 DEF A, B
  <2>3. QED
    BY <2>1, <2>2
<1>8. req' = [req EXCEPT ![r] = R]
  BY <1>1 DEF at, R
<1>9. Becomes(r, R) /\ req'[r] = R
  BY <1>7, <1>8, BecomesNext DEF Becomes
<1>10. Shape(R)
  BY <1>1, <1>3, <1>4, <1>5, <1>7, NoWritesHolding DEF Shape, Beginnings
<1>11. req[r].at = "idle"
  BY DEF Begin
<1>12. QED
  BY <1>3, <1>7, <1>9, <1>10, <1>11

(***************************************************************************)
(* The inductive invariant.                                                *)
(***************************************************************************)
\* What r holds: rows that were there before it or that are its own, none of them
\* half of one save and half of another.
Own(r, R, p) ==
    /\ R.at # "over" => \A i \in ToSet(NewIds[r]) : p[i].state = "unused"
    /\ \A i \in DOMAIN R.writes :
          /\ p[i].state = "there" \/ i \in ToSet(NewIds[r])
          /\ R.writes[i].state = "there" => R.writes[i].options = {R.writes[i].body}
    /\ R.op = "add" /\ R.at \in {"claim", "commit"} => \E i \in Ids : DOMAIN R.writes = {i}
    /\ R.op = "update" /\ R.at = "commit" => \A i \in DOMAIN R.writes : p[i].options = R.seen

\* What r holds, nobody else does.
Apart(r, R) ==
    \A o \in Requests \ {r} :
        /\ DOMAIN R.writes \cap DOMAIN req[o].writes = {}
        /\ R.at = "commit" /\ R.key # NoKey => ~Claimed(o, R.key)

Keyed(R, keys) == R.at = "commit" /\ R.key # NoKey => keys[R.key] = 0

Sound(r, R) == Shape(R) /\ Own(r, R, paper) /\ Keyed(R, keyOf) /\ Apart(r, R)

IInv ==
    /\ Typed
    /\ \A r \in Requests : Sound(r, req[r])
    /\ OptionsAreOfTheBody
    /\ KeyMadeOneQuestion

LEMMA RequestFields ==
    ASSUME NEW R \in Request(Holding)
    PROVE  /\ R.q \in Ids \cup {0} /\ R.list \in Seq(Ids) /\ R.key \in Keys \cup {NoKey}
           /\ R.n \in Nat /\ R.ready \in BOOLEAN /\ R.writes \in Holding
           /\ DOMAIN R.writes \subseteq Ids /\ \A i \in DOMAIN R.writes : R.writes[i] \in Rows
BY HoldingRows DEF Request

\* A request that held what it held goes on.
LEMMA NowFields ==
    ASSUME Typed, NEW r \in Requests, NEW at, Now(r, at),
           at \in {"count", "insert", "commit", "place", "status"}
    PROVE  /\ Becomes(r, req'[r]) /\ req'[r].at = at
           /\ req'[r].op = req[r].op /\ req'[r].q = req[r].q /\ req'[r].list = req[r].list
           /\ req'[r].key = req[r].key /\ req'[r].n = req[r].n /\ req'[r].seen = req[r].seen
           /\ req'[r].writes = req[r].writes
<1>1. Becomes(r, [req[r] EXCEPT !.at = at])
  BY NowBecomes
<1>2. req'[r] = [req[r] EXCEPT !.at = at] /\ req[r] \in Request(Holding)
  BY <1>1 DEF Becomes, Typed
<1>3. QED
  BY <1>1, <1>2 DEF Request

LEMMA WritingFields ==
    ASSUME Typed, NEW r \in Requests, NEW w \in Holding, NEW at, Writing(r, w, at),
           at \in {"commit", "claim", "renumber"}
    PROVE  /\ Becomes(r, req'[r]) /\ req'[r].at = at
           /\ req'[r].op = req[r].op /\ req'[r].q = req[r].q /\ req'[r].list = req[r].list
           /\ req'[r].key = req[r].key /\ req'[r].n = req[r].n /\ req'[r].seen = req[r].seen
           /\ req'[r].writes = Atop(w, req[r].writes)
<1>1. Becomes(r, [req[r] EXCEPT !.writes = Atop(w, req[r].writes), !.at = at])
  BY WritingBecomes
<1>2. /\ req'[r] = [req[r] EXCEPT !.writes = Atop(w, req[r].writes), !.at = at]
      /\ req[r] \in Request(Holding)
  BY <1>1 DEF Becomes, Typed
<1>3. QED
  BY <1>1, <1>2 DEF Request

LEMMA OverSound ==
    ASSUME IInv, NEW r \in Requests, Over(r)
    PROVE  /\ Becomes(r, req'[r]) /\ Sound(r, req'[r])
           /\ req'[r].at = "over" /\ req'[r].writes = NoWrites
<1> DEFINE R == [Idle EXCEPT !.at = "over"]
<1>1. Becomes(r, R) /\ req'[r] = R
  BY OverBecomes DEF IInv, Becomes
<1>2. R.at = "over" /\ R.key = NoKey /\ R.op = "none" /\ DOMAIN R.writes = {} /\ R.writes = NoWrites
  BY NoWritesHolding DEF Idle
<1> HIDE DEF R
<1>3. Shape(R) /\ Own(r, R, paper) /\ Keyed(R, keyOf) /\ Apart(r, R)
  BY <1>2 DEF Shape, Own, Keyed, Apart
<1>4. QED
  BY <1>1, <1>2, <1>3 DEF Sound

LEMMA BeginSound ==
    ASSUME IInv, NEW r \in Requests, Begin(r)
    PROVE  /\ Becomes(r, req'[r]) /\ Sound(r, req'[r])
           /\ req'[r].at \in Beginnings /\ (req'[r].at = "insert" => req'[r].op = "drafts")
<1>1. /\ Becomes(r, req'[r]) /\ Shape(req'[r])
      /\ req'[r].at \in Beginnings /\ req[r].at = "idle"
      /\ req'[r].at = "insert" => req'[r].op = "drafts"
  BY BeginBecomes DEF IInv
<1>2. DOMAIN req'[r].writes = {}
  BY <1>1 DEF Shape, Beginnings
<1>3. \A i \in ToSet(NewIds[r]) : paper[i].state = "unused"
  BY <1>1 DEF IInv, Sound, Own
<1>4. QED
  BY <1>1, <1>2, <1>3 DEF Sound, Own, Keyed, Apart, Beginnings

(***************************************************************************)
(* One lemma per statement.                                                *)
(***************************************************************************)
LEMMA LookUpKeySound ==
    ASSUME IInv, NEW r \in Requests, LookUpKey(r)
    PROVE  /\ Becomes(r, req'[r]) /\ Sound(r, req'[r])
           /\ req'[r].at \in {"over", "count"}
<1>1. CASE Over(r)
  BY <1>1, OverSound
<1>2. CASE req[r].at = "key" /\ Now(r, "count")
  <2>1. /\ Becomes(r, req'[r]) /\ req'[r].at = "count" /\ req'[r].op = req[r].op
        /\ req'[r].key = req[r].key /\ req'[r].writes = req[r].writes
    BY <1>2, NowFields DEF IInv
  <2>2. QED
    BY <1>2, <2>1 DEF IInv, Sound, Shape, Own, Keyed, Apart
<1>3. QED
  BY <1>1, <1>2 DEF LookUpKey

LEMMA CountSound ==
    ASSUME IInv, NEW r \in Requests, Count(r)
    PROVE  /\ Becomes(r, req'[r]) /\ Sound(r, req'[r])
           /\ req'[r].at = "insert" /\ req'[r].op = "add"
           /\ req'[r].n = Cardinality(There(paper))
<1> DEFINE n == Cardinality(There(paper))
           R == [req[r] EXCEPT !.at = "insert", !.n = n]
<1>1. req[r] \in Request(Holding) /\ req[r].at = "count"
  BY DEF IInv, Typed, Count
<1>2. n \in Nat
  BY RankType DEF IInv, Typed, There, Rows
<1> HIDE DEF n
<1>3. /\ R \in Request(Holding) /\ R.at = "insert" /\ R.op = req[r].op /\ R.n = n
      /\ R.key = req[r].key /\ R.writes = req[r].writes
  BY <1>1, <1>2 DEF Request
<1>4. req' = [req EXCEPT ![r] = R]
  BY DEF Count, n
<1>5. Becomes(r, R) /\ req'[r] = R
  BY <1>3, <1>4, BecomesNext DEF IInv, Becomes
<1>6. Sound(r, R)
  BY <1>1, <1>3 DEF IInv, Sound, Shape, Own, Keyed, Apart
<1>7. req[r].op = "add"
  BY <1>1 DEF IInv, Sound, Shape
<1>8. QED
  BY <1>3, <1>5, <1>6, <1>7 DEF n

LEMMA CheckListSound ==
    ASSUME IInv, NEW r \in Requests, CheckList(r)
    PROVE  /\ Becomes(r, req'[r]) /\ Sound(r, req'[r])
           /\ \/ req'[r].at = "over"
              \/ /\ req'[r].at = "place" /\ req'[r].op = "reorder" /\ req'[r].n = 0
                 /\ req'[r].list = req[r].list /\ SameSet(InOrder(paper), req[r].list)
                 /\ DOMAIN req'[r].writes = {}
<1>1. CASE Over(r)
  BY <1>1, OverSound
<1>2. CASE Now(r, "place") /\ SameSet(InOrder(paper), req[r].list)
  <2>1. /\ Becomes(r, req'[r]) /\ req'[r].at = "place" /\ req'[r].op = req[r].op
        /\ req'[r].key = req[r].key /\ req'[r].writes = req[r].writes
        /\ req'[r].n = req[r].n /\ req'[r].list = req[r].list
    BY <1>2, NowFields DEF IInv
  <2>2. req[r].at = "list" /\ Len(req[r].list) \in Nat
    BY RequestFields DEF CheckList, IInv, Typed
  <2>3. /\ req[r].op = "reorder" /\ req[r].n = 0 /\ IsInjective(req[r].list)
        /\ DOMAIN req[r].writes = {} /\ req[r].key = NoKey
    BY <1>2, <2>2 DEF IInv, Sound, Shape, SameSet
  <2>4. Sound(r, req'[r])
    BY <2>1, <2>2, <2>3 DEF IInv, Sound, Shape, Own, Keyed, Apart
  <2>5. QED
    BY <1>2, <2>1, <2>3, <2>4
<1>3. QED
  BY <1>1, <1>2 DEF CheckList

LEMMA CheckPaperSound ==
    ASSUME IInv, NEW r \in Requests, CheckPaper(r)
    PROVE  /\ Becomes(r, req'[r]) /\ Sound(r, req'[r])
           /\ req'[r].at \in {"over", "status"}
<1>1. CASE Over(r)
  BY <1>1, OverSound
<1>2. CASE Now(r, "status")
  <2>1. /\ Becomes(r, req'[r]) /\ req'[r].at = "status" /\ req'[r].op = req[r].op
        /\ req'[r].key = req[r].key /\ req'[r].writes = req[r].writes
    BY <1>2, NowFields DEF IInv
  <2>2. req[r].at = "check"
    BY DEF CheckPaper
  <2>3. QED
    BY <2>1, <2>2 DEF IInv, Sound, Shape, Own, Keyed, Apart
<1>3. QED
  BY <1>1, <1>2 DEF CheckPaper

LEMMA SetStatusSound ==
    ASSUME IInv, NEW r \in Requests, SetStatus(r)
    PROVE  /\ Becomes(r, req'[r]) /\ Sound(r, req'[r])
           /\ req'[r].at = "commit" /\ req'[r].op = "publish" /\ DOMAIN req'[r].writes = {}
<1>1. /\ Becomes(r, req'[r]) /\ req'[r].at = "commit" /\ req'[r].op = req[r].op
      /\ req'[r].key = req[r].key /\ req'[r].writes = req[r].writes
      /\ req[r].at = "status"
  BY NowFields DEF IInv, SetStatus
<1>2. req[r].op = "publish" /\ req[r].key = NoKey /\ DOMAIN req[r].writes = {}
  BY <1>1 DEF IInv, Sound, Shape
<1>3. QED
  BY <1>1, <1>2 DEF IInv, Sound, Shape, Own, Keyed, Apart

LEMMA ClaimSound ==
    ASSUME IInv, NEW r \in Requests, Claim(r)
    PROVE  /\ Becomes(r, req'[r]) /\ Sound(r, req'[r])
           /\ \/ req'[r].at = "over"
              \/ /\ req[r].at = "claim" /\ req'[r].at = "commit" /\ req'[r].op = req[r].op
                 /\ req'[r].writes = req[r].writes
<1>1. CASE Over(r)
  BY <1>1, OverSound
<1>2. CASE keyOf[req[r].key] = 0 /\ Now(r, "commit")
  <2>1. /\ Becomes(r, req'[r]) /\ req'[r].at = "commit" /\ req'[r].op = req[r].op
        /\ req'[r].key = req[r].key /\ req'[r].writes = req[r].writes
    BY <1>2, NowFields DEF IInv
  <2>2. req[r].at = "claim" /\ \A o \in Requests : ~Claimed(o, req[r].key)
    BY DEF Claim
  <2>3. req[r].op = "add" /\ req[r].key # NoKey
    BY <2>2 DEF IInv, Sound, Shape
  <2>4. Shape(req'[r]) /\ Keyed(req'[r], keyOf)
    BY <1>2, <2>1, <2>2, <2>3 DEF IInv, Sound, Shape, Keyed
  <2>5. Own(r, req'[r], paper)
    BY <2>1, <2>2, <2>3 DEF IInv, Sound, Own
  <2>6. Apart(r, req'[r])
    BY <2>1, <2>2 DEF IInv, Sound, Apart
  <2>7. QED
    BY <2>1, <2>2, <2>4, <2>5, <2>6 DEF Sound
<1>3. QED
  BY <1>1, <1>2 DEF Claim

LEMMA RenumberSound ==
    ASSUME IInv, NEW r \in Requests, Renumber(r)
    PROVE  /\ Becomes(r, req'[r]) /\ Sound(r, req'[r])
           /\ req[r].at = "renumber" /\ req'[r].at = "place" /\ req'[r].op = "delete"
           /\ req'[r].n = 0 /\ req'[r].list = InOrder(View(r))
           /\ req'[r].writes = req[r].writes
<1> DEFINE list == InOrder(View(r))
           R == [req[r] EXCEPT !.list = list, !.at = "place", !.n = 0]
<1>1. req[r] \in Request(Holding) /\ req[r].at = "renumber"
  BY DEF IInv, Typed, Renumber
<1>2. View(r) \in [Ids -> Rows]
  BY ViewType DEF IInv
<1>3. list \in Seq(Ids) /\ IsInjective(list) /\ Len(list) \in Nat
  <2>1. \A i \in There(View(r)) : View(r)[i].pos \in Nat
    BY <1>2 DEF There, Rows
  <2>2. QED
    BY <2>1, InOrderLists
<1> HIDE DEF list
<1>4. /\ R \in Request(Holding) /\ R.at = "place" /\ R.op = req[r].op /\ R.n = 0
      /\ R.key = req[r].key /\ R.writes = req[r].writes /\ R.list = list
  BY <1>1, <1>3 DEF Request
<1>5. req' = [req EXCEPT ![r] = R]
  BY DEF Renumber, list
<1>6. Becomes(r, R) /\ req'[r] = R
  BY <1>4, <1>5, BecomesNext DEF IInv, Becomes
<1>7. req[r].op = "delete" /\ req[r].key = NoKey
  BY <1>1 DEF IInv, Sound, Shape
<1>8. Sound(r, R)
  BY <1>1, <1>3, <1>4, <1>7 DEF IInv, Sound, Shape, Own, Keyed, Apart
<1>9. QED
  BY <1>1, <1>4, <1>6, <1>7, <1>8 DEF list

\* Ids of r's own are held by nobody else.
LEMMA OwnIdsApart ==
    ASSUME IInv, NEW r \in Requests, req[r].at # "over", NEW o \in Requests \ {r}
    PROVE  ToSet(NewIds[r]) \cap DOMAIN req[o].writes = {}
<1>1. \A i \in ToSet(NewIds[r]) : paper[i].state = "unused"
  BY DEF IInv, Sound, Own
<1>2. \A i \in DOMAIN req[o].writes : paper[i].state = "there" \/ i \in ToSet(NewIds[o])
  BY DEF IInv, Sound, Own
<1>3. ToSet(NewIds[r]) \cap ToSet(NewIds[o]) = {}
  BY AuthoringAssumption
<1>4. QED
  BY <1>1, <1>2, <1>3

\* What an insert holds.
LEMMA FirstIds ==
    ASSUME NEW r \in Requests, NEW m \in 0 .. MaxDrafts
    PROVE  LET ids == SubSeq(NewIds[r], 1, m)
           IN  /\ ToSet(ids) \subseteq ToSet(NewIds[r]) /\ ToSet(ids) \subseteq Ids
               /\ Len(ids) = m /\ ids \in Seq(Ids) /\ IsInjective(ids)
               /\ \A k \in 1 .. m : ids[k] = NewIds[r][k]
               /\ \A i \in ToSet(ids) : IndexIn(ids, i) \in 0 .. m - 1
               /\ m = 1 => ToSet(ids) = {NewIds[r][1]}
               /\ \A i \in ToSet(ids) : \E k \in 1 .. m : i = NewIds[r][k]
               /\ \A k \in 1 .. m : /\ NewIds[r][k] \in ToSet(ids)
                                    /\ IndexIn(ids, NewIds[r][k]) = k - 1
<1> DEFINE all == NewIds[r]
           ids == SubSeq(all, 1, m)
<1>1. all \in Seq(Ids) /\ m \in Nat /\ m <= Len(all) /\ Len(all) \in Nat /\ IsInjective(all)
  BY AuthoringAssumption
<1> HIDE DEF all
<1>2. ids \in Seq(Ids) /\ Len(ids) = m /\ \A k \in 1 .. m : ids[k] = all[k]
  BY <1>1
<1> HIDE DEF ids
<1>3. DOMAIN ids = 1 .. m /\ DOMAIN all = 1 .. Len(all) /\ 1 .. m \subseteq 1 .. Len(all)
  BY <1>1, <1>2
<1>4. IsInjective(ids)
  BY <1>1, <1>2, <1>3 DEF IsInjective
<1>5. ToSet(ids) \subseteq ToSet(all) /\ ToSet(ids) \subseteq Ids
  BY <1>1, <1>2, <1>3 DEF ToSet
<1>6. ASSUME NEW i \in ToSet(ids)
      PROVE  IndexIn(ids, i) \in 0 .. m - 1
  <2>1. PICK k \in 1 .. Len(ids) : i = ids[k]
    BY <1>2, <1>3 DEF ToSet
  <2>2. IndexIn(ids, ids[k]) = k - 1
    BY <1>2, <1>4, OneIndex
  <2>3. QED
    BY <1>1, <1>2, <2>1, <2>2
<1>7. m = 1 => ToSet(ids) = {all[1]}
  BY <1>2, <1>3 DEF ToSet
<1>8. ASSUME NEW k \in 1 .. m
      PROVE  all[k] \in ToSet(ids) /\ IndexIn(ids, all[k]) = k - 1
  <2>1. IndexIn(ids, ids[k]) = k - 1
    BY <1>2, <1>4, OneIndex
  <2>2. QED
    BY <1>2, <1>3, <2>1 DEF ToSet
<1>9. \A i \in ToSet(ids) : \E k \in 1 .. m : i = all[k]
  BY <1>2, <1>3 DEF ToSet
<1>10. QED
  BY <1>2, <1>4, <1>5, <1>6, <1>7, <1>8, <1>9 DEF ids, all

\* w holds m questions of r's own, from position first on.
Batch(r, w, first, m) ==
    /\ DOMAIN w \subseteq {NewIds[r][k] : k \in 1 .. m}
    /\ \A k \in 1 .. m : /\ NewIds[r][k] \in DOMAIN w
                         /\ w[NewIds[r][k]].state = "there" /\ w[NewIds[r][k]].pos = first + k - 1

LEMMA InsertSound ==
    ASSUME IInv, NEW r \in Requests, Insert(r)
    PROVE  /\ Becomes(r, req'[r]) /\ Sound(r, req'[r])
           /\ req[r].at = "insert" /\ req'[r].at \in {"commit", "claim"}
           /\ req'[r].op = req[r].op /\ req[r].op \in {"add", "drafts"}
           /\ \E m \in 0 .. MaxDrafts :
                Batch(r, req'[r].writes,
                      IF req[r].op = "drafts" THEN Cardinality(There(paper)) ELSE req[r].n, m)
<1> DEFINE drafts == req[r].op = "drafts"
           first == IF drafts THEN Cardinality(There(paper)) ELSE req[r].n
           m == IF drafts THEN req[r].n ELSE 1
           ids == SubSeq(NewIds[r], 1, m)
           w == [i \in ToSet(ids) |-> Question(first + IndexIn(ids, i), req[r].ready, r)]
           at == IF req[r].key = NoKey THEN "commit" ELSE "claim"
<1>1. req[r].at = "insert" /\ Writing(r, w, at)
  BY DEF Insert
<1>2. /\ req[r].op = "add" \/ (drafts /\ req[r].n <= MaxDrafts)
      /\ req[r].key # NoKey => req[r].op = "add"
      /\ DOMAIN req[r].writes = {}
  BY <1>1 DEF IInv, Sound, Shape
<1>3. req[r].n \in Nat /\ req[r].ready \in BOOLEAN /\ req[r].writes \in Holding
  BY RequestFields DEF IInv, Typed
<1>4. m \in 0 .. MaxDrafts /\ (req[r].op = "add" => m = 1)
  BY <1>2, <1>3, AuthoringAssumption
<1>5. first \in Nat
  <2>1. \A i \in There(paper) : paper[i].pos \in Nat
    BY DEF IInv, Typed, There, Rows
  <2>2. Cardinality(There(paper)) \in Nat
    BY <2>1, RankType
  <2>3. QED
    BY <1>3, <2>2
<1> HIDE DEF first, m
<1>6. /\ ToSet(ids) \subseteq ToSet(NewIds[r]) /\ ToSet(ids) \subseteq Ids
      /\ \A i \in ToSet(ids) : IndexIn(ids, i) \in 0 .. m - 1
      /\ m = 1 => ToSet(ids) = {NewIds[r][1]}
      /\ \A i \in ToSet(ids) : \E k \in 1 .. m : i = NewIds[r][k]
      /\ \A k \in 1 .. m : NewIds[r][k] \in ToSet(ids) /\ IndexIn(ids, NewIds[r][k]) = k - 1
  BY <1>4, FirstIds
<1> HIDE DEF ids
<1>7. /\ w \in Holding /\ DOMAIN w = ToSet(ids)
      /\ \A i \in DOMAIN w : /\ w[i].state = "there" /\ w[i].options = {w[i].body}
                             /\ w[i].pos = first + IndexIn(ids, i)
  <2>1. \A i \in ToSet(ids) : first + IndexIn(ids, i) \in Nat
    BY <1>4, <1>5, <1>6
  <2>2. w \in [ToSet(ids) -> Rows]
    BY <1>3, <2>1, RowTypes
  <2>3. QED
    BY <1>6, <2>2, IsHolding DEF Question
<1> HIDE DEF w
<1>8. at \in {"commit", "claim"}
  OBVIOUS
<1>9. /\ Becomes(r, req'[r]) /\ req'[r].at = at /\ req'[r].op = req[r].op
      /\ req'[r].key = req[r].key /\ req'[r].writes = Atop(w, req[r].writes)
  BY <1>1, <1>7, <1>8, WritingFields DEF IInv
<1>10. /\ DOMAIN req'[r].writes = ToSet(ids)
       /\ \A i \in ToSet(ids) : req'[r].writes[i] = w[i]
  <2> DEFINE u == req[r].writes
  <2>1. u \in Holding /\ DOMAIN u = {}
    BY <1>2, <1>3
  <2> HIDE DEF u
  <2>2. /\ DOMAIN Atop(w, u) = DOMAIN w \cup DOMAIN u
        /\ \A i \in DOMAIN w \cup DOMAIN u : Atop(w, u)[i] = IF i \in DOMAIN w THEN w[i] ELSE u[i]
    BY <1>7, <2>1, AtopHolding
  <2>3. req'[r].writes = Atop(w, u)
    BY <1>9 DEF u
  <2>4. QED
    BY <1>7, <2>1, <2>2, <2>3
<1>11. Shape(req'[r])
  BY <1>2, <1>9 DEF Shape
<1>12. Own(r, req'[r], paper)
  <2>1. \A i \in ToSet(NewIds[r]) : paper[i].state = "unused"
    BY <1>1 DEF IInv, Sound, Own
  <2>2. req[r].op = "add" => \E i \in Ids : DOMAIN req'[r].writes = {i}
    BY <1>4, <1>6, <1>10
  <2>3. req'[r].op # "update"
    BY <1>2, <1>9
  <2>4. QED
    BY <1>6, <1>7, <1>9, <1>10, <2>1, <2>2, <2>3 DEF Own
<1>13. Keyed(req'[r], keyOf)
  BY <1>9 DEF Keyed
<1>14. Apart(r, req'[r])
  BY <1>1, <1>6, <1>9, <1>10, OwnIdsApart DEF Apart
<1>15. Batch(r, req'[r].writes, first, m)
  <2>1. ASSUME NEW k \in 1 .. m
        PROVE  /\ NewIds[r][k] \in ToSet(ids) /\ w[NewIds[r][k]].state = "there"
               /\ w[NewIds[r][k]].pos = first + k - 1
    BY <1>4, <1>5, <1>6, <1>7
  <2>2. QED
    BY <1>6, <1>10, <2>1 DEF Batch
<1>16. QED
  BY <1>1, <1>2, <1>4, <1>9, <1>11, <1>12, <1>13, <1>14, <1>15 DEF Sound, first

LEMMA SaveSound ==
    ASSUME IInv, NEW r \in Requests, Save(r)
    PROVE  /\ Becomes(r, req'[r]) /\ Sound(r, req'[r])
           /\ \/ req'[r].at = "over"
              \/ \E q \in Ids :
                    /\ req'[r].at = "commit" /\ req'[r].op = "update"
                    /\ DOMAIN req'[r].writes = {q} /\ req'[r].writes[q].state = "there"
                    /\ paper[q].state = "there" /\ req'[r].writes[q].pos = paper[q].pos
<1> DEFINE q == req[r].q
           old == View(r)[q]
           row == Question(old.pos, req[r].ready, r)
           R == [req[r] EXCEPT !.writes = Row(q, row), !.seen = old.options, !.at = "commit"]
<1>1. CASE Over(r)
  BY <1>1, OverSound
<1>2. CASE old.state = "there" /\ req' = [req EXCEPT ![r] = R]
  <2>1. req[r].at = "save" /\ Free(r, q) /\ req[r] \in Request(Holding)
    BY DEF Save, IInv, Typed
  <2>2. req[r].op = "update" /\ q \in Ids /\ DOMAIN req[r].writes = {} /\ req[r].key = NoKey
    BY <2>1 DEF IInv, Sound, Shape
  <2>3. old = paper[q] /\ old \in Rows
    BY <2>2, ViewType DEF IInv
  <2>4. old.options \in SUBSET (Requests \cup {0}) /\ old.pos \in Nat /\ req[r].ready \in BOOLEAN
    BY <2>1, <2>3, RequestFields DEF Rows
  <2> HIDE DEF old, q
  <2>5. row \in Rows /\ row.state = "there" /\ row.options = {row.body} /\ row.pos = old.pos
    BY <2>4, RowTypes DEF Question
  <2> HIDE DEF row
  <2>6. Row(q, row) \in Holding /\ DOMAIN Row(q, row) = {q} /\ Row(q, row)[q] = row
    BY <2>2, <2>5, RowHolding
  <2>7. /\ R \in Request(Holding) /\ R.at = "commit" /\ R.op = req[r].op /\ R.key = req[r].key
        /\ R.writes = Row(q, row) /\ R.seen = old.options
    BY <2>1, <2>4, <2>6 DEF Request
  <2> HIDE DEF R
  <2>8. Becomes(r, R) /\ req'[r] = R
    BY <1>2, <2>7, BecomesNext DEF IInv, Becomes
  <2>9. Shape(R) /\ Keyed(R, keyOf)
    BY <2>2, <2>7 DEF Shape, Keyed
  <2>10. Own(r, R, paper)
    <3>1. \A i \in ToSet(NewIds[r]) : paper[i].state = "unused"
      BY <2>1 DEF IInv, Sound, Own
    <3>2. paper[q].state = "there"
      BY <1>2, <2>3
    <3>3. QED
      BY <2>2, <2>3, <2>5, <2>6, <2>7, <3>1, <3>2 DEF Own
  <2>11. Apart(r, R)
    BY <2>1, <2>2, <2>6, <2>7 DEF Apart, Free
  <2>12. /\ R.writes[q].state = "there" /\ paper[q].state = "there"
         /\ R.writes[q].pos = paper[q].pos
    BY <1>2, <2>3, <2>5, <2>6, <2>7
  <2>13. QED
    BY <2>2, <2>6, <2>7, <2>8, <2>9, <2>10, <2>11, <2>12 DEF Sound
<1>3. Over(r) \/ (old.state = "there" /\ req' = [req EXCEPT ![r] = R])
  <2>1. \/ Over(r)
        \/ /\ old.state = "there"
           /\ req' = [req EXCEPT ![r].writes = Row(q, row), ![r].seen = old.options, ![r].at = "commit"]
    BY DEF Save
  <2>2. QED
    BY <2>1
<1>4. QED
  BY <1>1, <1>2, <1>3

LEMMA DeleteRowSound ==
    ASSUME IInv, NEW r \in Requests, DeleteRow(r)
    PROVE  /\ Becomes(r, req'[r]) /\ Sound(r, req'[r])
           /\ req'[r].at = "renumber" /\ req'[r].op = "delete"
           /\ \A i \in DOMAIN req'[r].writes : req'[r].writes[i].state = "deleted"
<1> DEFINE q == req[r].q
           u == req[r].writes
           w == IF View(r)[q].state = "there" THEN Row(q, Deleted) ELSE NoWrites
<1>1. req[r].at = "remove" /\ Free(r, q) /\ Writing(r, w, "renumber")
  BY DEF DeleteRow
<1>2. req[r].op = "delete" /\ q \in Ids /\ DOMAIN u = {} /\ req[r].key = NoKey
  BY <1>1 DEF IInv, Sound, Shape
<1>3. u \in Holding
  BY RequestFields DEF IInv, Typed
<1>4. View(r)[q] = paper[q]
  BY <1>2, ViewType DEF IInv
<1> HIDE DEF q, u
<1>5. /\ w \in Holding /\ DOMAIN w \subseteq {q}
      /\ DOMAIN w # {} => paper[q].state = "there"
      /\ \A i \in DOMAIN w : w[i] = Deleted
  <2>1. Deleted \in Rows
    BY RowTypes
  <2>2. /\ Row(q, Deleted) \in Holding /\ DOMAIN Row(q, Deleted) = {q}
        /\ Row(q, Deleted)[q] = Deleted
    BY <1>2, <2>1, RowHolding
  <2>3. CASE View(r)[q].state = "there"
    BY <1>4, <2>2, <2>3
  <2>4. CASE View(r)[q].state # "there"
    BY <2>4, NoWritesHolding
  <2>5. QED
    BY <2>3, <2>4
<1> HIDE DEF w
<1>6. /\ Becomes(r, req'[r]) /\ req'[r].at = "renumber" /\ req'[r].op = req[r].op
      /\ req'[r].q = q /\ req'[r].key = req[r].key /\ req'[r].writes = Atop(w, u)
  BY <1>1, <1>5, WritingFields DEF IInv, q, u
<1>7. /\ DOMAIN req'[r].writes = DOMAIN w
      /\ \A i \in DOMAIN w : req'[r].writes[i] = Deleted
  <2>1. /\ DOMAIN Atop(w, u) = DOMAIN w \cup DOMAIN u
        /\ \A i \in DOMAIN w \cup DOMAIN u : Atop(w, u)[i] = IF i \in DOMAIN w THEN w[i] ELSE u[i]
    BY <1>3, <1>5, AtopHolding
  <2>2. QED
    BY <1>2, <1>5, <1>6, <2>1
<1>8. Shape(req'[r]) /\ Keyed(req'[r], keyOf)
  BY <1>2, <1>6 DEF Shape, Keyed
<1>9. Own(r, req'[r], paper)
  <2>1. \A i \in ToSet(NewIds[r]) : paper[i].state = "unused"
    BY <1>1 DEF IInv, Sound, Own
  <2>2. Deleted.state = "deleted"
    BY DEF Deleted, NoQuestion
  <2>3. QED
    BY <1>2, <1>5, <1>6, <1>7, <2>1, <2>2 DEF Own
<1>10. Apart(r, req'[r])
  BY <1>1, <1>5, <1>6, <1>7 DEF Apart, Free
<1>11. Deleted.state = "deleted"
  BY DEF Deleted, NoQuestion
<1>12. QED
  BY <1>2, <1>6, <1>7, <1>8, <1>9, <1>10, <1>11 DEF Sound

\* Of a list's row i, seen as v has it, what is held becomes w: i at position pos,
\* if it is there at all.
Puts(u, w, i, v, pos) ==
    IF v[i].state = "there"
      THEN /\ DOMAIN w = DOMAIN u \cup {i} /\ w[i].state = "there" /\ w[i].pos = pos
           /\ \A j \in DOMAIN u : j # i => w[j] = u[j]
      ELSE w = u

LEMMA PlaceSound ==
    ASSUME IInv, NEW r \in Requests, Place(r)
    PROVE  /\ Becomes(r, req'[r]) /\ Sound(r, req'[r])
           /\ req[r].at = "place" /\ req[r].n < Len(req[r].list)
           /\ req'[r].at = "place" /\ req'[r].op = req[r].op
           /\ req'[r].list = req[r].list /\ req'[r].n = req[r].n + 1
           /\ Puts(req[r].writes, req'[r].writes, req[r].list[req[r].n + 1], View(r), req[r].n)
<1> DEFINE i == req[r].list[req[r].n + 1]
           old == View(r)[i]
           u == req[r].writes
           row == [old EXCEPT !.pos = req[r].n]
           held == IF old.state = "there" THEN Atop(Row(i, row), u) ELSE u
           R == [req[r] EXCEPT !.writes = held, !.n = req[r].n + 1]
<1>1. req[r].at = "place" /\ req[r].n < Len(req[r].list) /\ Free(r, i)
  BY DEF Place
<1>2. /\ req[r] \in Request(Holding) /\ u \in Holding /\ req[r].n \in Nat
      /\ req[r].list \in Seq(Ids) /\ Len(req[r].list) \in Nat
      /\ DOMAIN u \subseteq Ids /\ \A j \in DOMAIN u : u[j] \in Rows
  BY RequestFields DEF IInv, Typed
<1>3. /\ req[r].op \in {"reorder", "delete"} /\ IsInjective(req[r].list)
      /\ req[r].key = NoKey
  BY <1>1 DEF IInv, Sound, Shape
<1>4. i \in Ids
  <2>1. req[r].n + 1 \in 1 .. Len(req[r].list)
    BY <1>1, <1>2
  <2>2. QED
    BY <1>2, <2>1
<1>5. /\ old = IF i \in DOMAIN u THEN u[i] ELSE paper[i]
      /\ old \in Rows
  BY <1>4, ViewType DEF IInv
<1>6. req' = [req EXCEPT ![r] = R]
  BY DEF Place
<1> HIDE DEF i, u
<1>7. old.state = "there" =>
         /\ paper[i].state = "there" \/ i \in ToSet(NewIds[r])
         /\ old.options = {old.body}
  BY <1>4, <1>5 DEF IInv, Sound, Own, OptionsAreOfTheBody, There, u
<1> HIDE DEF old
<1>8. /\ row \in Rows /\ row.options = old.options /\ row.body = old.body
  BY <1>2, <1>5 DEF Rows
<1>9. row.pos = req[r].n /\ row.state = old.state
  BY <1>5 DEF Rows
<1> HIDE DEF row
<1>10. Row(i, row) \in Holding /\ DOMAIN Row(i, row) = {i} /\ Row(i, row)[i] = row
  BY <1>4, <1>8, RowHolding
<1>11. /\ held \in Holding /\ DOMAIN held \subseteq DOMAIN u \cup {i}
       /\ \A j \in DOMAIN held : \/ j \in DOMAIN u /\ held[j] = u[j]
                                 \/ j = i /\ old.state = "there" /\ held[j] = row
       /\ IF old.state = "there"
            THEN /\ DOMAIN held = DOMAIN u \cup {i} /\ held[i] = row
                 /\ \A j \in DOMAIN u : j # i => held[j] = u[j]
            ELSE held = u
  <2>1. CASE old.state = "there"
    <3>1. /\ Atop(Row(i, row), u) \in Holding
          /\ DOMAIN Atop(Row(i, row), u) = {i} \cup DOMAIN u
          /\ \A j \in {i} \cup DOMAIN u :
                Atop(Row(i, row), u)[j] = IF j \in {i} THEN Row(i, row)[j] ELSE u[j]
      <4> DEFINE v == Row(i, row)
      <4>1. v \in Holding /\ DOMAIN v = {i}
        BY <1>10
      <4> HIDE DEF v
      <4>2. /\ Atop(v, u) \in Holding /\ DOMAIN Atop(v, u) = DOMAIN v \cup DOMAIN u
            /\ \A j \in DOMAIN v \cup DOMAIN u :
                  Atop(v, u)[j] = IF j \in DOMAIN v THEN v[j] ELSE u[j]
        BY <1>2, <4>1, AtopHolding
      <4>3. QED
        BY <4>1, <4>2 DEF v
    <3>2. held = Atop(Row(i, row), u)
      BY <2>1
    <3> HIDE DEF held
    <3>3. QED
      BY <1>10, <2>1, <3>1, <3>2
  <2>2. CASE old.state # "there"
    BY <1>2, <2>2
  <2>3. QED
    BY <2>1, <2>2
<1> HIDE DEF held
<1>12. /\ R \in Request(Holding) /\ R.at = req[r].at /\ R.op = req[r].op /\ R.key = req[r].key
       /\ R.n = req[r].n + 1 /\ R.list = req[r].list /\ R.writes = held
  <2>1. req[r].n + 1 \in Nat /\ held \in Holding
    BY <1>2, <1>11
  <2>2. QED
    BY <1>2, <2>1 DEF Request
<1> HIDE DEF R
<1>13. Becomes(r, R) /\ req'[r] = R
  BY <1>6, <1>12, BecomesNext DEF IInv, Becomes
<1>14. Shape(R) /\ Keyed(R, keyOf)
  BY <1>1, <1>2, <1>3, <1>12 DEF Shape, Keyed
<1>15. Own(r, R, paper)
  <2>1. \A j \in ToSet(NewIds[r]) : paper[j].state = "unused"
    BY <1>1 DEF IInv, Sound, Own
  <2>2. \A j \in DOMAIN u :
           /\ paper[j].state = "there" \/ j \in ToSet(NewIds[r])
           /\ u[j].state = "there" => u[j].options = {u[j].body}
    BY DEF IInv, Sound, Own, u
  <2>3. QED
    BY <1>1, <1>3, <1>7, <1>8, <1>11, <1>12, <2>1, <2>2 DEF Own
<1>16. Apart(r, R)
  <2>1. \A o \in Requests \ {r} : DOMAIN u \cap DOMAIN req[o].writes = {}
    BY DEF IInv, Sound, Apart, u
  <2>2. \A o \in Requests \ {r} : i \notin DOMAIN req[o].writes
    BY <1>1 DEF Free, i
  <2>3. QED
    BY <1>3, <1>11, <1>12, <2>1, <2>2 DEF Apart
<1>17. Puts(u, R.writes, i, View(r), req[r].n)
  BY <1>9, <1>11, <1>12 DEF Puts, old
<1>18. QED
  BY <1>1, <1>12, <1>13, <1>14, <1>15, <1>16, <1>17 DEF Sound, i, u

(***************************************************************************)
(* A step of r leaves the others sound.                                    *)
(***************************************************************************)
LEMMA RestSound ==
    ASSUME IInv, NEW r \in Requests, Becomes(r, req'[r]), Sound(r, req'[r]),
           UNCHANGED <<paper, keyOf, made>>,
           (Typed)'
    PROVE  IInv'
<1>1. /\ req'[r] \in Request(Holding)
      /\ \A o \in Requests : o # r => req'[o] = req[o]
  BY DEF Becomes
<1>2. Sound(r, req[r])'
  <2>1. Shape(req'[r]) /\ Own(r, req'[r], paper') /\ Keyed(req'[r], keyOf')
    BY DEF Sound
  <2>2. Apart(r, req[r])'
    BY <1>1 DEF Sound, Apart, Claimed
  <2>3. QED
    BY <2>1, <2>2 DEF Sound
<1>3. ASSUME NEW o \in Requests, o # r
      PROVE  Sound(o, req[o])'
  <2>1. req'[o] = req[o] /\ Sound(o, req[o])
    BY <1>1, <1>3 DEF IInv
  <2>2. Shape(req'[o]) /\ Own(o, req'[o], paper') /\ Keyed(req'[o], keyOf')
    BY <2>1 DEF Sound
  <2>3. Apart(o, req[o])'
    <3>1. DOMAIN req[o].writes \cap DOMAIN req'[r].writes = {}
      BY <1>3 DEF Sound, Apart
    <3>2. ASSUME req[o].at = "commit", req[o].key # NoKey
          PROVE  ~Claimed(r, req[o].key)'
      <4>1. Claimed(o, req[o].key)
        BY <2>1, <3>2 DEF Sound, Shape, Claimed
      <4>2. QED
        BY <1>3, <2>1, <3>2, <4>1 DEF Sound, Apart, Claimed
    <3>3. ASSUME NEW x \in Requests \ {o}, x # r
          PROVE  /\ DOMAIN req[o].writes \cap DOMAIN req'[x].writes = {}
                 /\ req[o].at = "commit" /\ req[o].key # NoKey => ~Claimed(x, req[o].key)'
      BY <1>1, <2>1, <3>3 DEF Sound, Apart, Claimed
    <3>4. QED
      BY <2>1, <3>1, <3>2, <3>3 DEF Apart
  <2>4. QED
    BY <2>2, <2>3 DEF Sound
<1>4. OptionsAreOfTheBody' /\ KeyMadeOneQuestion'
  BY DEF IInv, OptionsAreOfTheBody, KeyMadeOneQuestion, There
<1>5. QED
  BY <1>2, <1>3, <1>4 DEF IInv

\* What a commit makes of the paper.
LEMMA InstalledRows ==
    ASSUME IInv, NEW r \in Requests, req[r].at = "commit" \/ Placed(r)
    PROVE  /\ Installed(r) \in [Ids -> Rows]
           /\ \A i \in Ids \ DOMAIN req[r].writes : Installed(r)[i] = paper[i]
           /\ \A i \in DOMAIN req[r].writes :
                 /\ Installed(r)[i].state = "there" => Installed(r)[i].options = {Installed(r)[i].body}
                 /\ Installed(r)[i].state = req[r].writes[i].state
                 /\ Installed(r)[i].pos = req[r].writes[i].pos
<1> DEFINE u == req[r].writes
           row(i) == [u[i] EXCEPT !.options = (paper[i].options \ req[r].seen) \cup u[i].options]
<1>1. /\ DOMAIN u \subseteq Ids /\ \A i \in DOMAIN u : u[i] \in Rows
      /\ paper \in [Ids -> Rows]
  BY RequestFields DEF IInv, Typed
<1>2. \A i \in DOMAIN u : u[i].state = "there" => u[i].options = {u[i].body}
  BY DEF IInv, Sound, Own
<1>3. req[r].op = "update" => \A i \in DOMAIN u : paper[i].options = req[r].seen
  <2>1. req[r].op = "update" => req[r].at = "commit"
    BY DEF IInv, Sound, Shape, Placed
  <2>2. QED
    BY <2>1 DEF IInv, Sound, Own
<1>4. Installed(r) = [i \in Ids |-> IF i \notin DOMAIN u THEN paper[i]
                                    ELSE IF req[r].op = "update" THEN row(i) ELSE u[i]]
  BY DEF Installed
<1> HIDE DEF u
<1>5. ASSUME NEW i \in DOMAIN u
      PROVE  /\ row(i) \in Rows /\ row(i).state = u[i].state /\ row(i).body = u[i].body
             /\ row(i).pos = u[i].pos
             /\ row(i).options = (paper[i].options \ req[r].seen) \cup u[i].options
  <2>1. u[i] \in Rows /\ paper[i] \in Rows
    BY <1>1
  <2>2. (paper[i].options \ req[r].seen) \cup u[i].options \in SUBSET (Requests \cup {0})
    BY <2>1 DEF Rows
  <2>3. QED
    BY <2>1, <2>2 DEF Rows
<1> HIDE DEF row
<1>6. Installed(r) \in [Ids -> Rows]
  BY <1>1, <1>4, <1>5
<1>7. \A i \in Ids \ DOMAIN u : Installed(r)[i] = paper[i]
  BY <1>4
<1>8. ASSUME NEW i \in DOMAIN u, Installed(r)[i].state = "there"
      PROVE  Installed(r)[i].options = {Installed(r)[i].body}
  <2>1. CASE req[r].op = "update"
    <3>1. Installed(r)[i] = row(i)
      BY <1>1, <1>4, <2>1
    <3>2. QED
      BY <1>2, <1>3, <1>5, <1>8, <2>1, <3>1
  <2>2. CASE req[r].op # "update"
    <3>1. Installed(r)[i] = u[i]
      BY <1>1, <1>4, <2>2
    <3>2. QED
      BY <1>2, <1>8, <3>1
  <2>3. QED
    BY <2>1, <2>2
<1>9. \A i \in DOMAIN u : Installed(r)[i].state = u[i].state /\ Installed(r)[i].pos = u[i].pos
  BY <1>1, <1>4, <1>5
<1>10. QED
  BY <1>6, <1>7, <1>8, <1>9 DEF u

LEMMA CommitSound ==
    ASSUME IInv, NEW r \in Requests, Commit(r)
    PROVE  IInv'
<1> DEFINE R == req[r]
           u == R.writes
<1>1. /\ R.at = "commit" \/ Placed(r)
      /\ paper' = Installed(r) /\ Over(r) /\ UNCHANGED <<settings, alone>>
      /\ status' = (IF R.op = "publish" THEN "published" ELSE status)
      /\ published' = (IF R.op = "publish" THEN published + 1 ELSE published)
      /\ asked' = (IF R.op = "reorder" THEN asked \cup {R.list} ELSE asked)
      /\ keyOf' = (IF R.key = NoKey THEN keyOf
                   ELSE [keyOf EXCEPT ![R.key] = CHOOSE i \in DOMAIN u : TRUE])
      /\ made' = (IF R.key = NoKey THEN made
                  ELSE [made EXCEPT ![R.key] = @ \cup DOMAIN u])
  BY DEF Commit
<1>2. /\ R.at # "over" /\ Shape(R) /\ Own(r, R, paper) /\ Keyed(R, keyOf) /\ Apart(r, R)
      /\ R.list \in Seq(Ids) /\ R.key \in Keys \cup {NoKey} /\ DOMAIN u \subseteq Ids
  <2>1. R.at # "over"
    BY <1>1 DEF Placed
  <2>2. QED
    BY <2>1, RequestFields DEF IInv, Sound, Typed
<1>3. /\ Becomes(r, req'[r]) /\ Sound(r, req'[r])
      /\ req'[r].at = "over" /\ req'[r].writes = NoWrites
  BY <1>1, OverSound
<1>4. /\ paper' \in [Ids -> Rows]
      /\ \A i \in Ids \ DOMAIN u : paper'[i] = paper[i]
      /\ \A i \in DOMAIN u : paper'[i].state = "there" => paper'[i].options = {paper'[i].body}
  BY <1>1, InstalledRows
<1>5. ASSUME R.key # NoKey
      PROVE  /\ R.at = "commit" /\ R.op = "add" /\ R.key \in Keys
             /\ keyOf[R.key] = 0 /\ made[R.key] = {}
             /\ \E i \in Ids : DOMAIN u = {i} /\ (CHOOSE j \in DOMAIN u : TRUE) = i /\ i # 0
  <2>1. R.op = "add" /\ R.key \in Keys
    BY <1>2, <1>5 DEF Shape
  <2>2. R.at = "commit"
    BY <1>1, <1>2, <2>1 DEF Shape, Placed
  <2>3. keyOf[R.key] = 0 /\ made[R.key] = {}
    BY <1>2, <1>5, <2>1, <2>2 DEF Keyed, IInv, KeyMadeOneQuestion
  <2>4. PICK i \in Ids : DOMAIN u = {i}
    BY <1>2, <2>1, <2>2 DEF Own
  <2>5. (CHOOSE j \in DOMAIN u : TRUE) = i /\ i # 0
    BY <2>4, AuthoringAssumption
  <2>6. QED
    BY <2>1, <2>2, <2>3, <2>4, <2>5
<1>6. /\ keyOf' \in [Keys -> Ids \cup {0}] /\ made' \in [Keys -> SUBSET Ids]
      /\ KeyMadeOneQuestion'
      /\ \A k \in Keys : k # R.key => keyOf'[k] = keyOf[k]
  <2>1. /\ keyOf \in [Keys -> Ids \cup {0}] /\ made \in [Keys -> SUBSET Ids]
        /\ \A k \in Keys : made[k] = IF keyOf[k] = 0 THEN {} ELSE {keyOf[k]}
    BY DEF IInv, Typed, KeyMadeOneQuestion
  <2>2. CASE R.key = NoKey
    BY <1>1, <2>1, <2>2 DEF KeyMadeOneQuestion
  <2>3. CASE R.key # NoKey
    <3>1. PICK i \in Ids : DOMAIN u = {i} /\ (CHOOSE j \in DOMAIN u : TRUE) = i /\ i # 0
      BY <1>5, <2>3
    <3>2. /\ keyOf' = [keyOf EXCEPT ![R.key] = i]
          /\ made' = [made EXCEPT ![R.key] = made[R.key] \cup {i}]
      BY <1>1, <2>3, <3>1
    <3>3. R.key \in Keys /\ made[R.key] = {}
      BY <1>5, <2>3
    <3> HIDE DEF R
    <3>4. keyOf'[R.key] = i /\ made'[R.key] = {i}
      BY <2>1, <3>2, <3>3
    <3>5. \A k \in Keys : k # R.key => keyOf'[k] = keyOf[k] /\ made'[k] = made[k]
      BY <2>1, <3>2
    <3>6. KeyMadeOneQuestion'
      BY <2>1, <3>1, <3>4, <3>5 DEF KeyMadeOneQuestion
    <3>7. QED
      BY <2>1, <3>2, <3>5, <3>6
  <2>4. QED
    BY <2>2, <2>3
<1>7. Typed'
  <2>1. req' \in [Requests -> Request(Holding)]
    BY <1>3 DEF Becomes
  <2>2. /\ status' \in {"draft", "published"} /\ published' \in Nat /\ asked' \subseteq Seq(Ids)
        /\ settings' \in Requests \cup {0} /\ alone' \in BOOLEAN
    BY <1>1, <1>2 DEF IInv, Typed
  <2>3. QED
    BY <1>4, <1>6, <2>1, <2>2 DEF Typed
<1>8. OptionsAreOfTheBody'
  <2>1. ASSUME NEW i \in Ids, paper'[i].state = "there"
        PROVE  paper'[i].options = {paper'[i].body}
    <3>1. CASE i \in DOMAIN u
      BY <1>4, <2>1, <3>1
    <3>2. CASE i \notin DOMAIN u
      BY <1>4, <2>1, <3>2 DEF IInv, OptionsAreOfTheBody, There
    <3>3. QED
      BY <3>1, <3>2
  <2>2. QED
    BY <2>1 DEF OptionsAreOfTheBody, There
<1>9. ASSUME NEW o \in Requests, o # r
      PROVE  Sound(o, req[o])'
  <2>1. /\ req'[o] = req[o] /\ Sound(o, req[o])
    BY <1>3, <1>9 DEF Becomes, IInv
  <2>2. DOMAIN req[o].writes \subseteq Ids
    BY RequestFields DEF IInv, Typed
  <2>3. \A i \in DOMAIN req[o].writes : paper'[i] = paper[i]
    BY <1>2, <1>4, <1>9, <2>2 DEF Apart
  <2>4. ASSUME req[o].at # "over"
        PROVE  \A i \in ToSet(NewIds[o]) : paper'[i].state = "unused"
    <3>1. ToSet(NewIds[o]) \cap DOMAIN u = {}
      BY <1>9, <2>4, OwnIdsApart
    <3>2. ToSet(NewIds[o]) \subseteq Ids
      BY AuthoringAssumption DEF ToSet
    <3>3. QED
      BY <1>4, <2>1, <2>4, <3>1, <3>2 DEF Sound, Own
  <2>5. Own(o, req'[o], paper')
    BY <2>1, <2>3, <2>4 DEF Sound, Own
  <2>6. Keyed(req'[o], keyOf')
    <3>1. ASSUME req[o].at = "commit", req[o].key # NoKey
          PROVE  keyOf'[req[o].key] = 0
      <4>1. req[o].op = "add" /\ req[o].key \in Keys
        BY <2>1, <3>1, RequestFields DEF Sound, Shape, IInv, Typed
      <4>2. req[o].key # R.key
        BY <1>2, <1>5, <1>9, <3>1, <4>1 DEF Apart, Claimed
      <4>3. QED
        BY <1>6, <2>1, <3>1, <4>1, <4>2 DEF Sound, Keyed
    <3>2. QED
      BY <2>1, <3>1 DEF Keyed
  <2>7. Apart(o, req[o])'
    <3>1. DOMAIN req'[r].writes = {} /\ ~Claimed(r, req[o].key)'
      BY <1>3, NoWritesHolding, <2>1 DEF Claimed
    <3>2. ASSUME NEW x \in Requests \ {o}, x # r
          PROVE  /\ DOMAIN req[o].writes \cap DOMAIN req'[x].writes = {}
                 /\ req[o].at = "commit" /\ req[o].key # NoKey => ~Claimed(x, req[o].key)'
      BY <1>3, <2>1, <3>2 DEF Sound, Apart, Claimed, Becomes
    <3>3. QED
      BY <2>1, <3>1, <3>2 DEF Apart
  <2>8. QED
    BY <2>1, <2>5, <2>6, <2>7 DEF Sound
<1>10. Sound(r, req[r])'
  <2>1. Shape(req'[r])
    BY <1>3 DEF Sound
  <2>2. DOMAIN req'[r].writes = {} /\ req'[r].at = "over"
    BY <1>3, NoWritesHolding
  <2>3. QED
    BY <2>1, <2>2 DEF Sound, Own, Keyed, Apart
<1>11. QED
  BY <1>6, <1>7, <1>8, <1>9, <1>10 DEF IInv

(***************************************************************************)
(* The invariant holds.                                                    *)
(***************************************************************************)
LEMMA InitInv == Init => IInv
<1> SUFFICES ASSUME Init PROVE IInv
  OBVIOUS
<1>1. /\ Starting \in Seq(Ids) /\ IsInjective(Starting) /\ DOMAIN Starting = 1 .. Len(Starting)
      /\ Len(Starting) \in Nat /\ 0 \notin Ids /\ NoKey \notin Keys
      /\ \A r \in Requests : NewIds[r] \in Seq(Ids)
  BY AuthoringAssumption
<1>2. ASSUME NEW i \in ToSet(Starting)
      PROVE  IndexIn(Starting, i) \in Nat
  <2>1. PICK k \in 1 .. Len(Starting) : i = Starting[k]
    BY <1>1 DEF ToSet
  <2>2. IndexIn(Starting, Starting[k]) = k - 1
    BY <1>1, OneIndex
  <2>3. QED
    BY <1>1, <2>1, <2>2
<1>3. paper \in [Ids -> Rows]
  <2>1. \A i \in ToSet(Starting) : Question(IndexIn(Starting, i), TRUE, 0) \in Rows
    BY <1>2, RowTypes
  <2>2. QED
    BY <2>1, RowTypes DEF Init
<1>4. Typed
  BY <1>1, <1>3, IdleType DEF Init, Typed
<1>5. ASSUME NEW r \in Requests
      PROVE  Sound(r, req[r])
  <2>1. /\ req[r].at = "idle" /\ req[r].op = "none" /\ req[r].key = NoKey
        /\ DOMAIN req[r].writes = {}
    BY NoWritesHolding DEF Init, Idle
  <2>2. \A i \in ToSet(NewIds[r]) : paper[i].state = "unused"
    <3>1. ToSet(NewIds[r]) \subseteq Ids
      BY <1>1 DEF ToSet
    <3>2. ToSet(NewIds[r]) \cap ToSet(Starting) = {}
      BY AuthoringAssumption
    <3>3. QED
      BY <3>1, <3>2 DEF Init, NoQuestion
  <2>3. QED
    BY <2>1, <2>2 DEF Sound, Shape, Own, Keyed, Apart
<1>6. OptionsAreOfTheBody
  BY DEF Init, OptionsAreOfTheBody, There, Question, NoQuestion
<1>7. KeyMadeOneQuestion
  BY DEF Init, KeyMadeOneQuestion
<1>8. QED
  BY <1>4, <1>5, <1>6, <1>7 DEF IInv

\* The statements but the commit and the one without a transaction change nothing
\* but r.
LEMMA StepBecomes ==
    ASSUME IInv, NEW r \in Requests, Step(r), ~SetSettings(r), ~Commit(r)
    PROVE  Becomes(r, req'[r]) /\ Sound(r, req'[r]) /\ Nothing
<1>1. CASE LookUpKey(r)
  BY <1>1, LookUpKeySound DEF LookUpKey
<1>2. CASE Count(r)
  BY <1>2, CountSound DEF Count
<1>3. CASE CheckList(r)
  BY <1>3, CheckListSound DEF CheckList
<1>4. CASE CheckPaper(r)
  BY <1>4, CheckPaperSound DEF CheckPaper
<1>5. CASE Insert(r)
  BY <1>5, InsertSound DEF Insert
<1>6. CASE Claim(r)
  BY <1>6, ClaimSound DEF Claim
<1>7. CASE Save(r)
  BY <1>7, SaveSound DEF Save
<1>8. CASE DeleteRow(r)
  BY <1>8, DeleteRowSound DEF DeleteRow
<1>9. CASE Renumber(r)
  BY <1>9, RenumberSound DEF Renumber
<1>10. CASE Place(r)
  BY <1>10, PlaceSound DEF Place
<1>11. CASE SetStatus(r)
  BY <1>11, SetStatusSound DEF SetStatus
<1>12. QED
  BY <1>1, <1>2, <1>3, <1>4, <1>5, <1>6, <1>7, <1>8, <1>9, <1>10, <1>11 DEF Step

LEMMA NextInv == IInv /\ [Next]_vars => IInv'
<1> SUFFICES ASSUME IInv, [Next]_vars PROVE IInv'
  OBVIOUS
<1>1. ASSUME NEW r \in Requests, Becomes(r, req'[r]) /\ Sound(r, req'[r]), Nothing
      PROVE  IInv'
  <2>1. (Typed)'
    BY <1>1 DEF Becomes, Nothing, IInv, Typed
  <2>2. QED
    BY <1>1, <2>1, RestSound DEF Nothing
<1>2. ASSUME NEW r \in Requests, Begin(r)
      PROVE  IInv'
  <2>1. Becomes(r, req'[r]) /\ Sound(r, req'[r])
    BY <1>2, BeginSound
  <2>2. /\ UNCHANGED <<status, settings, published, paper, keyOf, asked, made>>
        /\ alone' \in BOOLEAN
    BY <1>2 DEF Begin, IInv, Typed
  <2>3. (Typed)'
    BY <2>1, <2>2 DEF Becomes, IInv, Typed
  <2>4. QED
    BY <2>1, <2>2, <2>3, RestSound
<1>3. ASSUME NEW r \in Requests, SetSettings(r)
      PROVE  IInv'
  <2>1. Becomes(r, req'[r]) /\ Sound(r, req'[r])
    BY <1>3, OverSound DEF SetSettings
  <2>2. /\ UNCHANGED <<status, published, paper, keyOf, asked, made, alone>>
        /\ settings' = r
    BY <1>3 DEF SetSettings
  <2>3. (Typed)'
    BY <2>1, <2>2 DEF Becomes, IInv, Typed
  <2>4. QED
    BY <2>1, <2>2, <2>3, RestSound
<1>4. ASSUME NEW r \in Requests, Step(r)
      PROVE  IInv'
  <2>1. CASE ~SetSettings(r) /\ ~Commit(r)
    BY <1>1, <1>4, <2>1, StepBecomes
  <2>2. QED
    BY <1>3, <2>1, CommitSound
<1>5. ASSUME NEW r \in Requests, Dies(r) \/ Deadlock(r)
      PROVE  IInv'
  <2>1. Over(r) /\ Nothing
    BY <1>5 DEF Dies, Deadlock
  <2>2. QED
    BY <1>1, <2>1, OverSound
<1>6. CASE UNCHANGED vars
  <2>1. (Typed)'
    BY <1>6 DEF vars, IInv, Typed
  <2>2. ASSUME NEW r \in Requests
        PROVE  Sound(r, req[r])'
    BY <1>6 DEF vars, IInv, Sound, Own, Keyed, Apart, Claimed
  <2>3. OptionsAreOfTheBody' /\ KeyMadeOneQuestion'
    BY <1>6 DEF vars, IInv, OptionsAreOfTheBody, KeyMadeOneQuestion, There
  <2>4. QED
    BY <2>1, <2>2, <2>3 DEF IInv
<1>7. QED
  BY <1>2, <1>4, <1>5, <1>6 DEF Next

\* The records stay what they are declared to be, whatever requests come and
\* whichever of them fail.
THEOREM AuthoringType == Spec => []TypeOK
<1>1. IInv => TypeOK
  BY TypedIsTypeOK DEF IInv
<1>2. QED
  BY InitInv, NextInv, <1>1, PTL DEF Spec

\* For drafts of any size and any number of concurrent saves, deletes and
\* reorderings, no question shows the options of one save under the body of another
\* (update-question.ts:55-76).
THEOREM OptionsStayWithTheBody == Spec => []OptionsAreOfTheBody
<1>1. IInv => OptionsAreOfTheBody
  BY DEF IInv
<1>2. QED
  BY InitInv, NextInv, <1>1, PTL DEF Spec

\* For any number of creates retried under one key, at once or after failures, the
\* key has made the one question it stands for (add-question.ts:39-88,
\* idempotency.ts:27-49).
THEOREM KeysMakeOneQuestion == Spec => []KeyMadeOneQuestion
<1>1. IInv => KeyMadeOneQuestion
  BY DEF IInv
<1>2. QED
  BY InitInv, NextInv, <1>1, PTL DEF Spec

(***************************************************************************)
(* The order of the questions the draft began with.                        *)
(***************************************************************************)
First == ToSet(Starting)

Sees(R, p, i) == IF i \in DOMAIN R.writes THEN R.writes[i] ELSE p[i]

SameOrder(list, l) ==
    \A i, j \in ToSet(list) \cap First :
        IndexIn(list, i) < IndexIn(list, j) <=> IndexIn(l, i) < IndexIn(l, j)

\* A request places every question it sees, in an order somebody asked for, or leaves
\* them all where they are.
Orderly(R, p, a) ==
    /\ R.at \in {"claim", "commit"} =>
          \A i \in DOMAIN R.writes \cap First : p[i].state = "there" /\ R.writes[i].pos = p[i].pos
    /\ R.at = "renumber" => \A i \in DOMAIN R.writes : R.writes[i].state = "deleted"
    /\ R.at = "place" =>
          \A i \in First : Sees(R, p, i).state = "there" =>
             \E m \in 1 .. Len(R.list) :
                /\ R.list[m] = i
                /\ m <= R.n => i \in DOMAIN R.writes /\ R.writes[i].pos = m - 1
    /\ R.at = "place" /\ R.op = "delete" => \E l \in a : SameOrder(R.list, l)

OInv == OrdersNeverMix /\ \A r \in Requests : Orderly(req[r], paper, asked)

LEMMA FirstAreIds ==
    /\ First \subseteq Ids
    /\ \A r \in Requests : First \cap ToSet(NewIds[r]) = {}
<1>1. Starting \in Seq(Ids) /\ DOMAIN Starting = 1 .. Len(Starting)
  BY AuthoringAssumption
<1>2. First \subseteq Ids
  BY <1>1 DEF First, ToSet
<1>3. \A r \in Requests : First \cap ToSet(NewIds[r]) = {}
  BY AuthoringAssumption DEF First
<1>4. QED
  BY <1>2, <1>3

\* In a list without repetitions.
LEMMA ListOrder ==
    ASSUME NEW l \in Seq(Ids), IsInjective(l)
    PROVE  /\ \A i \in ToSet(l) : \E k \in 1 .. Len(l) : i = l[k]
           /\ \A k \in 1 .. Len(l) : l[k] \in ToSet(l) /\ IndexIn(l, l[k]) = k - 1
<1>1. \A k \in 1 .. Len(l) : IndexIn(l, l[k]) = k - 1
  BY OneIndex
<1>2. DOMAIN l = 1 .. Len(l)
  OBVIOUS
<1>3. QED
  BY <1>1, <1>2 DEF ToSet

\* If the rows of a list stand where it puts them, they stand in its order.
LEMMA PlacedFollow ==
    ASSUME NEW p \in [Ids -> Rows], NEW l \in Seq(Ids), IsInjective(l),
           \A i \in There(p) \cap First : \E m \in 1 .. Len(l) : l[m] = i /\ p[i].pos = m - 1
    PROVE  Follows(p, l)
<1>1. \A k \in 1 .. Len(l) : l[k] \in ToSet(l) /\ IndexIn(l, l[k]) = k - 1
  BY ListOrder
<1>2. \A i \in There(p) \cap First : p[i].pos = IndexIn(l, i) /\ i \in Nat /\ p[i].pos \in Nat
  <2>1. Len(l) \in Nat /\ Ids \subseteq Nat
    BY AuthoringAssumption
  <2>2. QED
    BY <1>1, <2>1 DEF There, Rows
<1>3. \A i, j \in There(p) \cap First : p[i].pos = p[j].pos => i = j
  <2>1. Len(l) \in Nat
    OBVIOUS
  <2>2. QED
    BY <2>1
<1>4. QED
  BY <1>2, <1>3 DEF Follows, Before, First

LEMMA OrdersInit == Init => OInv
<1> SUFFICES ASSUME Init PROVE OInv
  OBVIOUS
<1>1. Starting \in Seq(Ids) /\ IsInjective(Starting)
  BY AuthoringAssumption
<1>2. paper \in [Ids -> Rows]
  BY InitInv DEF IInv, Typed
<1>3. \A i \in First : \E m \in 1 .. Len(Starting) : Starting[m] = i /\ paper[i].pos = m - 1
  <2>1. \A i \in First : paper[i].pos = IndexIn(Starting, i)
    BY FirstAreIds DEF Init, Question, First
  <2>2. QED
    BY <1>1, <2>1, ListOrder DEF First
<1>4. Follows(paper, Starting)
  BY <1>1, <1>2, <1>3, PlacedFollow
<1>5. asked = {Starting} /\ \A r \in Requests : req[r].at = "idle"
  BY DEF Init, Idle
<1>6. QED
  BY <1>4, <1>5 DEF OInv, OrdersNeverMix, Orderly

LEMMA OrdersRest ==
    ASSUME IInv, OInv, NEW r \in Requests, Becomes(r, req'[r]), UNCHANGED <<paper, asked>>,
           Orderly(req'[r], paper, asked)
    PROVE  OInv'
<1>1. OrdersNeverMix'
  BY DEF OInv, OrdersNeverMix, Follows, There
<1>2. ASSUME NEW o \in Requests
      PROVE  Orderly(req'[o], paper', asked')
  BY DEF OInv, Becomes
<1>3. QED
  BY <1>1, <1>2 DEF OInv

LEMMA RenumberOrderly ==
    ASSUME IInv, OInv, NEW r \in Requests, Renumber(r)
    PROVE  Orderly(req'[r], paper, asked)
<1> DEFINE v == View(r)
           list == InOrder(v)
           u == req[r].writes
<1>1. /\ req[r].at = "renumber" /\ req'[r].at = "place" /\ req'[r].op = "delete"
      /\ req'[r].n = 0 /\ req'[r].list = list /\ req'[r].writes = u
  BY RenumberSound
<1>2. /\ v \in [Ids -> Rows]
      /\ \A i \in Ids : v[i] = IF i \in DOMAIN u THEN u[i] ELSE paper[i]
  BY ViewType DEF IInv
<1> HIDE DEF v
<1>3. \A i \in There(v) : v[i].pos \in Nat
  BY <1>2 DEF There, Rows
<1>4. /\ list \in Seq(Ids) /\ IsInjective(list) /\ ToSet(list) = There(v) /\ Len(list) \in Nat
      /\ \A a, b \in 1 .. Len(list) : Before(v, list[a], list[b]) <=> a < b
  BY <1>3, InOrderLists
<1> HIDE DEF list
<1>5. /\ \A i \in ToSet(list) : \E k \in 1 .. Len(list) : i = list[k]
      /\ \A k \in 1 .. Len(list) : IndexIn(list, list[k]) = k - 1
  BY <1>4, ListOrder
<1>6. \A i \in DOMAIN u : u[i].state = "deleted"
  BY <1>1 DEF OInv, Orderly, u
<1>7. \A i \in There(v) : v[i] = paper[i] /\ i \in There(paper)
  BY <1>2, <1>6 DEF There
<1>8. ASSUME NEW i \in First, Sees(req'[r], paper, i).state = "there"
      PROVE  \E m \in 1 .. Len(list) : list[m] = i
  <2>1. i \in There(v)
    BY <1>1, <1>2, <1>8, FirstAreIds DEF Sees, There
  <2>2. QED
    BY <1>4, <1>5, <2>1
<1>9. \E l \in asked : SameOrder(list, l)
  <2>1. PICK l \in asked : Follows(paper, l)
    BY DEF OInv, OrdersNeverMix
  <2>2. ASSUME NEW i \in ToSet(list) \cap First, NEW j \in ToSet(list) \cap First
        PROVE  IndexIn(list, i) < IndexIn(list, j) <=> IndexIn(l, i) < IndexIn(l, j)
    <3>1. Before(v, i, j) <=> IndexIn(list, i) < IndexIn(list, j)
      <4>1. PICK a \in 1 .. Len(list) : i = list[a]
        BY <1>5
      <4>2. PICK b \in 1 .. Len(list) : j = list[b]
        BY <1>5
      <4>3. IndexIn(list, i) = a - 1 /\ IndexIn(list, j) = b - 1
        BY <1>5, <4>1, <4>2
      <4>4. QED
        BY <1>4, <4>1, <4>2, <4>3
    <3>2. Before(paper, i, j) <=> IndexIn(l, i) < IndexIn(l, j)
      BY <1>4, <1>7, <2>1 DEF Follows, First
    <3>3. v[i] = paper[i] /\ v[j] = paper[j]
      BY <1>4, <1>7
    <3>4. QED
      BY <3>1, <3>2, <3>3 DEF Before
  <2>3. QED
    BY <2>1, <2>2 DEF SameOrder
<1>10. QED
  BY <1>1, <1>4, <1>8, <1>9 DEF Orderly

LEMMA CheckListOrderly ==
    ASSUME IInv, OInv, NEW r \in Requests, CheckList(r)
    PROVE  Orderly(req'[r], paper, asked)
<1> DEFINE list == req[r].list
<1>1. CASE req'[r].at = "over"
  BY <1>1 DEF Orderly
<1>2. CASE /\ req'[r].at = "place" /\ req'[r].op = "reorder" /\ req'[r].n = 0
           /\ req'[r].list = list /\ SameSet(InOrder(paper), list) /\ DOMAIN req'[r].writes = {}
  <2>1. \A i \in There(paper) : paper[i].pos \in Nat
    BY DEF There, Rows, IInv, Typed
  <2>2. ToSet(list) = There(paper) /\ list \in Seq(Ids) /\ Len(list) \in Nat
    BY <1>2, <2>1, InOrderLists, RequestFields DEF SameSet, IInv, Typed
  <2>3. ASSUME NEW i \in First, Sees(req'[r], paper, i).state = "there"
        PROVE  \E m \in 1 .. Len(list) : list[m] = i
    <3>1. i \in There(paper)
      BY <1>2, <2>3, FirstAreIds DEF Sees, There
    <3>2. QED
      BY <2>2, <3>1 DEF ToSet
  <2>4. QED
    BY <1>2, <2>2, <2>3 DEF Orderly
<1>3. QED
  BY <1>1, <1>2, CheckListSound

LEMMA PlaceOrderly ==
    ASSUME IInv, OInv, NEW r \in Requests, Place(r)
    PROVE  Orderly(req'[r], paper, asked)
<1> DEFINE R == req[r]
           Q == req'[r]
           x == R.list[R.n + 1]
<1>1. /\ R.at = "place" /\ R.n < Len(R.list) /\ Q.at = "place" /\ Q.op = R.op
      /\ Q.list = R.list /\ Q.n = R.n + 1
      /\ Puts(R.writes, Q.writes, x, View(r), R.n)
  BY PlaceSound
<1>2. R.n \in Nat /\ R.list \in Seq(Ids) /\ Len(R.list) \in Nat /\ IsInjective(R.list)
  BY <1>1, RequestFields DEF IInv, Typed, Sound, Shape
<1>3. x \in Ids /\ R.n + 1 \in 1 .. Len(R.list)
  BY <1>1, <1>2
<1>4. View(r)[x] = Sees(R, paper, x)
  BY <1>3, ViewType DEF Sees, IInv
<1>5. Orderly(R, paper, asked)
  BY DEF OInv
<1> HIDE DEF R, Q
<1>6. ASSUME NEW i \in First, Sees(Q, paper, i).state = "there"
      PROVE  \E m \in 1 .. Len(R.list) :
                /\ R.list[m] = i
                /\ m <= R.n + 1 => i \in DOMAIN Q.writes /\ Q.writes[i].pos = m - 1
  <2>1. Sees(R, paper, i).state = "there"
    <3>1. CASE View(r)[x].state = "there"
      BY <1>1, <1>4, <1>6, <3>1 DEF Puts, Sees
    <3>2. CASE View(r)[x].state # "there"
      BY <1>1, <1>6, <3>2 DEF Puts, Sees
    <3>3. QED
      BY <3>1, <3>2
  <2>2. PICK m \in 1 .. Len(R.list) :
            /\ R.list[m] = i
            /\ m <= R.n => i \in DOMAIN R.writes /\ R.writes[i].pos = m - 1
    BY <1>1, <1>5, <2>1 DEF Orderly
  <2>3. CASE m <= R.n
    <3>1. i # x
      BY <1>2, <1>3, <2>2, <2>3 DEF IsInjective
    <3>2. i \in DOMAIN Q.writes /\ Q.writes[i] = R.writes[i]
      BY <1>1, <2>2, <2>3, <3>1 DEF Puts
    <3>3. QED
      BY <2>2, <2>3, <3>2
  <2>4. CASE m = R.n + 1
    <3>1. i = x /\ View(r)[x].state = "there"
      BY <1>4, <2>1, <2>2, <2>4 DEF x
    <3>2. i \in DOMAIN Q.writes /\ Q.writes[i].pos = m - 1
      BY <1>1, <1>2, <2>4, <3>1 DEF Puts
    <3>3. QED
      BY <2>2, <3>2
  <2>5. CASE m > R.n + 1
    BY <1>2, <2>2, <2>5
  <2>6. QED
    BY <1>2, <2>3, <2>4, <2>5
<1>7. R.op = "delete" => \E l \in asked : SameOrder(R.list, l)
  BY <1>1, <1>5 DEF Orderly
<1>8. QED
  BY <1>1, <1>6, <1>7 DEF Orderly, Q

LEMMA StepOrderly ==
    ASSUME IInv, OInv, NEW r \in Requests, Step(r), ~SetSettings(r), ~Commit(r)
    PROVE  Orderly(req'[r], paper, asked)
<1>1. CASE LookUpKey(r)
  BY <1>1, LookUpKeySound DEF Orderly
<1>2. CASE Count(r)
  BY <1>2, CountSound DEF Orderly
<1>3. CASE CheckPaper(r)
  BY <1>3, CheckPaperSound DEF Orderly
<1>4. CASE Insert(r)
  <2>1. /\ req'[r].at \in {"commit", "claim"}
        /\ \E first, m : Batch(r, req'[r].writes, first, m) /\ m \in 0 .. MaxDrafts
    BY <1>4, InsertSound
  <2>2. DOMAIN req'[r].writes \subseteq ToSet(NewIds[r])
    <3>1. PICK first, m : Batch(r, req'[r].writes, first, m) /\ m \in 0 .. MaxDrafts
      BY <2>1
    <3>2. \A k \in 1 .. m : NewIds[r][k] \in ToSet(NewIds[r])
      <4>1. NewIds[r] \in Seq(Ids) /\ Len(NewIds[r]) >= MaxDrafts /\ MaxDrafts \in Nat
        BY AuthoringAssumption
      <4>2. DOMAIN NewIds[r] = 1 .. Len(NewIds[r]) /\ Len(NewIds[r]) \in Nat
        BY <4>1
      <4>3. 1 .. m \subseteq DOMAIN NewIds[r]
        BY <3>1, <4>1, <4>2
      <4>4. QED
        BY <4>3 DEF ToSet
    <3>3. QED
      BY <3>1, <3>2 DEF Batch
  <2>3. QED
    BY <2>1, <2>2, FirstAreIds DEF Orderly
<1>5. CASE Claim(r)
  BY <1>5, ClaimSound DEF Orderly, OInv
<1>6. CASE Save(r)
  BY <1>6, SaveSound DEF Orderly
<1>7. CASE DeleteRow(r)
  BY <1>7, DeleteRowSound DEF Orderly
<1>8. CASE SetStatus(r)
  BY <1>8, SetStatusSound DEF Orderly
<1>9. QED
  BY <1>1, <1>2, <1>3, <1>4, <1>5, <1>6, <1>7, <1>8, CheckListOrderly, RenumberOrderly,
     PlaceOrderly DEF Step

LEMMA CommitOrderly ==
    ASSUME IInv, OInv, NEW r \in Requests, Commit(r)
    PROVE  OInv'
<1> DEFINE R == req[r]
           u == R.writes
<1>1. /\ R.at = "commit" \/ Placed(r)
      /\ paper' = Installed(r) /\ Over(r)
      /\ asked' = (IF R.op = "reorder" THEN asked \cup {R.list} ELSE asked)
  BY DEF Commit
<1>2. /\ paper' \in [Ids -> Rows]
      /\ \A i \in Ids \ DOMAIN u : paper'[i] = paper[i]
      /\ \A i \in DOMAIN u : paper'[i].state = u[i].state /\ paper'[i].pos = u[i].pos
  BY <1>1, InstalledRows
<1>3. /\ Becomes(r, req'[r]) /\ req'[r].at = "over"
  BY <1>1, OverSound
<1>4. /\ R.list \in Seq(Ids) /\ Len(R.list) \in Nat /\ DOMAIN u \subseteq Ids
      /\ Shape(R) /\ Own(r, R, paper) /\ Apart(r, R) /\ Orderly(R, paper, asked)
  BY RequestFields DEF IInv, OInv, Typed, Sound
<1>5. ASSUME NEW i \in First, paper'[i].state = "there"
      PROVE  paper[i].state = "there" /\ i \in Ids
  <2>1. i \in Ids /\ i \notin ToSet(NewIds[r])
    BY FirstAreIds
  <2>2. CASE i \in DOMAIN u
    BY <1>4, <2>1, <2>2 DEF Own
  <2>3. CASE i \notin DOMAIN u
    BY <1>2, <1>5, <2>1, <2>3
  <2>4. QED
    BY <2>1, <2>2, <2>3
<1>6. OrdersNeverMix'
  <2>1. CASE R.at = "commit"
    <3>1. PICK l \in asked : Follows(paper, l)
      BY DEF OInv, OrdersNeverMix
    <3>2. ASSUME NEW i \in First, paper'[i].state = "there"
          PROVE  i \in There(paper) \cap First /\ paper'[i].pos = paper[i].pos
      <4>1. paper'[i].pos = paper[i].pos
        BY <1>2, <1>4, <1>5, <2>1, <3>2 DEF Orderly
      <4>2. QED
        BY <1>5, <3>2, <4>1 DEF There
    <3>3. ASSUME NEW i \in There(paper') \cap First, NEW j \in There(paper') \cap First
          PROVE  Before(paper', i, j) <=> IndexIn(l, i) < IndexIn(l, j)
      <4>1. /\ i \in There(paper) \cap First /\ paper'[i].pos = paper[i].pos
            /\ j \in There(paper) \cap First /\ paper'[j].pos = paper[j].pos
        BY <3>2, <3>3 DEF There
      <4>2. Before(paper, i, j) <=> IndexIn(l, i) < IndexIn(l, j)
        BY <3>1, <4>1 DEF Follows, First
      <4>3. QED
        BY <4>1, <4>2 DEF Before
    <3>4. Follows(paper', l)
      BY <3>3 DEF Follows, First
    <3>5. l \in asked'
      BY <1>1, <3>1
    <3>6. QED
      BY <3>4, <3>5 DEF OrdersNeverMix
  <2>2. CASE Placed(r)
    <3>1. /\ R.at = "place" /\ R.n = Len(R.list) /\ IsInjective(R.list)
          /\ R.op \in {"reorder", "delete"}
      BY <1>4, <2>2 DEF Placed, Shape
    <3>2. ASSUME NEW i \in There(paper') \cap First
          PROVE  \E m \in 1 .. Len(R.list) : R.list[m] = i /\ paper'[i].pos = m - 1
      <4>1. i \in Ids /\ paper'[i].state = "there"
        BY DEF There
      <4>2. Sees(R, paper, i).state = "there"
        BY <1>2, <4>1 DEF Sees
      <4>3. PICK m \in 1 .. Len(R.list) :
               /\ R.list[m] = i
               /\ m <= R.n => i \in DOMAIN u /\ u[i].pos = m - 1
        BY <1>4, <3>1, <4>2 DEF Orderly
      <4>4. m <= R.n
        BY <1>4, <3>1
      <4>5. QED
        BY <1>2, <4>3, <4>4
    <3>3. Follows(paper', R.list)
      <4> DEFINE p == paper'
                 l == R.list
      <4>1. /\ p \in [Ids -> Rows] /\ l \in Seq(Ids) /\ IsInjective(l)
            /\ \A i \in There(p) \cap First : \E m \in 1 .. Len(l) : l[m] = i /\ p[i].pos = m - 1
        BY <1>2, <1>4, <3>1, <3>2
      <4> HIDE DEF p, l
      <4>2. Follows(p, l)
        BY <4>1, PlacedFollow
      <4>3. QED
        BY <4>2 DEF p, l
    <3>4. CASE R.op = "reorder"
      BY <1>1, <3>3, <3>4 DEF OrdersNeverMix
    <3>5. CASE R.op = "delete"
      <4>1. PICK l \in asked : SameOrder(R.list, l)
        BY <1>4, <3>1, <3>5 DEF Orderly
      <4>2. There(paper') \cap First \subseteq ToSet(R.list)
        BY <1>4, <3>2 DEF ToSet
      <4>3. Follows(paper', l)
        BY <3>3, <4>1, <4>2 DEF Follows, SameOrder, First
      <4>4. l \in asked'
        BY <1>1, <4>1
      <4>5. QED
        BY <4>3, <4>4 DEF OrdersNeverMix
    <3>6. QED
      BY <3>1, <3>4, <3>5
  <2>3. QED
    BY <1>1, <2>1, <2>2
<1>7. ASSUME NEW o \in Requests, o # r
      PROVE  Orderly(req'[o], paper', asked')
  <2> DEFINE O == req[o]
  <2>1. req'[o] = O /\ Orderly(O, paper, asked) /\ DOMAIN O.writes \subseteq Ids
    BY <1>3, <1>7, RequestFields DEF Becomes, OInv, IInv, Typed
  <2>2. \A i \in DOMAIN O.writes : paper'[i] = paper[i]
    BY <1>2, <1>4, <1>7, <2>1 DEF Apart
  <2>3. \A i \in First : Sees(O, paper', i).state = "there" => Sees(O, paper, i).state = "there"
    BY <1>5, <2>2 DEF Sees
  <2>4. asked \subseteq asked'
    BY <1>1
  <2> HIDE DEF O
  <2>5. Orderly(O, paper', asked')
    BY <2>1, <2>2, <2>3, <2>4 DEF Orderly
  <2>6. QED
    BY <2>1, <2>5
<1>8. Orderly(req'[r], paper', asked')
  BY <1>3 DEF Orderly
<1>9. QED
  BY <1>6, <1>7, <1>8 DEF OInv

LEMMA OrdersNext == IInv /\ OInv /\ [Next]_vars => OInv'
<1> SUFFICES ASSUME IInv, OInv, [Next]_vars PROVE OInv'
  OBVIOUS
<1>1. ASSUME NEW r \in Requests, Begin(r)
      PROVE  OInv'
  <2>1. /\ Becomes(r, req'[r]) /\ req'[r].at \in Beginnings
        /\ UNCHANGED <<paper, asked>>
    BY <1>1, BeginSound DEF Begin
  <2>2. Orderly(req'[r], paper, asked)
    BY <2>1 DEF Orderly, Beginnings
  <2>3. QED
    BY <2>1, <2>2, OrdersRest
<1>2. ASSUME NEW r \in Requests, Over(r), UNCHANGED <<paper, asked>>
      PROVE  OInv'
  <2>1. Becomes(r, req'[r]) /\ req'[r].at = "over"
    BY <1>2, OverSound
  <2>2. Orderly(req'[r], paper, asked)
    BY <2>1 DEF Orderly
  <2>3. QED
    BY <1>2, <2>1, <2>2, OrdersRest
<1>3. ASSUME NEW r \in Requests, Step(r)
      PROVE  OInv'
  <2>1. CASE SetSettings(r)
    BY <1>2, <2>1 DEF SetSettings
  <2>2. CASE Commit(r)
    BY <2>2, CommitOrderly
  <2>3. CASE ~SetSettings(r) /\ ~Commit(r)
    BY <1>3, <2>3, StepBecomes, StepOrderly, OrdersRest DEF Nothing
  <2>4. QED
    BY <2>1, <2>2, <2>3
<1>4. ASSUME NEW r \in Requests, Dies(r) \/ Deadlock(r)
      PROVE  OInv'
  <2>1. Over(r) /\ Nothing
    BY <1>4 DEF Dies, Deadlock
  <2>2. QED
    BY <1>2, <2>1 DEF Nothing
<1>5. CASE UNCHANGED vars
  <2>1. OrdersNeverMix'
    BY <1>5 DEF vars, OInv, OrdersNeverMix, Follows, There
  <2>2. \A r \in Requests : Orderly(req'[r], paper', asked')
    BY <1>5 DEF vars, OInv
  <2>3. QED
    BY <2>1, <2>2 DEF OInv
<1>6. QED
  BY <1>1, <1>3, <1>4, <1>5 DEF Next

\* For drafts of any size and any number of requests at once, the questions the draft
\* began with stand in an order somebody asked for (reorder-questions.ts:18-22,
\* delete-question.ts:30-38).
THEOREM NoOrdersMix == Spec => []OrdersNeverMix
<1>1. OInv => OrdersNeverMix
  BY DEF OInv
<1>2. QED
  BY InitInv, NextInv, OrdersInit, OrdersNext, <1>1, PTL DEF Spec

(***************************************************************************)
(* One request at a time: no gaps.                                         *)
(***************************************************************************)
Gapless(p) == {p[i].pos : i \in There(p)} = 0 .. (Cardinality(There(p)) - 1)

\* What a request under way has ready for the paper as it stands.
Lone(r, R, p) ==
    /\ R.at = "insert" /\ R.op = "add" => R.n = Cardinality(There(p))
    /\ R.at \in {"claim", "commit"} /\ R.op \in {"add", "drafts"} =>
          \E m \in 0 .. MaxDrafts : Batch(r, R.writes, Cardinality(There(p)), m)
    /\ R.at = "commit" /\ R.op \notin {"add", "drafts"} =>
          \A i \in DOMAIN R.writes : /\ p[i].state = "there" /\ R.writes[i].state = "there"
                                     /\ R.writes[i].pos = p[i].pos
    /\ R.at = "place" =>
          /\ \A i \in Ids : Sees(R, p, i).state = "there" <=> i \in ToSet(R.list)
          /\ \A m \in 1 .. R.n : /\ R.list[m] \in DOMAIN R.writes
                                 /\ R.writes[R.list[m]].pos = m - 1

LInv ==
    alone =>
      /\ Gapless(paper)
      /\ \A r \in Requests : UnderWay(r) =>
            Lone(r, req[r], paper) /\ \A o \in Requests : o # r => ~UnderWay(o)

LEMMA ListCardinality ==
    ASSUME NEW l \in Seq(Ids), IsInjective(l)
    PROVE  Cardinality(ToSet(l)) = Len(l)
<1> DEFINE S == 1 .. Len(l)
           T == ToSet(l)
<1>1. Len(l) \in Nat /\ DOMAIN l = S
  OBVIOUS
<1>2. IsFiniteSet(S) /\ Cardinality(S) = Len(l)
  BY <1>1, FS_Interval
<1>3. l \in Injection(S, T) /\ l \in Surjection(S, T)
  BY <1>1 DEF Injection, Surjection, ToSet
<1> HIDE DEF S, T
<1>4. Cardinality(T) = Cardinality(S)
  BY <1>2, <1>3, FS_Surjection
<1>5. QED
  BY <1>2, <1>4 DEF T

\* Rows that stand where a list of them all puts them leave no gap.
LEMMA ListGapless ==
    ASSUME NEW p, NEW l \in Seq(Ids), IsInjective(l), There(p) = ToSet(l),
           \A m \in 1 .. Len(l) : p[l[m]].pos = m - 1
    PROVE  Gapless(p)
<1>1. Cardinality(There(p)) = Len(l) /\ Len(l) \in Nat
  BY ListCardinality
<1>2. /\ \A i \in There(p) : \E m \in 1 .. Len(l) : i = l[m]
      /\ \A m \in 1 .. Len(l) : l[m] \in There(p)
  BY ListOrder
<1>3. \A i \in There(p) : p[i].pos \in 0 .. Len(l) - 1
  BY <1>1, <1>2
<1>4. ASSUME NEW k \in 0 .. Len(l) - 1
      PROVE  \E i \in There(p) : p[i].pos = k
  <2>1. k + 1 \in 1 .. Len(l)
    BY <1>1
  <2>2. p[l[k + 1]].pos = k
    BY <1>1, <2>1
  <2>3. QED
    BY <1>2, <2>1, <2>2
<1>5. QED
  BY <1>1, <1>3, <1>4 DEF Gapless

\* A batch after the last row leaves no gap either.
LEMMA BatchGapless ==
    ASSUME NEW r \in Requests, NEW p \in [Ids -> Rows], NEW np \in [Ids -> Rows], Gapless(p),
           \A i \in ToSet(NewIds[r]) : p[i].state = "unused",
           NEW w, NEW m \in 0 .. MaxDrafts, Batch(r, w, Cardinality(There(p)), m),
           DOMAIN w \subseteq Ids,
           \A i \in Ids \ DOMAIN w : np[i] = p[i],
           \A i \in DOMAIN w : np[i].state = w[i].state /\ np[i].pos = w[i].pos
    PROVE  Gapless(np)
<1> DEFINE S == There(p)
           n == Cardinality(S)
           ids == SubSeq(NewIds[r], 1, m)
           T == ToSet(ids)
<1>1. IsFiniteSet(S) /\ n \in Nat
  <2>1. \A i \in There(p) : p[i].pos \in Nat
    BY DEF There, Rows
  <2>2. QED
    BY <2>1, RankType
<1>2. /\ T \subseteq ToSet(NewIds[r]) /\ T \subseteq Ids
      /\ Len(ids) = m /\ ids \in Seq(Ids) /\ IsInjective(ids)
      /\ \A i \in T : \E k \in 1 .. m : i = NewIds[r][k]
      /\ \A k \in 1 .. m : NewIds[r][k] \in T
  BY FirstIds
<1>3. Cardinality(T) = m /\ IsFiniteSet(T)
  <2>1. Cardinality(ToSet(ids)) = Len(ids)
    BY <1>2, ListCardinality
  <2>2. IsFiniteSet(T)
    BY <1>2, AuthoringAssumption, FS_Subset
  <2>3. QED
    BY <1>2, <2>1, <2>2
<1>4. S \cap T = {} /\ m \in Nat
  <2>1. \A i \in S : p[i].state = "there"
    BY DEF There
  <2> HIDE DEF T, S
  <2>2. \A i \in T : p[i].state = "unused"
    BY <1>2
  <2>3. m \in Nat
    BY AuthoringAssumption
  <2>4. QED
    BY <2>1, <2>2, <2>3
<1> HIDE DEF ids
<1>5. DOMAIN w = T
  <2> HIDE DEF n, S, T
  <2>1. /\ DOMAIN w \subseteq {NewIds[r][k] : k \in 1 .. m}
        /\ \A k \in 1 .. m : NewIds[r][k] \in DOMAIN w
    BY DEF Batch
  <2>2. \A i \in DOMAIN w : i \in T
    BY <1>2, <2>1
  <2>3. \A i \in T : i \in DOMAIN w
    BY <1>2, <2>1
  <2>4. QED
    BY <2>2, <2>3
<1>6. There(np) = S \cup T
  <2>1. \A k \in 1 .. m : w[NewIds[r][k]].state = "there"
    BY DEF Batch
  <2>2. \A i \in T : np[i].state = "there"
    BY <1>2, <1>5, <2>1
  <2> HIDE DEF T
  <2>3. QED
    BY <1>2, <1>4, <1>5, <2>2 DEF There
<1>7. Cardinality(There(np)) = n + m
  <2> HIDE DEF S, T
  <2>1. Cardinality(S \cup T) = Cardinality(S) + Cardinality(T) - Cardinality(S \cap T)
    BY <1>1, <1>3, FS_Union
  <2>2. Cardinality(S \cap T) = 0
    BY <1>4, FS_EmptySet
  <2>3. QED
    BY <1>1, <1>3, <1>4, <1>6, <2>1, <2>2 DEF n
<1>8. \A k \in 1 .. m : np[NewIds[r][k]].pos = n + k - 1 /\ NewIds[r][k] \in There(np)
  BY <1>2, <1>5, <1>6 DEF Batch
<1>9. \A i \in S : np[i].pos = p[i].pos /\ i \in There(np)
  BY <1>4, <1>5, <1>6 DEF There
<1>10. \A i \in S : p[i].pos \in 0 .. n - 1
  BY DEF Gapless
<1>11. \A k \in 0 .. n - 1 : \E i \in S : p[i].pos = k
  BY DEF Gapless
<1> HIDE DEF S, n, T
<1>12. ASSUME NEW i \in There(np)
       PROVE  np[i].pos \in 0 .. (n + m) - 1
  <2>1. CASE i \in S
    BY <1>1, <1>4, <1>9, <1>10, <2>1
  <2>2. CASE i \in T
    <3>1. PICK k \in 1 .. m : i = NewIds[r][k]
      BY <1>2, <2>2
    <3>2. np[i].pos = n + k - 1
      BY <1>8, <3>1
    <3>3. QED
      BY <1>1, <1>4, <3>2
  <2>3. QED
    BY <1>6, <2>1, <2>2
<1>13. ASSUME NEW k \in 0 .. (n + m) - 1
       PROVE  \E i \in There(np) : np[i].pos = k
  <2>1. CASE k < n
    <3>1. k \in 0 .. n - 1
      BY <1>1, <2>1
    <3>2. QED
      BY <1>9, <1>11, <3>1
  <2>2. CASE k >= n
    <3>1. k - n + 1 \in 1 .. m /\ n + (k - n + 1) - 1 = k
      BY <1>1, <1>4, <2>2
    <3>2. QED
      BY <1>8, <3>1
  <2>3. QED
    BY <1>1, <2>1, <2>2
<1>14. QED
  BY <1>7, <1>12, <1>13 DEF Gapless

LEMMA GapsInit == Init => LInv
<1> SUFFICES ASSUME Init PROVE LInv
  OBVIOUS
<1>1. Starting \in Seq(Ids) /\ IsInjective(Starting)
  BY AuthoringAssumption
<1>2. /\ \A i \in ToSet(Starting) : paper[i].state = "there" /\ paper[i].pos = IndexIn(Starting, i)
      /\ There(paper) = ToSet(Starting)
  <2>1. /\ ToSet(Starting) \subseteq Ids
        /\ paper = [i \in Ids |-> IF i \in ToSet(Starting)
                                  THEN Question(IndexIn(Starting, i), TRUE, 0) ELSE NoQuestion]
    BY FirstAreIds DEF Init, First
  <2> DEFINE S == ToSet(Starting)
             pos(i) == IndexIn(Starting, i)
  <2> HIDE DEF S, pos
  <2>2. paper = [i \in Ids |-> IF i \in S THEN Question(pos(i), TRUE, 0) ELSE NoQuestion]
    BY <2>1 DEF S, pos
  <2>3. \A i \in Ids : IF i \in S THEN paper[i].state = "there" /\ paper[i].pos = pos(i)
                      ELSE paper[i].state = "unused"
    BY <2>2 DEF Question, NoQuestion
  <2>4. QED
    BY <2>1, <2>3 DEF S, pos, There
<1>3. \A m \in 1 .. Len(Starting) : paper[Starting[m]].pos = m - 1
  BY <1>1, <1>2, ListOrder
<1>4. Gapless(paper)
  BY <1>1, <1>2, <1>3, ListGapless
<1>5. \A r \in Requests : ~UnderWay(r)
  BY DEF Init, Idle, UnderWay
<1>6. QED
  BY <1>4, <1>5 DEF LInv

LEMMA InsertLone ==
    ASSUME IInv, NEW r \in Requests, Lone(r, req[r], paper), Insert(r)
    PROVE  Lone(r, req'[r], paper)
<1>1. /\ req[r].at = "insert" /\ req'[r].at \in {"commit", "claim"}
      /\ req'[r].op = req[r].op /\ req[r].op \in {"add", "drafts"}
      /\ \E m \in 0 .. MaxDrafts :
           Batch(r, req'[r].writes,
                 IF req[r].op = "drafts" THEN Cardinality(There(paper)) ELSE req[r].n, m)
  BY InsertSound
<1>2. (IF req[r].op = "drafts" THEN Cardinality(There(paper)) ELSE req[r].n)
         = Cardinality(There(paper))
  BY <1>1 DEF Lone
<1>3. \E m \in 0 .. MaxDrafts : Batch(r, req'[r].writes, Cardinality(There(paper)), m)
  BY <1>1, <1>2
<1>4. QED
  BY <1>1, <1>3 DEF Lone

LEMMA CheckListLone ==
    ASSUME IInv, NEW r \in Requests, CheckList(r)
    PROVE  Lone(r, req'[r], paper)
<1>1. CASE req'[r].at = "over"
  BY <1>1 DEF Lone
<1>2. CASE /\ req'[r].at = "place" /\ req'[r].op = "reorder" /\ req'[r].n = 0
           /\ req'[r].list = req[r].list /\ SameSet(InOrder(paper), req[r].list)
           /\ DOMAIN req'[r].writes = {}
  <2>1. \A i \in There(paper) : paper[i].pos \in Nat
    BY DEF There, Rows, IInv, Typed
  <2>2. ToSet(req[r].list) = There(paper)
    BY <1>2, <2>1, InOrderLists DEF SameSet
  <2>3. \A i \in Ids : Sees(req'[r], paper, i).state = "there" <=> i \in ToSet(req'[r].list)
    BY <1>2, <2>2 DEF Sees, There
  <2>4. QED
    BY <1>2, <2>3 DEF Lone
<1>3. QED
  BY <1>1, <1>2, CheckListSound

LEMMA RenumberLone ==
    ASSUME IInv, NEW r \in Requests, Renumber(r)
    PROVE  Lone(r, req'[r], paper)
<1> DEFINE v == View(r)
           list == InOrder(v)
<1>1. /\ req[r].at = "renumber" /\ req'[r].at = "place" /\ req'[r].op = "delete"
      /\ req'[r].n = 0 /\ req'[r].list = list /\ req'[r].writes = req[r].writes
  BY RenumberSound
<1>2. /\ v \in [Ids -> Rows]
      /\ \A i \in Ids : v[i] = Sees(req[r], paper, i)
  BY ViewType DEF IInv, Sees
<1> HIDE DEF v
<1>3. \A i \in There(v) : v[i].pos \in Nat
  BY <1>2 DEF There, Rows
<1>4. ToSet(list) = There(v)
  BY <1>3, InOrderLists
<1> HIDE DEF list
<1>5. \A i \in Ids : Sees(req'[r], paper, i).state = "there" <=> i \in ToSet(list)
  BY <1>1, <1>2, <1>4 DEF Sees, There
<1>6. QED
  BY <1>1, <1>5 DEF Lone

LEMMA PlaceLone ==
    ASSUME IInv, NEW r \in Requests, Lone(r, req[r], paper), Place(r)
    PROVE  Lone(r, req'[r], paper)
<1> DEFINE R == req[r]
           Q == req'[r]
           x == R.list[R.n + 1]
<1>1. /\ R.at = "place" /\ R.n < Len(R.list) /\ Q.at = "place" /\ Q.op = R.op
      /\ Q.list = R.list /\ Q.n = R.n + 1
      /\ Puts(R.writes, Q.writes, x, View(r), R.n)
  BY PlaceSound
<1>2. R.n \in Nat /\ R.list \in Seq(Ids) /\ Len(R.list) \in Nat /\ IsInjective(R.list)
  BY <1>1, RequestFields DEF IInv, Typed, Sound, Shape
<1>3. x \in Ids /\ R.n + 1 \in 1 .. Len(R.list)
  BY <1>1, <1>2
<1>4. View(r)[x] = Sees(R, paper, x)
  BY <1>3, ViewType DEF Sees, IInv
<1>5. Lone(r, R, paper)
  OBVIOUS
<1>6. x \in ToSet(R.list)
  BY <1>2, <1>3, ListOrder
<1> HIDE DEF R, Q
<1>7. /\ DOMAIN Q.writes = DOMAIN R.writes \cup {x}
      /\ Q.writes[x].state = "there" /\ Q.writes[x].pos = R.n
      /\ \A j \in DOMAIN R.writes : j # x => Q.writes[j] = R.writes[j]
  BY <1>1, <1>3, <1>4, <1>5, <1>6 DEF Lone, Puts
<1>8. ASSUME NEW i \in Ids
      PROVE  Sees(Q, paper, i).state = "there" <=> i \in ToSet(R.list)
  <2>1. CASE i = x
    BY <1>6, <1>7, <2>1 DEF Sees
  <2>2. CASE i # x
    BY <1>1, <1>5, <1>7, <2>2 DEF Sees, Lone
  <2>3. QED
    BY <2>1, <2>2
<1>9. ASSUME NEW m \in 1 .. R.n + 1
      PROVE  R.list[m] \in DOMAIN Q.writes /\ Q.writes[R.list[m]].pos = m - 1
  <2>1. CASE m = R.n + 1
    BY <1>2, <1>7, <2>1 DEF x
  <2>2. CASE m \in 1 .. R.n
    <3>1. R.list[m] # x
      BY <1>1, <1>2, <1>3, <2>2 DEF IsInjective
    <3>2. R.list[m] \in DOMAIN R.writes /\ R.writes[R.list[m]].pos = m - 1
      BY <1>1, <1>5, <2>2 DEF Lone
    <3>3. QED
      BY <1>7, <3>1, <3>2
  <2>3. QED
    BY <1>2, <2>1, <2>2
<1>10. QED
  BY <1>1, <1>8, <1>9 DEF Lone, Q

LEMMA StepLone ==
    ASSUME IInv, NEW r \in Requests, Lone(r, req[r], paper), Step(r), ~SetSettings(r), ~Commit(r)
    PROVE  Lone(r, req'[r], paper)
<1>1. CASE LookUpKey(r)
  BY <1>1, LookUpKeySound DEF Lone
<1>2. CASE Count(r)
  BY <1>2, CountSound DEF Lone
<1>3. CASE CheckPaper(r)
  BY <1>3, CheckPaperSound DEF Lone
<1>4. CASE Claim(r)
  <2>1. CASE req'[r].at = "over"
    BY <2>1 DEF Lone
  <2>2. CASE /\ req[r].at = "claim" /\ req'[r].at = "commit" /\ req'[r].op = req[r].op
             /\ req'[r].writes = req[r].writes
    <3>1. req[r].op = "add"
      BY <2>2 DEF IInv, Sound, Shape
    <3>2. QED
      BY <2>2, <3>1 DEF Lone
  <2>3. QED
    BY <1>4, <2>1, <2>2, ClaimSound
<1>5. CASE Save(r)
  BY <1>5, SaveSound DEF Lone
<1>6. CASE DeleteRow(r)
  BY <1>6, DeleteRowSound DEF Lone
<1>7. CASE SetStatus(r)
  BY <1>7, SetStatusSound DEF Lone
<1>8. QED
  BY <1>1, <1>2, <1>3, <1>4, <1>5, <1>6, <1>7, InsertLone, CheckListLone, RenumberLone,
     PlaceLone DEF Step

LEMMA CommitGapless ==
    ASSUME IInv, NEW r \in Requests, Lone(r, req[r], paper), Gapless(paper), Commit(r)
    PROVE  Gapless(paper')
<1> DEFINE R == req[r]
           u == R.writes
           np == paper'
<1>1. /\ R.at = "commit" \/ Placed(r)
      /\ np = Installed(r)
  BY DEF Commit
<1>2. /\ np \in [Ids -> Rows] /\ paper \in [Ids -> Rows]
      /\ \A i \in Ids \ DOMAIN u : np[i] = paper[i]
      /\ \A i \in DOMAIN u : np[i].state = u[i].state /\ np[i].pos = u[i].pos
  BY <1>1, InstalledRows DEF IInv, Typed
<1>3. /\ R.list \in Seq(Ids) /\ Len(R.list) \in Nat /\ DOMAIN u \subseteq Ids
      /\ Shape(R) /\ Own(r, R, paper) /\ Lone(r, R, paper)
  BY RequestFields DEF IInv, Typed, Sound
<1> HIDE DEF np, R, u
<1>4. CASE Placed(r)
  <2>1. /\ R.at = "place" /\ R.n = Len(R.list) /\ IsInjective(R.list)
    BY <1>3, <1>4 DEF Placed, Shape, R
  <2>2. There(np) = ToSet(R.list)
    <3>1. ToSet(R.list) \subseteq Ids
      BY <1>3, <2>1, ListOrder
    <3>2. \A i \in Ids : np[i].state = "there" <=> i \in ToSet(R.list)
      BY <1>2, <1>3, <2>1 DEF Lone, Sees, u
    <3>3. QED
      BY <3>1, <3>2 DEF There
  <2>3. \A m \in 1 .. Len(R.list) : np[R.list[m]].pos = m - 1
    BY <1>2, <1>3, <2>1 DEF Lone, u
  <2>4. QED
    BY <1>3, <2>1, <2>2, <2>3, ListGapless DEF np
<1>5. CASE R.at = "commit" /\ R.op \in {"add", "drafts"}
  <2>1. PICK m \in 0 .. MaxDrafts : Batch(r, u, Cardinality(There(paper)), m)
    BY <1>3, <1>5 DEF Lone, u
  <2>2. \A i \in ToSet(NewIds[r]) : paper[i].state = "unused"
    BY <1>3, <1>5 DEF Own
  <2>3. Gapless(np)
    BY <1>2, <1>3, <2>1, <2>2, BatchGapless
  <2>4. QED
    BY <2>3 DEF np
<1>6. CASE R.at = "commit" /\ R.op \notin {"add", "drafts"}
  <2>1. \A i \in Ids : /\ np[i].state = "there" <=> paper[i].state = "there"
                       /\ np[i].pos = paper[i].pos
    BY <1>2, <1>3, <1>6 DEF Lone, u
  <2>2. There(np) = There(paper)
    BY <2>1 DEF There
  <2>3. {np[i].pos : i \in There(np)} = {paper[i].pos : i \in There(paper)}
    BY <2>1, <2>2 DEF There
  <2>4. QED
    BY <2>2, <2>3 DEF Gapless, np
<1>7. QED
  BY <1>1, <1>4, <1>5, <1>6 DEF R

LEMMA GapsNext == IInv /\ LInv /\ [Next]_vars => LInv'
<1> SUFFICES ASSUME IInv, LInv, [Next]_vars, alone' PROVE LInv'
  BY DEF LInv
<1>1. ASSUME NEW r \in Requests, Becomes(r, req'[r]), alone, UnderWay(r),
             Gapless(paper'), req'[r].at # "over" => Lone(r, req'[r], paper')
      PROVE  LInv'
  <2>1. \A o \in Requests : o # r => ~UnderWay(o) /\ req'[o] = req[o]
    BY <1>1 DEF LInv, Becomes
  <2>2. \A o \in Requests : o # r => ~UnderWay(o)'
    BY <2>1 DEF UnderWay
  <2>3. UnderWay(r)' => Lone(r, req'[r], paper')
    BY <1>1 DEF UnderWay
  <2>4. QED
    BY <1>1, <2>2, <2>3 DEF LInv
<1>2. ASSUME NEW r \in Requests, Begin(r)
      PROVE  LInv'
  <2>1. /\ Becomes(r, req'[r]) /\ req'[r].at \in Beginnings
        /\ req'[r].at = "insert" => req'[r].op = "drafts"
    BY <1>2, BeginSound
  <2>2. alone /\ (\A o \in Requests \ {r} : ~UnderWay(o)) /\ paper' = paper
    BY <1>2 DEF Begin
  <2>3. Lone(r, req'[r], paper')
    BY <2>1 DEF Lone, Beginnings
  <2>4. \A o \in Requests : o # r => ~UnderWay(o)'
    BY <2>1, <2>2 DEF Becomes, UnderWay
  <2>5. Gapless(paper')
    BY <2>2 DEF LInv
  <2>6. QED
    BY <2>3, <2>4, <2>5 DEF LInv
<1>3. ASSUME NEW r \in Requests, Over(r), UnderWay(r), UNCHANGED <<paper, alone>>
      PROVE  LInv'
  <2>1. Becomes(r, req'[r]) /\ req'[r].at = "over"
    BY <1>3, OverSound
  <2>2. alone /\ Gapless(paper')
    BY <1>3 DEF LInv
  <2>3. QED
    BY <1>1, <1>3, <2>1, <2>2
<1>4. ASSUME NEW r \in Requests, Step(r)
      PROVE  LInv'
  <2>1. UnderWay(r)
    BY <1>4 DEF Step, LookUpKey, Count, CheckList, CheckPaper, Insert, Claim, Save, DeleteRow,
                Renumber, Place, SetStatus, SetSettings, Commit, Placed, UnderWay
  <2>2. CASE SetSettings(r)
    BY <1>3, <2>1, <2>2 DEF SetSettings
  <2>3. CASE Commit(r)
    <3>1. Over(r) /\ alone
      BY <2>3 DEF Commit
    <3>2. Becomes(r, req'[r]) /\ req'[r].at = "over"
      BY <3>1, OverSound
    <3>3. Gapless(paper')
      BY <2>1, <2>3, <3>1, CommitGapless DEF LInv
    <3>4. QED
      BY <1>1, <2>1, <3>1, <3>2, <3>3
  <2>4. CASE ~SetSettings(r) /\ ~Commit(r)
    <3>1. Becomes(r, req'[r]) /\ paper' = paper /\ alone' = alone
      BY <1>4, <2>4, StepBecomes DEF Nothing
    <3>2. Lone(r, req'[r], paper) /\ Gapless(paper)
      BY <1>4, <2>1, <2>4, <3>1, StepLone DEF LInv
    <3>3. QED
      BY <1>1, <2>1, <3>1, <3>2
  <2>5. QED
    BY <2>2, <2>3, <2>4
<1>5. ASSUME NEW r \in Requests, Dies(r) \/ Deadlock(r)
      PROVE  LInv'
  <2>1. Over(r) /\ Nothing
    BY <1>5 DEF Dies, Deadlock
  <2>2. UnderWay(r)
    <3>1. CASE Deadlock(r)
      <4>1. \E o \in Requests : WaitsFor(r, o)
        BY <3>1 DEF Deadlock, InCircle, Waiting
      <4>2. QED
        BY <4>1 DEF WaitsFor, UnderWay
    <3>2. QED
      BY <1>5, <3>1 DEF Dies
  <2>3. QED
    BY <1>3, <2>1, <2>2 DEF Nothing
<1>6. CASE UNCHANGED vars
  BY <1>6 DEF vars, LInv, UnderWay
<1>7. QED
  BY <1>2, <1>4, <1>5, <1>6 DEF Next

\* For drafts of any size and any requests that come one at a time, failing or not,
\* positions have no gap and no question claims another's (delete-question.ts:33-37).
THEOREM NoGapsAlone == Spec => []NoGapsOneAtATime
<1>1. LInv => NoGapsOneAtATime
  BY DEF LInv, NoGapsOneAtATime, Gapless
<1>2. QED
  BY InitInv, NextInv, GapsInit, GapsNext, <1>1, PTL DEF Spec

(***************************************************************************)
(* What becomes of a paper once it is published.                           *)
(***************************************************************************)
\* The statements of requests that may still write.
EditingAt == {"key", "count", "insert", "claim", "save", "remove", "renumber", "list",
              "place", "check", "status", "set", "commit"}

\* A step is of a request that may still write, or ends one that came too late.
LEMMA StepOfAnEditor ==
    ASSUME NEW r \in Requests, Step(r)
    PROVE  req[r].at \in EditingAt \/ (req[r].at = "lateKey" /\ LookUpKey(r) /\ Over(r))
<1>1. CASE LookUpKey(r)
  BY <1>1 DEF LookUpKey, EditingAt
<1>2. CASE Count(r) \/ CheckList(r) \/ CheckPaper(r)
  BY <1>2 DEF Count, CheckList, CheckPaper, EditingAt
<1>3. CASE Insert(r) \/ Claim(r)
  BY <1>3 DEF Insert, Claim, EditingAt
<1>4. CASE Save(r) \/ DeleteRow(r) \/ Renumber(r)
  BY <1>4 DEF Save, DeleteRow, Renumber, EditingAt
<1>5. CASE Place(r)
  BY <1>5 DEF Place, EditingAt
<1>6. CASE SetStatus(r) \/ SetSettings(r)
  BY <1>6 DEF SetStatus, SetSettings, EditingAt
<1>7. CASE Commit(r)
  BY <1>7 DEF Commit, Placed, EditingAt
<1>8. QED
  BY <1>1, <1>2, <1>3, <1>4, <1>5, <1>6, <1>7 DEF Step

\* A request that is not let in, or one that was in already, lets no other in.
LEMMA NoneJoins ==
    ASSUME Typed, NEW r \in Requests, Becomes(r, req'[r]),
           r \in Editing \/ req'[r].at \in {"idle", "lateKey", "over"}
    PROVE  /\ Editing' \subseteq Editing
           /\ req'[r].at = "over" => r \notin Editing'
<1>1. \A o \in Requests \ {r} : req'[o] = req[o]
  BY DEF Becomes
<1>2. QED
  BY <1>1 DEF Editing, UnderWay

Settles ==
    status = "published" =>
        /\ status' = "published" /\ Editing' \subseteq Editing
        /\ <<paper, settings, published>>' # <<paper, settings, published>> => Editing' # Editing

\* A commit and a save of the settings change the paper, and end a request that
\* might; every other step leaves the paper alone.
LEMMA NextSettles == IInv /\ [Next]_vars => Settles
<1> SUFFICES ASSUME IInv, [Next]_vars, status = "published"
             PROVE  /\ status' = "published" /\ Editing' \subseteq Editing
                    /\ <<paper, settings, published>>' # <<paper, settings, published>>
                          => Editing' # Editing
  BY DEF Settles
<1>1. Typed
  BY DEF IInv
<1>2. ASSUME NEW r \in Requests, Begin(r)
      PROVE  Editing' \subseteq Editing /\ UNCHANGED <<status, settings, published, paper>>
  <2>1. Becomes(r, req'[r]) /\ req'[r].at \in {"lateKey", "over"}
    BY <1>1, <1>2, BeginBecomes
  <2>2. Editing' \subseteq Editing
    BY <1>1, <2>1, NoneJoins
  <2>3. UNCHANGED <<status, settings, published, paper>>
    BY <1>2 DEF Begin
  <2>4. QED
    BY <2>2, <2>3
<1>3. ASSUME NEW r \in Requests, Over(r)
      PROVE  Editing' \subseteq Editing /\ r \notin Editing'
  <2>1. Becomes(r, req'[r]) /\ req'[r].at = "over"
    BY <1>3, OverSound
  <2>2. QED
    BY <1>1, <2>1, NoneJoins
<1>4. ASSUME NEW r \in Requests, Step(r), ~SetSettings(r), ~Commit(r)
      PROVE  Editing' \subseteq Editing /\ UNCHANGED <<status, settings, published, paper>>
  <2>1. Becomes(r, req'[r]) /\ Nothing
    BY <1>4, StepBecomes
  <2>2. CASE req[r].at \in EditingAt
    <3>1. r \in Editing
      BY <2>2 DEF Editing, UnderWay, EditingAt
    <3>2. QED
      BY <1>1, <2>1, <3>1, NoneJoins DEF Nothing
  <2>3. CASE Over(r)
    BY <1>3, <2>1, <2>3 DEF Nothing
  <2>4. QED
    BY <1>4, <2>2, <2>3, StepOfAnEditor
<1>5. ASSUME NEW r \in Requests, SetSettings(r) \/ Commit(r)
      PROVE  /\ status' = "published" /\ Editing' \subseteq Editing
             /\ r \in Editing /\ r \notin Editing'
  <2>1. Over(r) /\ status' = "published"
    BY <1>5 DEF SetSettings, Commit
  <2>2. r \in Editing
    BY <1>5 DEF SetSettings, Commit, Placed, Editing, UnderWay
  <2>3. QED
    BY <1>3, <2>1, <2>2
<1>6. ASSUME NEW r \in Requests, Step(r)
      PROVE  /\ status' = "published" /\ Editing' \subseteq Editing
             /\ <<paper, settings, published>>' # <<paper, settings, published>>
                   => Editing' # Editing
  <2>1. CASE ~SetSettings(r) /\ ~Commit(r)
    BY <1>4, <1>6, <2>1
  <2>2. CASE SetSettings(r) \/ Commit(r)
    BY <1>5, <2>2
  <2>3. QED
    BY <2>1, <2>2
<1>7. ASSUME NEW r \in Requests, Dies(r) \/ Deadlock(r)
      PROVE  Editing' \subseteq Editing /\ UNCHANGED <<status, settings, published, paper>>
  BY <1>3, <1>7 DEF Dies, Deadlock, Nothing
<1>8. CASE UNCHANGED vars
  BY <1>8 DEF vars, Editing, UnderWay
<1>9. QED
  BY <1>2, <1>6, <1>7, <1>8 DEF Next

\* However many requests had their draft check pass before the publish committed,
\* each changes the published paper once at most, in one piece and as it ends, and no
\* later one is let in (update-question.ts:37).
THEOREM PublishedPapersSettle == Spec => PublishedPaperSettles
<1>1. IInv /\ [Next]_vars => [Settles]_vars
  BY NextSettles
<1>2. QED
  BY InitInv, NextInv, <1>1, PTL DEF Spec, PublishedPaperSettles, Settles

(***************************************************************************)
(* Who waits for whom.                                                     *)
(***************************************************************************)
\* One publish at most has updated the test and not committed yet.
OnePublish == \A r, o \in Requests : HoldsTest(r) /\ HoldsTest(o) => r = o

\* A statement that takes a request to its commit holds the test in SetStatus only.
LEMMA HoldsTestBySetStatus ==
    ASSUME IInv, NEW r \in Requests, Step(r), ~SetSettings(r), ~Commit(r),
           req'[r].op = "publish", req'[r].at = "commit"
    PROVE  SetStatus(r)
<1>1. ~LookUpKey(r)
  BY LookUpKeySound
<1>2. ~Count(r)
  BY CountSound
<1>3. ~CheckList(r)
  BY CheckListSound
<1>4. ~CheckPaper(r)
  BY CheckPaperSound
<1>5. ~Insert(r)
  BY InsertSound
<1>6. ~Claim(r)
  <2>1. SUFFICES ASSUME Claim(r) PROVE req'[r].op = "add"
    OBVIOUS
  <2>2. req[r].at = "claim" /\ req'[r].op = req[r].op
    BY <2>1, ClaimSound
  <2>3. QED
    BY <2>2 DEF IInv, Sound, Shape
<1>7. ~Save(r)
  BY SaveSound
<1>8. ~DeleteRow(r)
  BY DeleteRowSound
<1>9. ~Renumber(r)
  BY RenumberSound
<1>10. ~Place(r)
  BY PlaceSound
<1>11. QED
  BY <1>1, <1>2, <1>3, <1>4, <1>5, <1>6, <1>7, <1>8, <1>9, <1>10 DEF Step

LEMMA OnePublishStays == IInv /\ OnePublish /\ [Next]_vars => OnePublish'
<1> SUFFICES ASSUME IInv, OnePublish, [Next]_vars PROVE OnePublish'
  OBVIOUS
<1>1. ASSUME NEW r \in Requests, Becomes(r, req'[r]),
             req'[r].op = "publish" /\ req'[r].at = "commit" => \A o \in Requests : ~HoldsTest(o)
      PROVE  OnePublish'
  <2>1. \A o \in Requests \ {r} : HoldsTest(o)' <=> HoldsTest(o)
    BY <1>1 DEF Becomes, HoldsTest
  <2>2. HoldsTest(r)' => \A o \in Requests : ~HoldsTest(o)
    BY <1>1 DEF HoldsTest
  <2>3. QED
    BY <2>1, <2>2 DEF OnePublish
<1>2. ASSUME NEW r \in Requests, Over(r)
      PROVE  OnePublish'
  BY <1>1, <1>2, OverSound
<1>3. ASSUME NEW r \in Requests, Begin(r)
      PROVE  OnePublish'
  BY <1>1, <1>3, BeginSound DEF Beginnings
<1>4. ASSUME NEW r \in Requests, Step(r)
      PROVE  OnePublish'
  <2>1. CASE SetSettings(r) \/ Commit(r)
    BY <1>2, <2>1 DEF SetSettings, Commit
  <2>2. CASE ~SetSettings(r) /\ ~Commit(r)
    <3>1. Becomes(r, req'[r])
      BY <1>4, <2>2, StepBecomes
    <3>2. req'[r].op = "publish" /\ req'[r].at = "commit" => SetStatus(r)
      BY <1>4, <2>2, HoldsTestBySetStatus
    <3>3. SetStatus(r) => \A o \in Requests : ~HoldsTest(o)
      BY DEF SetStatus
    <3>4. QED
      BY <1>1, <3>1, <3>2, <3>3
  <2>3. QED
    BY <2>1, <2>2
<1>5. ASSUME NEW r \in Requests, Dies(r) \/ Deadlock(r)
      PROVE  OnePublish'
  BY <1>2, <1>5 DEF Dies, Deadlock
<1>6. CASE UNCHANGED vars
  BY <1>6 DEF vars, OnePublish, HoldsTest
<1>7. QED
  BY <1>3, <1>4, <1>5, <1>6 DEF Next

\* A request waits for one other at most: for whoever holds the row, has claimed the key
\* or is publishing.
OneIsAwaited == \A r, o, p \in Requests : WaitsFor(r, o) /\ WaitsFor(r, p) => o = p

LEMMA OneHolder ==
    ASSUME IInv, NEW o \in Requests, NEW p \in Requests, NEW i,
           i \in DOMAIN req[o].writes, i \in DOMAIN req[p].writes
    PROVE  o = p
BY DEF IInv, Sound, Apart

\* Requests to wait for are under way.
LEMMA AwaitedAreUnderWay ==
    ASSUME IInv, NEW r \in Requests, NEW o \in Requests, WaitsFor(r, o)
    PROVE  UnderWay(r) /\ UnderWay(o)
<1>1. UnderWay(r)
  BY DEF WaitsFor, UnderWay
<1>2. CASE DOMAIN req[o].writes # {}
  BY <1>1, <1>2 DEF IInv, Sound, Shape, UnderWay
<1>3. CASE Claimed(o, req[r].key) \/ HoldsTest(o)
  BY <1>1, <1>3 DEF Claimed, HoldsTest, UnderWay
<1>4. QED
  BY <1>1, <1>2, <1>3 DEF WaitsFor

LEMMA WaitsForOne == IInv /\ OnePublish => OneIsAwaited
<1> SUFFICES ASSUME IInv, OnePublish, NEW r \in Requests, NEW o \in Requests, NEW p \in Requests,
                    WaitsFor(r, o), WaitsFor(r, p)
             PROVE  o = p
  BY DEF OneIsAwaited
<1>1. CASE req[r].at \in {"save", "remove"}
  <2>1. req[r].q \in DOMAIN req[o].writes /\ req[r].q \in DOMAIN req[p].writes
    BY <1>1 DEF WaitsFor
  <2>2. QED
    BY <2>1, OneHolder
<1>2. CASE req[r].at = "place"
  <2>1. /\ req[r].list[req[r].n + 1] \in DOMAIN req[o].writes
        /\ req[r].list[req[r].n + 1] \in DOMAIN req[p].writes
    BY <1>2 DEF WaitsFor
  <2>2. QED
    BY <2>1, OneHolder
<1>3. CASE req[r].at = "claim"
  <2>1. Claimed(o, req[r].key) /\ Claimed(p, req[r].key) /\ req[r].key # NoKey
    BY <1>3 DEF WaitsFor, IInv, Sound, Shape
  <2>2. req[o].at = "commit" /\ req[o].key = req[r].key
    BY <2>1 DEF Claimed
  <2>3. QED
    BY <2>1, <2>2 DEF IInv, Sound, Apart
<1>4. CASE req[r].at \in {"status", "set"}
  BY <1>4 DEF WaitsFor, OnePublish
<1>5. QED
  BY <1>1, <1>2, <1>3, <1>4 DEF WaitsFor

\* A set of numbers that is not empty has a least one.
LEMMA LeastNumber ==
    ASSUME NEW S \in SUBSET Nat, S # {}
    PROVE  \E k \in S : \A j \in S : k <= j
<1>1. PICK k \in S : \A j \in S : <<j, k>> \notin OpToRel(<, Nat)
  BY NatLessThanWellFounded, WFMin
<1>2. \A j \in S : ~(j < k)
  BY <1>1 DEF OpToRel
<1>3. QED
  BY <1>2

\* A set of requests each of which waits for one of them.
Closed(S) == S # {} /\ \A x \in S : \E y \in S : WaitsFor(x, y)

\* In such a set there is a circle: among those of its kind within it, one with the
\* fewest requests, as those of it that are waited for are another.
LEMMA ClosedHasCircle ==
    ASSUME NEW W \in SUBSET Requests, Closed(W)
    PROVE  \E r \in W : InCircle(r)
<1> DEFINE Sizes == {n \in Nat : \E S \in SUBSET W : Closed(S) /\ Cardinality(S) = n}
<1>1. \A S \in SUBSET W : IsFiniteSet(S) /\ Cardinality(S) \in Nat
  <2>1. IsFiniteSet(Requests)
    BY AuthoringAssumption, FS_Interval DEF Requests
  <2>2. QED
    BY <2>1, FS_Subset, FS_CardinalityType
<1>2. Cardinality(W) \in Sizes
  BY <1>1
<1>3. PICK n \in Sizes : \A m \in Sizes : n <= m
  <2>1. Sizes \in SUBSET Nat /\ Sizes # {}
    BY <1>2
  <2>2. QED
    BY <2>1, LeastNumber
<1>4. PICK S \in SUBSET W : Closed(S) /\ Cardinality(S) = n
  BY <1>3
<1> DEFINE T == {y \in S : \E x \in S : WaitsFor(x, y)}
<1>5. Closed(T)
  BY <1>4 DEF Closed
<1>6. Cardinality(T) \in Sizes
  BY <1>1, <1>5
<1>7. T = S
  <2>1. Cardinality(S) <= Cardinality(T)
    BY <1>3, <1>4, <1>6
  <2>2. /\ Cardinality(T) <= Cardinality(S)
        /\ Cardinality(T) = Cardinality(S) => S = T
    BY <1>1, FS_Subset
  <2>3. QED
    BY <1>1, <2>1, <2>2
<1>8. S \in SUBSET Waiting
  BY <1>4 DEF Closed, Waiting
<1>9. PICK r \in S : TRUE
  BY <1>4 DEF Closed
<1>10. /\ \A x \in S : \E y \in S : WaitsFor(x, y)
       /\ \A y \in S : \E x \in S : WaitsFor(x, y)
  BY <1>4, <1>7 DEF Closed
<1>11. InCircle(r)
  BY <1>8, <1>9, <1>10 DEF InCircle
<1>12. QED
  BY <1>4, <1>11

LEMMA NobodyIsStuck == IInv => SomebodyCanGoOn
<1> SUFFICES ASSUME IInv, NEW r \in Requests, UnderWay(r),
                    \A o \in Requests : UnderWay(o) => o \in Waiting
             PROVE  \E o \in Requests : UnderWay(o) /\ InCircle(o)
  BY DEF SomebodyCanGoOn
<1> DEFINE W == {o \in Requests : UnderWay(o)}
<1>1. Closed(W)
  BY AwaitedAreUnderWay DEF Closed, Waiting
<1>2. QED
  BY <1>1, ClosedHasCircle

\* Locks are waited for in chains: no request waits for two others, so a circle is all
\* that Postgres has to look for (updateQuestionRow, setQuestionPositions,
\* recordIdempotentResource, setTestStatus).
THEOREM WaitsAreChains == Spec => []OneIsAwaited
<1>1. Init => OnePublish
  BY DEF Init, OnePublish, HoldsTest, Idle
<1>2. QED
  BY InitInv, NextInv, <1>1, OnePublishStays, WaitsForOne, PTL DEF Spec

\* Not everybody waits for good, for any number of requests and any order of their
\* statements: one under way can go on, or stands in a circle of waiters that Postgres
\* breaks.  What EveryRequestEnds rests on.
THEOREM EditsCannotFreeze == Spec => []SomebodyCanGoOn
BY InitInv, NextInv, NobodyIsStuck, PTL DEF Spec

=============================================================================
