-------------------------- MODULE ScorePull_proofs --------------------------
(***************************************************************************)
(* What holds of ScorePull however many attempts, columns and workers      *)
(* there are.                                                              *)
(***************************************************************************)
EXTENDS ScorePull, TLAPS, FiniteSetTheorems

\* The part of the type invariant about the pulls.
PullsOK == /\ pull \in [Workers -> PullType]
           /\ \A w \in Workers : /\ pull[w].phase = "sync" => pull[w].rows = NoMarks
                                 /\ pull[w].phase # "sync" => pull[w].pending = {}

\* A pull as it may be.
PullOK(new) == /\ new \in PullType
               /\ new.phase = "sync" => new.rows = NoMarks
               /\ new.phase # "sync" => new.pending = {}

\* A pull that is where it may be keeps the others as they may be.
LEMMA OnePull ==
  ASSUME TypeOK, NEW w \in Workers, NEW new, PullOK(new), pull' = [pull EXCEPT ![w] = new]
  PROVE  PullsOK'
  BY DEF TypeOK, PullsOK, PullOK

\* To disturb a pull changes nothing else of it.
LEMMA DisturbedType ==
  ASSUME TypeOK
  PROVE  /\ Disturbed(pull) \in [Workers -> PullType]
         /\ \A w \in Workers :
              /\ Disturbed(pull)[w].phase = pull[w].phase /\ Disturbed(pull)[w].rows = pull[w].rows
              /\ Disturbed(pull)[w].since = pull[w].since
              /\ Disturbed(pull)[w].sections = pull[w].sections /\ Disturbed(pull)[w].copy = pull[w].copy
              /\ Disturbed(pull)[w].pending = pull[w].pending /\ Disturbed(pull)[w].alone = FALSE
  <1>1. \A w \in Workers : pull[w] \in PullType
    BY DEF TypeOK
  <1> QED
    BY <1>1 DEF Disturbed, PullType

\* The idle pull is one.
LEMMA IdleType == ASSUME PullAssumption PROVE PullOK(Idle) /\ NoLink \in LinkType
  BY DEF PullAssumption, PullOK, Idle, PullType, Phases, Versions, NoLink, LinkType, NoMarks

\* The empty gradebook is well typed.
LEMMA InitType == ASSUME PullAssumption, Init PROVE TypeOK
  <1>1. 0 \in Versions /\ 1 \in Versions
    BY DEF PullAssumption, Versions
  <1>2. pull \in [Workers -> PullType] /\ \A w \in Workers : pull[w].rows = NoMarks /\ pull[w].pending = {}
    BY IdleType DEF Init, PullOK, Idle
  <1>3. budget \in [links : Nat, byHand : Nat, faults : Nat]
    BY DEF Init, PullAssumption
  <1> QED
    BY <1>1, <1>2, <1>3, IdleType DEF Init, TypeOK

\* What is spent of a bound leaves the rest.
LEMMA SpendType ==
  ASSUME TypeOK, NEW what \in {"links", "byHand", "faults"}, Spend(what)
  PROVE  budget' \in [links : Nat, byHand : Nat, faults : Nat]
  BY DEF TypeOK, Spend

\* Scholis and its teachers keep everything well typed.
LEMMA OutsideType ==
  ASSUME PullAssumption, TypeOK, (\E a \in Attempts : Revise(a)) \/ Release \/ \E c \in Columns : LinkPaper(c)
  PROVE  TypeOK'
  <1>1. pull' = Disturbed(pull)
    BY DEF Revise, Release, LinkPaper
  <1>2. PullsOK'
    BY <1>1, DisturbedType DEF TypeOK, PullsOK
  <1>3. CASE \E a \in Attempts : Revise(a)
    <2>1. PICK a \in Attempts : Revise(a)
      BY <1>3
    <2>2. graded[a].mark + 1 \in Versions
      BY <2>1 DEF Revise, TypeOK, Versions, PullAssumption
    <2> QED
      BY <1>2, <2>1, <2>2 DEF Revise, TypeOK, PullsOK
  <1>4. CASE Release
    <2> DEFINE ready == {a \in Attempts : graded[a].released = 0}
    <2>1. Cardinality(ready) \in Nat
      BY FS_Subset, FS_CardinalityType DEF PullAssumption
    <2>2. queue' \in Nat
      BY <1>4, <2>1 DEF Release, TypeOK
    <2>3. graded' \in [Attempts -> [mark : Versions, released : Nat]]
      BY <1>4 DEF Release, TypeOK
    <2>4. out' \in [Attempts -> SUBSET Versions]
      BY <1>4 DEF Release, TypeOK
    <2> QED
      BY <1>2, <1>4, <2>2, <2>3, <2>4 DEF Release, TypeOK, PullsOK
  <1>5. CASE \E c \in Columns : LinkPaper(c)
    <2>1. budget' \in [links : Nat, byHand : Nat, faults : Nat]
      BY <1>5, SpendType DEF LinkPaper
    <2>2. link' \in LinkType
      BY <1>5 DEF LinkPaper, LinkType
    <2> QED
      BY <1>2, <1>5, <2>1, <2>2 DEF LinkPaper, TypeOK, PullsOK
  <1> QED
    BY <1>3, <1>4, <1>5

\* A pull that begins: the record Fetch makes of it.
Begun(since) == [Idle EXCEPT !.phase = "listing", !.since = since, !.rows = Listed(since),
                             !.alone = \A v \in Workers : ~Busy(v)]

\* Its fields.
LEMMA BegunFields ==
  ASSUME PullAssumption, TypeOK, NEW since \in Nat
  PROVE  /\ PullOK(Begun(since))
         /\ Begun(since).phase = "listing" /\ Begun(since).since = since
         /\ Begun(since).rows = Listed(since) /\ Begun(since).pending = {}
         /\ Begun(since).alone = (\A v \in Workers : ~Busy(v))
  <1> DEFINE alone == \A v \in Workers : ~Busy(v)
  <1>1. Listed(since) \in [Attempts -> Versions] /\ alone \in BOOLEAN
    BY DEF Listed, TypeOK, Versions, PullAssumption
  <1>2. Begun(since) = [Idle EXCEPT !.phase = "listing", !.since = since, !.rows = Listed(since),
                                    !.alone = alone]
    BY DEF Begun
  <1> HIDE DEF alone
  <1>3. /\ PullOK(Begun(since))
        /\ Begun(since).phase = "listing" /\ Begun(since).since = since
        /\ Begun(since).rows = Listed(since) /\ Begun(since).pending = {}
        /\ Begun(since).alone = alone
    BY <1>1, <1>2, IdleType DEF PullOK, PullType, Phases, Idle
  <1> QED
    BY <1>3 DEF alone

\* A pull that begins is one, and takes from the others that nothing disturbed them.
LEMMA FetchType ==
  ASSUME PullAssumption, TypeOK, NEW w \in Workers, NEW since \in Nat, Fetch(w, since)
  PROVE  /\ PullsOK'
         /\ pull' = pull \/ pull' = [Disturbed(pull) EXCEPT ![w] = Begun(since)]
  <1>1. pull' = pull \/ pull' = [Disturbed(pull) EXCEPT ![w] = Begun(since)]
    BY DEF Fetch, Begun
  <1>2. CASE pull' = pull
    BY <1>2 DEF TypeOK, PullsOK
  <1>3. CASE pull' = [Disturbed(pull) EXCEPT ![w] = Begun(since)]
    <2>1. PullOK(Begun(since)) /\ Begun(since) \in PullType
      BY BegunFields DEF PullOK
    <2>2. /\ Disturbed(pull) \in [Workers -> PullType]
          /\ \A v \in Workers : PullOK(Disturbed(pull)[v])
      BY DisturbedType DEF PullOK, TypeOK
    <2>3. /\ pull' \in [Workers -> PullType]
          /\ \A v \in Workers : pull'[v] = IF v = w THEN Begun(since) ELSE Disturbed(pull)[v]
      BY <1>3, <2>1, <2>2
    <2>4. ASSUME NEW v \in Workers
          PROVE  /\ pull'[v].phase = "sync" => pull'[v].rows = NoMarks
                 /\ pull'[v].phase # "sync" => pull'[v].pending = {}
      <3>1. PICK new : new = pull'[v] /\ PullOK(new)
        BY <2>1, <2>2, <2>3
      <3> QED
        BY <3>1 DEF PullOK
    <2> QED
      BY <1>3, <2>3, <2>4 DEF PullsOK
  <1> QED
    BY <1>1, <1>2, <1>3

\* A pull that is through with a row: its fields.
LEMMA ThroughFields ==
  ASSUME PullAssumption, TypeOK, NEW w \in Workers, NEW a \in Attempts
  PROVE  /\ Through(w, a) \in PullType
         /\ Through(w, a).phase = pull[w].phase /\ Through(w, a).since = pull[w].since
         /\ Through(w, a).pending = pull[w].pending /\ Through(w, a).alone = pull[w].alone
         /\ Through(w, a).copy = pull[w].copy
         /\ \A b \in Attempts :
              /\ Through(w, a).rows[b] = IF b = a THEN 0 ELSE pull[w].rows[b]
              /\ Through(w, a).sections[b] = IF b = a THEN 0 ELSE pull[w].sections[b]
  <1>1. pull[w] \in PullType /\ 0 \in Versions
    BY DEF TypeOK, Versions, PullAssumption
  <1>2. Through(w, a) = [pull[w] EXCEPT !.rows = [pull[w].rows EXCEPT ![a] = 0],
                                       !.sections = [pull[w].sections EXCEPT ![a] = 0]]
    BY <1>1 DEF Through, PullType
  <1>3. /\ [pull[w].rows EXCEPT ![a] = 0] \in [Attempts -> Versions]
        /\ [pull[w].sections EXCEPT ![a] = 0] \in [Attempts -> Versions]
    BY <1>1 DEF PullType
  <1> QED
    BY <1>1, <1>2, <1>3 DEF PullType

\* The next place of a pull that stores its rows and then looks at what is pending.
LEMMA NextPlace ==
  ASSUME TypeOK, NEW w \in Workers, NEW x
  PROVE  /\ pull[w].phase = "store" => PullOK([pull[w] EXCEPT !.phase = "relook"])
         /\ pull[w].phase = "store" /\ pull[w].rows = NoMarks =>
               \A P \in SUBSET PendingType : PullOK([pull[w] EXCEPT !.phase = "sync", !.pending = P])
         /\ pull[w].phase = "sync"
              => /\ PullOK([pull[w] EXCEPT !.pending = @ \ {x}])
                 /\ PullOK([pull[w] EXCEPT !.pending = @ \ {x}, !.alone = FALSE])
         /\ pull[w].phase = "listing" =>
               \A f \in [Attempts -> Versions] :
                  PullOK([pull[w] EXCEPT !.phase = "store", !.sections = f])
         /\ pull[w].phase = "relook"
              => \A copy \in LinkType, phase \in {"refresh", "bind"} :
                    PullOK([pull[w] EXCEPT !.phase = phase, !.copy = copy])
         /\ pull[w].phase = "bind" => PullOK([pull[w] EXCEPT !.phase = "store"])
  <1>1. /\ pull[w] \in PullType /\ (pull[w].phase = "sync" => pull[w].rows = NoMarks)
        /\ pull[w].phase # "sync" => pull[w].pending = {}
    BY DEF TypeOK
  <1>2. CASE pull[w].phase = "store"
    BY <1>1, <1>2 DEF PullOK, PullType, Phases
  <1>3. CASE pull[w].phase = "sync"
    BY <1>1, <1>3 DEF PullOK, PullType
  <1>4. CASE pull[w].phase \in {"listing", "relook", "bind"}
    BY <1>1, <1>4 DEF PullOK, PullType, Phases
  <1> QED
    BY <1>2, <1>3, <1>4

\* What is pending is well typed.
LEMMA PendingIsTyped == ASSUME TypeOK PROVE Pending \subseteq PendingType
  BY DEF Pending, PendingType, TypeOK, LinkType

\* A turn of a pull keeps everything well typed.
LEMMA WorkType == ASSUME PullAssumption, TypeOK, NEW w \in Workers, Work(w) PROVE TypeOK'
  <1> USE DEF PullsOK
  <1>1. CASE LinkMissing(w) \/ Relook(w)
    <2>1. PullsOK'
      <3>1. PICK new : PullOK(new) /\ pull' = [pull EXCEPT ![w] = new]
        <4>1. CASE LinkMissing(w)
          BY <4>1, NextPlace DEF LinkMissing
        <4>2. CASE Relook(w)
          <5> DEFINE copy == IF link.row THEN link ELSE NoLink
                     phase == IF link.row THEN "refresh" ELSE "bind"
          <5>1. copy \in LinkType /\ phase \in {"refresh", "bind"}
            BY IdleType DEF TypeOK
          <5>2. pull[w].phase = "relook"
                /\ pull' = [pull EXCEPT ![w] = [pull[w] EXCEPT !.phase = phase, !.copy = copy]]
            BY <4>2 DEF Relook
          <5> HIDE DEF copy, phase
          <5> QED
            BY <5>1, <5>2, NextPlace
        <4> QED
          BY <1>1, <4>1, <4>2
      <3> QED
        BY <3>1, OnePull
    <2> QED
      BY <1>1, <2>1 DEF LinkMissing, Relook, TypeOK
  <1>2. CASE RefreshLink(w)
    <2> DEFINE old == Disturbed(pull)[w]
               new == [old EXCEPT !.phase = "store", !.copy = NoLink]
    <2>1. pull[w].copy \in LinkType /\ pull[w].pending = {}
      BY <1>2 DEF RefreshLink, TypeOK, PullType
    <2>2. old \in PullType /\ old.pending = {}
      BY <2>1, DisturbedType
    <2> HIDE DEF old
    <2>3. PullOK(new)
      BY <2>2, IdleType DEF PullOK, PullType, Phases
    <2>4. pull' = [Disturbed(pull) EXCEPT ![w] = new]
      BY <1>2, DisturbedType DEF RefreshLink, old
    <2> HIDE DEF new
    <2>5. PullsOK'
      BY <2>3, <2>4, DisturbedType DEF PullOK, TypeOK
    <2> QED
      BY <1>2, <2>1, <2>5 DEF RefreshLink, TypeOK
  <1>3. CASE BindPaper(w)
    <2>1. PullsOK'
      BY <1>3, NextPlace, OnePull DEF BindPaper
    <2>2. link' \in LinkType
      BY <1>3 DEF BindPaper, LinkType
    <2> QED
      BY <1>3, <2>1, <2>2 DEF BindPaper, TypeOK
  <1>4. ASSUME NEW a \in Attempts, StoreRow(w, a) PROVE TypeOK'
    <2>1. PullsOK'
      <3>1. PullOK(Through(w, a))
        <4>1. /\ Through(w, a) \in PullType /\ Through(w, a).phase = pull[w].phase
              /\ Through(w, a).pending = pull[w].pending
          BY <1>4, ThroughFields
        <4> QED
          BY <1>4, <4>1 DEF StoreRow, PullOK, TypeOK
      <3> QED
        BY <1>4, <3>1, OnePull DEF StoreRow
    <2>2. pull[w].rows[a] \in Versions /\ pull[w].sections[a] \in Versions /\ 0 \in Versions
      BY DEF TypeOK, PullType, Versions, PullAssumption
    <2> QED
      BY <1>4, <2>1, <2>2 DEF StoreRow, TypeOK
  <1>5. CASE ReadPending(w)
    <2>1. PullsOK'
      <3> DEFINE new == [pull[w] EXCEPT !.phase = "sync", !.pending = Pending]
      <3>1. pull[w].phase = "store" /\ pull[w].rows = NoMarks /\ Pending \in SUBSET PendingType
        <4>1. pull[w].rows \in [Attempts -> Versions] /\ \A a \in Attempts : ~(pull[w].rows[a] > 0)
          BY <1>5 DEF ReadPending, ToStore, TypeOK, PullType
        <4>2. \A a \in Attempts : pull[w].rows[a] = 0
          BY <4>1 DEF Versions
        <4> QED
          BY <1>5, <4>1, <4>2, PendingIsTyped DEF ReadPending, NoMarks
      <3>2. PullOK(new)
        BY <3>1, NextPlace
      <3>3. pull' = [pull EXCEPT ![w] = new]
        BY <1>5 DEF ReadPending
      <3> QED
        BY <3>2, <3>3, OnePull
    <2> QED
      BY <1>5, <2>1 DEF ReadPending, TypeOK
  <1>6. ASSUME NEW p \in pull[w].pending, PassOver(w, p) \/ WriteCell(w, p) PROVE TypeOK'
    <2>1. PullsOK'
      BY <1>6, NextPlace, OnePull DEF PassOver, WriteCell
    <2>2. p \in PendingType
      BY DEF TypeOK, PullType
    <2>3. CASE PassOver(w, p)
      BY <2>1, <2>3 DEF PassOver, TypeOK
    <2>4. CASE WriteCell(w, p)
      <3>1. cell' \in [Columns -> [Attempts -> Versions]]
        BY <2>2, <2>4 DEF WriteCell, Placed, PendingType, TypeOK
      <3>2. stored' \in [Attempts -> [mark : Versions, sections : Versions, synced : Versions]]
        <4>1. /\ p.mark \in Versions
              /\ stored' = [stored EXCEPT ![p.attempt] = [stored[p.attempt] EXCEPT !.synced = p.mark]]
          BY <2>2, <2>4 DEF WriteCell, PendingType
        <4>2. \A b \in Attempts : [stored[b] EXCEPT !.synced = p.mark]
                   \in [mark : Versions, sections : Versions, synced : Versions]
          BY <4>1 DEF TypeOK
        <4> QED
          BY <2>2, <4>1, <4>2 DEF PendingType, TypeOK
      <3> QED
        BY <2>1, <2>4, <3>1, <3>2 DEF WriteCell, TypeOK
    <2> QED
      BY <1>6, <2>3, <2>4
  <1>7. CASE Finish(w)
    <2>1. PullsOK'
      BY <1>7, IdleType, OnePull DEF Finish
    <2> QED
      BY <1>7, <2>1 DEF Finish, TypeOK
  <1>8. CASE ListResponses(w)
    <2> DEFINE f == [a \in Attempts |-> IF ToStore(w, a) THEN graded[a].mark ELSE 0]
    <2>1. f \in [Attempts -> Versions]
      BY DEF TypeOK, Versions, PullAssumption
    <2>2. /\ pull[w].phase = "listing"
          /\ pull' = [pull EXCEPT ![w] = [pull[w] EXCEPT !.phase = "store", !.sections = f]]
      BY <1>8 DEF ListResponses
    <2> HIDE DEF f
    <2>3. PullsOK'
      BY <2>1, <2>2, NextPlace, OnePull
    <2> QED
      BY <1>8, <2>3 DEF ListResponses, TypeOK
  <1> QED
    BY <1>1, <1>2, <1>3, <1>4, <1>5, <1>6, <1>7, <1>8 DEF Work

\* Crashes and failures keep everything well typed.
LEMMA TroubleType == ASSUME PullAssumption, TypeOK, NEW w \in Workers, Trouble(w) PROVE TypeOK'
  <1>1. budget' \in [links : Nat, byHand : Nat, faults : Nat]
    BY SpendType DEF Trouble, StoreFails, WriteFails, FetchFails, Killed
  <1>2. ASSUME NEW a \in Attempts, StoreFails(w, a) PROVE TypeOK'
    <2>1. PullOK([Through(w, a) EXCEPT !.alone = FALSE])
      <3>1. /\ Through(w, a) \in PullType /\ Through(w, a).phase = pull[w].phase
            /\ Through(w, a).pending = pull[w].pending
        BY <1>2, ThroughFields
      <3>2. pull[w].phase = "store" /\ pull[w].pending = {}
        BY <1>2 DEF StoreFails, TypeOK
      <3> QED
        BY <3>1, <3>2 DEF PullOK, PullType
    <2>2. PullsOK'
      BY <1>2, <2>1, OnePull DEF StoreFails
    <2> QED
      BY <1>1, <1>2, <2>2 DEF StoreFails, TypeOK, PullsOK
  <1>3. ASSUME NEW p \in pull[w].pending, WriteFails(w, p) PROVE TypeOK'
    <2>1. pull' = [pull EXCEPT ![w] = [pull[w] EXCEPT !.pending = @ \ {p}, !.alone = FALSE]]
      BY <1>3 DEF WriteFails, TypeOK
    <2>2. PullsOK'
      BY <1>3, <2>1, NextPlace, OnePull DEF WriteFails
    <2> QED
      BY <1>1, <1>3, <2>2 DEF WriteFails, TypeOK, PullsOK
  <1>4. CASE FetchFails(w)
    BY <1>1, <1>4 DEF FetchFails, TypeOK
  <1>5. CASE Killed(w)
    <2>1. PullsOK'
      BY <1>5, IdleType, OnePull DEF Killed
    <2> QED
      BY <1>1, <1>5, <2>1 DEF Killed, TypeOK, PullsOK
  <1> QED
    BY <1>2, <1>3, <1>4, <1>5 DEF Trouble

\* Every step keeps the type invariant.
LEMMA NextType == ASSUME PullAssumption, TypeOK, [Next]_vars PROVE TypeOK'
  <1>1. CASE (\E a \in Attempts : Revise(a)) \/ Release \/ \E c \in Columns : LinkPaper(c)
    BY <1>1, OutsideType
  <1>2. ASSUME NEW w \in Workers, TakeTask(w) \/ PullByHand(w) PROVE TypeOK'
    <2>0. PICK since \in Nat : Fetch(w, since)
      BY <1>2 DEF TakeTask, PullByHand, TypeOK
    <2>1. PullsOK' /\ UNCHANGED <<graded, now, out, link, kept, stored, cell>>
      BY <2>0, FetchType DEF Fetch
    <2>2. CASE TakeTask(w)
      BY <2>1, <2>2 DEF TakeTask, TypeOK, PullsOK
    <2>3. CASE PullByHand(w)
      BY <2>1, <2>3, SpendType DEF PullByHand, TypeOK, PullsOK
    <2> QED
      BY <1>2, <2>2, <2>3
  <1>3. ASSUME NEW w \in Workers, Work(w) \/ Trouble(w) PROVE TypeOK'
    BY <1>3, WorkType, TroubleType
  <1>4. CASE UNCHANGED vars
    BY <1>4 DEF vars, TypeOK
  <1> QED
    BY <1>1, <1>2, <1>3, <1>4 DEF Next

\* The types are an invariant.
THEOREM TypeInvariant == ASSUME PullAssumption PROVE Spec => []TypeOK
  BY InitType, NextType, PTL DEF Spec

----------------------------------------------------------------------------
(***************************************************************************)
(* What is stored was released.                                            *)
(***************************************************************************)
\* What is on its way was out, too.
AllWasOut == /\ \A a \in Attempts : graded[a].released > 0 => graded[a].mark \in out[a]
             /\ \A w \in Workers : /\ \A a \in Attempts : WasOut(a, pull[w].rows[a])
                                   /\ \A p \in pull[w].pending : WasOut(p.attempt, p.mark)
             /\ OnlyReleasedMarks

\* The fields a step does not name stay.
LEMMA OtherFields ==
  ASSUME NEW r \in PullType, NEW x, NEW y
  PROVE  /\ [r EXCEPT !.phase = x].rows = r.rows /\ [r EXCEPT !.phase = x].pending = r.pending
         /\ [r EXCEPT !.phase = x, !.copy = y].rows = r.rows
         /\ [r EXCEPT !.phase = x, !.copy = y].pending = r.pending
         /\ [r EXCEPT !.phase = x, !.sections = y].rows = r.rows
         /\ [r EXCEPT !.phase = x, !.sections = y].pending = r.pending
         /\ [r EXCEPT !.alone = x].rows = r.rows /\ [r EXCEPT !.alone = x].pending = r.pending
         /\ [r EXCEPT !.pending = x].rows = r.rows /\ [r EXCEPT !.pending = x].pending = x
         /\ [r EXCEPT !.pending = x, !.alone = y].rows = r.rows
         /\ [r EXCEPT !.pending = x, !.alone = y].pending = x
  BY DEF PullType

\* A mark a pull holds is the one it held, one of a released attempt, or none.
TakenFrom(new, old, a) == \/ new \in {old, 0}
                          \/ graded[a].released > 0 /\ new = graded[a].mark

\* A pull takes its marks from what is listed and its pending rows from what is stored.
LEMMA PullsTake ==
  ASSUME PullAssumption, TypeOK, Next, NEW v \in Workers
  PROVE  /\ \A a \in Attempts : TakenFrom(pull'[v].rows[a], pull[v].rows[a], a)
         /\ pull'[v].pending \subseteq pull[v].pending \cup Pending
  <1>0. \A w \in Workers : pull[w] \in PullType
    BY DEF TypeOK
  <1>1. CASE pull' = Disturbed(pull)
    BY <1>1, DisturbedType DEF TakenFrom
  <1>2. ASSUME NEW w \in Workers, NEW since \in Nat, Fetch(w, since)
        PROVE  /\ \A a \in Attempts : TakenFrom(pull'[v].rows[a], pull[v].rows[a], a)
               /\ pull'[v].pending \subseteq pull[v].pending \cup Pending
    <2>1. pull' = pull \/ pull' = [Disturbed(pull) EXCEPT ![w] = Begun(since)]
      BY <1>2, FetchType
    <2>2. Begun(since).rows = Listed(since) /\ Begun(since).pending = {}
      BY BegunFields
    <2>3. \A a \in Attempts : TakenFrom(Listed(since)[a], pull[v].rows[a], a)
      BY DEF Listed, TakenFrom, TypeOK
    <2>4. \/ pull'[v].rows = pull[v].rows /\ pull'[v].pending = pull[v].pending
          \/ pull'[v].rows = Listed(since) /\ pull'[v].pending = {}
      BY <2>1, <2>2, DisturbedType DEF TypeOK
    <2> QED
      BY <2>3, <2>4 DEF TakenFrom
  <1>3. ASSUME NEW w \in Workers, Work(w) \/ Trouble(w)
        PROVE  /\ \A a \in Attempts : TakenFrom(pull'[v].rows[a], pull[v].rows[a], a)
               /\ pull'[v].pending \subseteq pull[v].pending \cup Pending
    <2>1. CASE RefreshLink(w)
      <3>1. pull'[v].rows = pull[v].rows /\ pull'[v].pending = pull[v].pending
        BY <2>1, DisturbedType DEF RefreshLink, PullType
      <3> QED
        BY <3>1 DEF TakenFrom
    <2>2. CASE LinkMissing(w) \/ Relook(w) \/ BindPaper(w) \/ ListResponses(w)
      <3>1. pull'[v].rows = pull[v].rows /\ pull'[v].pending = pull[v].pending
        <4>1. CASE LinkMissing(w) \/ BindPaper(w)
          <5>1. PICK x : pull' = [pull EXCEPT ![w] = [pull[w] EXCEPT !.phase = x]]
            BY <4>1 DEF LinkMissing, BindPaper
          <5> QED
            BY <1>0, <5>1, OtherFields DEF TypeOK
        <4>2. CASE Relook(w)
          <5>1. PICK x, y : pull' = [pull EXCEPT ![w] = [pull[w] EXCEPT !.phase = x, !.copy = y]]
            BY <4>2 DEF Relook
          <5> QED
            BY <1>0, <5>1, OtherFields DEF TypeOK
        <4>3. CASE ListResponses(w)
          <5>1. PICK x, y : pull' = [pull EXCEPT ![w] = [pull[w] EXCEPT !.phase = x, !.sections = y]]
            BY <4>3 DEF ListResponses
          <5> QED
            BY <1>0, <5>1, OtherFields DEF TypeOK
        <4> QED
          BY <2>2, <4>1, <4>2, <4>3
      <3> QED
        BY <3>1 DEF TakenFrom
    <2>3. CASE \E p \in pull[w].pending : PassOver(w, p) \/ WriteCell(w, p) \/ WriteFails(w, p)
      <3>1. pull'[v].rows = pull[v].rows /\ pull'[v].pending \subseteq pull[v].pending
        <4>1. PICK p \in pull[w].pending : PassOver(w, p) \/ WriteCell(w, p) \/ WriteFails(w, p)
          BY <2>3
        <4> DEFINE less == [pull[w] EXCEPT !.pending = @ \ {p}]
                   lost == [pull[w] EXCEPT !.pending = @ \ {p}, !.alone = FALSE]
        <4>2. pull' = [pull EXCEPT ![w] = less] \/ pull' = [pull EXCEPT ![w] = lost]
          BY <4>1 DEF PassOver, WriteCell, WriteFails, TypeOK
        <4>3. /\ less.rows = pull[w].rows /\ less.pending \subseteq pull[w].pending
              /\ lost.rows = pull[w].rows /\ lost.pending \subseteq pull[w].pending
          BY <1>0, OtherFields
        <4> HIDE DEF less, lost
        <4> QED
          BY <4>2, <4>3 DEF TypeOK
      <3> QED
        BY <3>1 DEF TakenFrom
    <2>4. CASE ReadPending(w)
      <3>1. pull'[v].rows = pull[v].rows /\ pull'[v].pending \in {pull[v].pending, Pending}
        BY <1>0, <2>4 DEF ReadPending, TypeOK, PullType
      <3> QED
        BY <3>1 DEF TakenFrom
    <2>5. CASE Finish(w) \/ Killed(w)
      <3>1. pull'[v] = pull[v] \/ pull'[v] = Idle
        BY <2>5 DEF Finish, Killed, TypeOK
      <3> QED
        BY <3>1 DEF Idle, NoMarks, TakenFrom
    <2>6. CASE FetchFails(w)
      BY <2>6 DEF FetchFails, TakenFrom
    <2>7. ASSUME NEW b \in Attempts, StoreRow(w, b) \/ StoreFails(w, b)
          PROVE  /\ \A a \in Attempts : TakenFrom(pull'[v].rows[a], pull[v].rows[a], a)
                 /\ pull'[v].pending \subseteq pull[v].pending \cup Pending
      <3>1. /\ Through(w, b) \in PullType /\ Through(w, b).pending = pull[w].pending
            /\ \A a \in Attempts : Through(w, b).rows[a] = IF a = b THEN 0 ELSE pull[w].rows[a]
        BY ThroughFields
      <3> DEFINE lost == [Through(w, b) EXCEPT !.alone = FALSE]
      <3>2. lost.rows = Through(w, b).rows /\ lost.pending = Through(w, b).pending
        BY <3>1, OtherFields
      <3>3. pull' = [pull EXCEPT ![w] = Through(w, b)] \/ pull' = [pull EXCEPT ![w] = lost]
        BY <2>7 DEF StoreRow, StoreFails
      <3> HIDE DEF lost
      <3>4. \/ pull'[v] = pull[v]
            \/ /\ v = w /\ pull'[v].pending = pull[v].pending
               /\ \A a \in Attempts : pull'[v].rows[a] = IF a = b THEN 0 ELSE pull[v].rows[a]
        BY <3>1, <3>2, <3>3 DEF TypeOK
      <3> QED
        BY <3>4 DEF TakenFrom
    <2> QED
      BY <1>3, <2>1, <2>2, <2>3, <2>4, <2>5, <2>6, <2>7 DEF Work, Trouble
  <1>4. ASSUME NEW w \in Workers, TakeTask(w) \/ PullByHand(w)
        PROVE  \E since \in Nat : Fetch(w, since)
    BY <1>4 DEF TakeTask, PullByHand, TypeOK
  <1> QED
    BY <1>1, <1>2, <1>3, <1>4 DEF Next, Revise, Release, LinkPaper

\* Who writes what is stored, and what is in a cell.
LEMMA WhoStores ==
  ASSUME TypeOK, Next
  PROVE  \/ UNCHANGED <<stored, cell>>
         \/ \E w \in Workers, a \in Attempts :
               /\ StoreRow(w, a)
               /\ UNCHANGED cell
               /\ \A b \in Attempts \ {a} : stored'[b] = stored[b]
               /\ stored'[a] = [mark |-> pull[w].rows[a], sections |-> pull[w].sections[a], synced |-> 0]
         \/ \E w \in Workers : \E p \in pull[w].pending :
               /\ WriteCell(w, p)
               /\ \A b \in Attempts : /\ stored'[b].mark = stored[b].mark
                                      /\ stored'[b].sections = stored[b].sections
                                      /\ b # p.attempt => stored'[b] = stored[b]
               /\ stored'[p.attempt].synced = p.mark
               /\ \A c \in Columns, b \in Attempts :
                     cell'[c][b] = IF c = p.column /\ b = p.attempt THEN p.mark ELSE cell[c][b]
  <1>1. ASSUME NEW w \in Workers, NEW a \in Attempts, StoreRow(w, a)
        PROVE  /\ UNCHANGED cell
               /\ \A b \in Attempts \ {a} : stored'[b] = stored[b]
               /\ stored'[a] = [mark |-> pull[w].rows[a], sections |-> pull[w].sections[a], synced |-> 0]
    BY <1>1 DEF StoreRow, TypeOK
  <1>2. ASSUME NEW w \in Workers, NEW p \in pull[w].pending, WriteCell(w, p)
        PROVE  /\ \A b \in Attempts : /\ stored'[b].mark = stored[b].mark
                                      /\ stored'[b].sections = stored[b].sections
                                      /\ b # p.attempt => stored'[b] = stored[b]
               /\ stored'[p.attempt].synced = p.mark
               /\ \A c \in Columns, b \in Attempts :
                     cell'[c][b] = IF c = p.column /\ b = p.attempt THEN p.mark ELSE cell[c][b]
    <2>1. p \in PendingType
      BY DEF TypeOK, PullType
    <2> QED
      BY <1>2, <2>1 DEF WriteCell, Placed, PendingType, TypeOK
  <1>3. \/ UNCHANGED <<stored, cell>>
        \/ \E w \in Workers, a \in Attempts : StoreRow(w, a)
        \/ \E w \in Workers : \E p \in pull[w].pending : WriteCell(w, p)
    BY DEF Next, Revise, Release, LinkPaper, TakeTask, PullByHand, Fetch, Work, Trouble, LinkMissing,
       ListResponses, Relook, RefreshLink, BindPaper, ReadPending, PassOver, Finish, StoreFails, WriteFails,
       FetchFails, Killed
  <1> QED
    BY <1>1, <1>2, <1>3

\* What was out stays so, and what is released is out.
LEMMA OutGrows ==
  ASSUME PullAssumption, TypeOK, AllWasOut, Next
  PROVE  /\ \A a \in Attempts : out[a] \subseteq out'[a]
         /\ \A a \in Attempts : graded'[a].released > 0 => graded'[a].mark \in out'[a]
  <1>2. CASE Release
    <2>1. ASSUME NEW a \in Attempts
          PROVE  out'[a] = out[a] \cup {graded[a].mark} /\ graded'[a].mark = graded[a].mark
      BY <1>2 DEF Release, TypeOK
    <2> QED
      BY <2>1
  <1>3. ASSUME NEW a \in Attempts, Revise(a)
        PROVE  UNCHANGED out /\ \A b \in Attempts : graded'[b].released > 0 => graded'[b] = graded[b]
    BY <1>3 DEF Revise, TypeOK
  <1>4. (~\E a \in Attempts : Revise(a)) /\ ~Release => UNCHANGED <<graded, out>>
    BY DEF Next, LinkPaper, TakeTask, PullByHand, Fetch, Work, Trouble, LinkMissing,
       ListResponses, Relook, RefreshLink, BindPaper, StoreRow, ReadPending, PassOver, WriteCell, Finish,
       StoreFails, WriteFails, FetchFails, Killed
  <1> QED
    BY <1>2, <1>3, <1>4 DEF AllWasOut

\* No total reaches Schedjuice, by whatever way, that was not released.
THEOREM OnlyReleasedIsStored == ASSUME PullAssumption PROVE Spec => []OnlyReleasedMarks
  <1>1. Init => AllWasOut
    BY DEF Init, AllWasOut, OnlyReleasedMarks, WasOut, Idle, NoMarks
  <1>2. ASSUME TypeOK, AllWasOut, [Next]_vars PROVE AllWasOut'
    <2>1. CASE UNCHANGED vars
      BY <1>2, <2>1 DEF vars, AllWasOut, OnlyReleasedMarks, WasOut
    <2>2. CASE Next
      <3>1. \A a \in Attempts : \A m : WasOut(a, m) => WasOut(a, m)'
        BY <1>2, <2>2, OutGrows DEF WasOut
      <3>2. \A p \in Pending : p.attempt \in Attempts /\ WasOut(p.attempt, p.mark)
        BY <1>2 DEF Pending, AllWasOut, OnlyReleasedMarks
      <3>3. ASSUME NEW w \in Workers
            PROVE  /\ \A a \in Attempts : WasOut(a, pull[w].rows[a])'
                   /\ \A p \in pull'[w].pending : WasOut(p.attempt, p.mark)'
        <4>1. \A a \in Attempts : TakenFrom(pull'[w].rows[a], pull[w].rows[a], a)
          BY <1>2, <2>2, PullsTake
        <4>2. pull'[w].pending \subseteq pull[w].pending \cup Pending
          BY <1>2, <2>2, PullsTake
        <4>3. \A p \in pull[w].pending : p.attempt \in Attempts
          BY <1>2 DEF TypeOK, PullType, PendingType
        <4>4. \A a \in Attempts : WasOut(a, pull'[w].rows[a])
          BY <1>2, <4>1 DEF AllWasOut, WasOut, TakenFrom
        <4>5. \A a \in Attempts : WasOut(a, pull[w].rows[a])'
          BY <1>2, <2>2, <4>4, OutGrows DEF WasOut
        <4>6. \A p \in pull'[w].pending : p.attempt \in Attempts /\ WasOut(p.attempt, p.mark)
          BY <1>2, <3>2, <4>2, <4>3 DEF AllWasOut
        <4>7. \A p \in pull'[w].pending : WasOut(p.attempt, p.mark)'
          BY <3>1, <4>6
        <4> QED
          BY <4>5, <4>7
      <3>4. \A a \in Attempts : /\ WasOut(a, stored'[a].mark)
                               /\ \A c \in Columns : WasOut(a, cell'[c][a])
        <4>1. \A a \in Attempts : WasOut(a, stored[a].mark) /\ \A c \in Columns : WasOut(a, cell[c][a])
          BY <1>2 DEF AllWasOut, OnlyReleasedMarks
        <4>2. CASE UNCHANGED <<stored, cell>>
          BY <4>1, <4>2
        <4>3. ASSUME NEW w \in Workers, NEW a \in Attempts, UNCHANGED cell,
                     \A b \in Attempts \ {a} : stored'[b] = stored[b],
                     stored'[a] = [mark |-> pull[w].rows[a], sections |-> pull[w].sections[a],
                                   synced |-> 0]
              PROVE  \A b \in Attempts : /\ WasOut(b, stored'[b].mark)
                                         /\ \A c \in Columns : WasOut(b, cell'[c][b])
          <5>1. WasOut(a, stored'[a].mark)
            BY <1>2, <4>3 DEF AllWasOut
          <5> QED
            BY <4>1, <4>3, <5>1
        <4>4. ASSUME NEW w \in Workers, NEW p \in pull[w].pending,
                     \A b \in Attempts : stored'[b].mark = stored[b].mark,
                     \A c \in Columns, b \in Attempts :
                        cell'[c][b] = IF c = p.column /\ b = p.attempt THEN p.mark ELSE cell[c][b]
              PROVE  \A b \in Attempts : /\ WasOut(b, stored'[b].mark)
                                         /\ \A c \in Columns : WasOut(b, cell'[c][b])
          <5>1. WasOut(p.attempt, p.mark)
            BY <1>2, <4>4 DEF AllWasOut
          <5> QED
            BY <4>1, <4>4, <5>1
        <4> QED
          BY <1>2, <2>2, <4>2, <4>3, <4>4, WhoStores
      <3>5. OnlyReleasedMarks'
        BY <1>2, <2>2, <3>4, OutGrows DEF OnlyReleasedMarks, WasOut
      <3>6. \A a \in Attempts : graded'[a].released > 0 => graded'[a].mark \in out'[a]
        BY <1>2, <2>2, OutGrows
      <3> QED
        BY <3>3, <3>5, <3>6 DEF AllWasOut
    <2> QED
      BY <1>2, <2>1, <2>2
  <1>3. AllWasOut => OnlyReleasedMarks
    BY DEF AllWasOut
  <1> QED
    BY <1>1, <1>2, <1>3, TypeInvariant, PTL DEF Spec

----------------------------------------------------------------------------
(***************************************************************************)
(* The column a teacher linked.                                            *)
(***************************************************************************)
\* While a teacher's column is sure to be kept, no pull is about to bind the paper and
\* what a refresh may save names that column.
LinkSafe == kept # NoColumn =>
    /\ link.row /\ link.column = kept
    /\ \A w \in Workers : /\ pull[w].phase # "bind"
                          /\ pull[w].phase = "refresh" => /\ pull[w].copy.row
                                                          /\ pull[w].copy.column = kept

\* A pull that is about to save the link was so before, or has just looked for it.
LEMMA WhoSaves ==
  ASSUME PullAssumption, TypeOK, Next, NEW v \in Workers, pull'[v].phase \in {"refresh", "bind"}
  PROVE  \/ pull'[v].phase = pull[v].phase /\ pull'[v].copy = pull[v].copy
         \/ Relook(v)
  <1>0. \A w \in Workers : pull[w] \in PullType
    BY DEF TypeOK
  <1>1. CASE pull' = Disturbed(pull)
    BY <1>1, DisturbedType
  <1>2. ASSUME NEW w \in Workers, TakeTask(w) \/ PullByHand(w)
        PROVE  pull'[v].phase = pull[v].phase /\ pull'[v].copy = pull[v].copy
    <2>1. PICK since \in Nat : Fetch(w, since)
      BY <1>2 DEF TakeTask, PullByHand, TypeOK
    <2>2. pull' = pull \/ pull' = [Disturbed(pull) EXCEPT ![w] = Begun(since)]
      BY <2>1, FetchType
    <2>3. Begun(since).phase = "listing"
      BY BegunFields
    <2> QED
      BY <2>2, <2>3, DisturbedType
  <1>3. ASSUME NEW w \in Workers, Work(w) \/ Trouble(w)
        PROVE  \/ pull'[v].phase = pull[v].phase /\ pull'[v].copy = pull[v].copy
               \/ Relook(v)
    <2>1. CASE LinkMissing(w) \/ BindPaper(w) \/ ListResponses(w) \/ ReadPending(w)
      <3>1. \A x, y : /\ [pull[w] EXCEPT !.phase = x].phase = x
                       /\ [pull[w] EXCEPT !.phase = x, !.sections = y].phase = x
                       /\ [pull[w] EXCEPT !.phase = x, !.pending = y].phase = x
        BY <1>0 DEF PullType
      <3>2. v # w => pull'[v] = pull[v]
        BY <2>1 DEF LinkMissing, BindPaper, ListResponses, ReadPending, TypeOK
      <3>3. v = w => pull'[v].phase \in {"relook", "store", "sync"}
        <4>1. pull'[w].phase = IF LinkMissing(w) THEN "relook"
                               ELSE IF ReadPending(w) THEN "sync" ELSE "store"
          <5>1. CASE LinkMissing(w)
            BY <3>1, <5>1 DEF LinkMissing, TypeOK
          <5>2. CASE ~LinkMissing(w) /\ ReadPending(w)
            BY <3>1, <5>2 DEF ReadPending, TypeOK
          <5>3. CASE ~LinkMissing(w) /\ ~ReadPending(w) /\ BindPaper(w)
            BY <3>1, <5>3 DEF BindPaper, TypeOK
          <5>4. CASE ~LinkMissing(w) /\ ~ReadPending(w) /\ ListResponses(w)
            BY <3>1, <5>4 DEF ListResponses, TypeOK
          <5> QED
            BY <2>1, <5>1, <5>2, <5>3, <5>4
        <4> QED
          BY <4>1
      <3> QED
        BY <3>2, <3>3
    <2>2. CASE Relook(w)
      BY <1>0, <2>2 DEF Relook, TypeOK
    <2>3. CASE RefreshLink(w)
      <3>1. v = w => pull'[v].phase = "store"
        <4>1. Disturbed(pull)[w] \in PullType /\ Disturbed(pull) \in [Workers -> PullType]
          BY DisturbedType
        <4>2. pull' = [Disturbed(pull) EXCEPT ![w] = [Disturbed(pull)[w] EXCEPT
                          !.phase = "store", !.copy = NoLink]]
          BY <2>3, <4>1 DEF RefreshLink
        <4>3. \A x, y : [Disturbed(pull)[w] EXCEPT !.phase = x, !.copy = y].phase = x
          BY <4>1 DEF PullType
        <4> QED
          BY <4>1, <4>2, <4>3
      <3>2. v # w => pull'[v] = Disturbed(pull)[v]
        BY <2>3, DisturbedType DEF RefreshLink
      <3>3. v # w => pull'[v].phase = pull[v].phase /\ pull'[v].copy = pull[v].copy
        BY <3>2, DisturbedType
      <3>4. v = w => FALSE
        BY <3>1
      <3> QED
        BY <3>3, <3>4
    <2>4. ASSUME NEW a \in Attempts, StoreRow(w, a) \/ StoreFails(w, a)
          PROVE  pull'[v].phase = pull[v].phase /\ pull'[v].copy = pull[v].copy
      <3>1. /\ Through(w, a) \in PullType /\ Through(w, a).phase = pull[w].phase
            /\ Through(w, a).copy = pull[w].copy
        BY ThroughFields
      <3> QED
        <4>1. /\ [Through(w, a) EXCEPT !.alone = FALSE].phase = pull[w].phase
              /\ [Through(w, a) EXCEPT !.alone = FALSE].copy = pull[w].copy
          BY <3>1 DEF PullType
        <4>2. \/ pull' = [pull EXCEPT ![w] = Through(w, a)]
              \/ pull' = [pull EXCEPT ![w] = [Through(w, a) EXCEPT !.alone = FALSE]]
          BY <2>4 DEF StoreRow, StoreFails
        <4>3. \/ pull'[v] = pull[v]
              \/ v = w /\ pull'[v] \in {Through(w, a), [Through(w, a) EXCEPT !.alone = FALSE]}
          BY <4>2 DEF TypeOK
        <4> QED
          BY <3>1, <4>1, <4>3
    <2>5. CASE \E p \in pull[w].pending : PassOver(w, p) \/ WriteCell(w, p) \/ WriteFails(w, p)
      <3>1. PICK p \in pull[w].pending : PassOver(w, p) \/ WriteCell(w, p) \/ WriteFails(w, p)
        BY <2>5
      <3> DEFINE less == [pull[w] EXCEPT !.pending = @ \ {p}]
                 lost == [pull[w] EXCEPT !.pending = @ \ {p}, !.alone = FALSE]
      <3>2. /\ less.phase = pull[w].phase /\ less.copy = pull[w].copy
            /\ lost.phase = pull[w].phase /\ lost.copy = pull[w].copy
        BY <1>0 DEF PullType
      <3>3. pull' = [pull EXCEPT ![w] = less] \/ pull' = [pull EXCEPT ![w] = lost]
        BY <3>1 DEF PassOver, WriteCell, WriteFails, TypeOK
      <3> HIDE DEF less, lost
      <3> QED
        BY <3>2, <3>3 DEF TypeOK
    <2>6. CASE Finish(w) \/ Killed(w)
      BY <2>6 DEF Finish, Killed, TypeOK, Idle
    <2>7. CASE FetchFails(w)
      BY <2>7 DEF FetchFails
    <2> QED
      BY <1>3, <2>1, <2>2, <2>3, <2>4, <2>5, <2>6, <2>7 DEF Work, Trouble
  <1> QED
    BY <1>1, <1>2, <1>3 DEF Next, Revise, Release, LinkPaper

\* However many pulls overlap, bind and refresh, the second look keeps them from taking
\* a paper out of the column its teacher linked, but for one that looked before.
THEOREM TeachersColumnStays == ASSUME PullAssumption PROVE Spec => []LinkedColumnStays
  <1>1. Init => LinkSafe
    BY DEF Init, LinkSafe
  <1>2. ASSUME TypeOK, LinkSafe, [Next]_vars PROVE LinkSafe'
    <2>1. CASE UNCHANGED vars
      BY <1>2, <2>1 DEF vars, LinkSafe
    <2>2. ASSUME NEW c \in Columns, LinkPaper(c) PROVE LinkSafe'
      <3>1. /\ \A w \in Workers : pull'[w].phase = pull[w].phase
            /\ kept' = IF \E w \in Workers : SavesLink(w) THEN NoColumn ELSE c
            /\ link' = [row |-> TRUE, column |-> c]
        BY <1>2, <2>2, DisturbedType DEF LinkPaper
      <3> QED
        BY <3>1 DEF LinkSafe, SavesLink
    <2>3. CASE Next /\ ~\E c \in Columns : LinkPaper(c)
      <3>1. UNCHANGED kept
        BY <2>3 DEF Next, Revise, Release, TakeTask, PullByHand, Fetch, Work, Trouble, LinkMissing,
           ListResponses, Relook, RefreshLink, BindPaper, StoreRow, ReadPending, PassOver, WriteCell,
           Finish, StoreFails, WriteFails, FetchFails, Killed
      <3>2. CASE kept = NoColumn
        BY <3>1, <3>2 DEF LinkSafe
      <3>3. CASE kept # NoColumn
        <4>1. /\ link.row /\ link.column = kept
              /\ \A w \in Workers : /\ pull[w].phase # "bind"
                                    /\ pull[w].phase = "refresh" => /\ pull[w].copy.row
                                                                    /\ pull[w].copy.column = kept
          BY <1>2, <3>3 DEF LinkSafe
        <4>2. \/ UNCHANGED link
              \/ \E w \in Workers : RefreshLink(w) \/ BindPaper(w)
          BY <2>3 DEF Next, Revise, Release, TakeTask, PullByHand, Fetch, Work, Trouble, LinkMissing,
             ListResponses, Relook, StoreRow, ReadPending, PassOver, WriteCell, Finish, StoreFails,
             WriteFails, FetchFails, Killed
        <4>3. link'.row /\ link'.column = kept
          BY <4>1, <4>2 DEF RefreshLink, BindPaper
        <4>4. ASSUME NEW w \in Workers
              PROVE  /\ pull'[w].phase # "bind"
                     /\ pull'[w].phase = "refresh" => /\ pull'[w].copy.row
                                                      /\ pull'[w].copy.column = kept
          <5>1. Relook(w) => pull'[w].phase = "refresh" /\ pull'[w].copy = link
            BY <1>2, <4>1 DEF Relook, TypeOK, PullType
          <5>2. CASE pull'[w].phase \in {"refresh", "bind"}
            BY <1>2, <2>3, <4>1, <5>1, <5>2, WhoSaves
          <5> QED
            BY <5>2
        <4> QED
          BY <3>1, <4>3, <4>4 DEF LinkSafe
      <3> QED
        BY <3>2, <3>3
    <2> QED
      BY <1>2, <2>1, <2>2, <2>3
  <1>3. LinkSafe => LinkedColumnStays
    BY DEF LinkSafe, LinkedColumnStays
  <1> QED
    BY <1>1, <1>2, <1>3, TypeInvariant, PTL DEF Spec

----------------------------------------------------------------------------
(***************************************************************************)
(* A pull that nothing disturbs.                                           *)
(***************************************************************************)
\* What an undisturbed pull has done: while it stores, each mark it asked for is in
\* its rows or is stored; while it projects, each is stored and, if it has a place,
\* written or still pending, what waits in the table is pending, and what is pending
\* is what is stored.
Wanted(w, a) == graded[a].released > pull[w].since
InRows(w, a) == /\ pull[w].rows[a] = graded[a].mark
                /\ pull[w].phase # "listing" => pull[w].sections[a] = graded[a].mark
IsStored(a) == stored[a].mark = graded[a].mark /\ stored[a].sections = graded[a].mark
Storing(w) == \A a \in Attempts : Wanted(w, a) =>
                  \/ InRows(w, a)
                  \/ pull[w].phase # "listing" /\ ~ToStore(w, a) /\ IsStored(a) /\ stored[a].synced = 0
IsPending(w, a) == \E p \in pull[w].pending : p.attempt = a
Projecting(w) ==
    /\ \A p \in pull[w].pending :
         p.column = link.column /\ p.mark = stored[p.attempt].mark /\ p.mark > 0
    /\ \A a \in Attempts :
         /\ Wanted(w, a) => IsStored(a) /\ (HasPlace(a) => Landed(a) \/ IsPending(w, a))
         /\ HasPlace(a) /\ stored[a].mark > 0 => stored[a].synced # 0 \/ IsPending(w, a)
Undisturbed(w) == /\ Busy(w) /\ \A v \in Workers \ {w} : ~Busy(v)
                  /\ IF pull[w].phase = "sync" THEN Projecting(w) ELSE Storing(w)
SettlingInv == /\ \A a \in Attempts : graded[a].mark > 0
               /\ \A w \in Workers : pull[w].alone => Undisturbed(w)

\* A mark, once there, stays one.
LEMMA MarksStay ==
  ASSUME PullAssumption, TypeOK, \A a \in Attempts : graded[a].mark > 0, Next
  PROVE  \A a \in Attempts : graded'[a].mark > 0
  <1>1. ASSUME NEW a \in Attempts, Revise(a) PROVE \A b \in Attempts : graded'[b].mark > 0
    BY <1>1 DEF Revise, TypeOK, Versions
  <1>2. CASE Release
    BY <1>2 DEF Release, TypeOK
  <1>3. (~\E a \in Attempts : Revise(a)) /\ ~Release => UNCHANGED graded
    BY DEF Next, LinkPaper, TakeTask, PullByHand, Fetch, Work, Trouble, LinkMissing,
       ListResponses, Relook, RefreshLink, BindPaper, StoreRow, ReadPending, PassOver, WriteCell, Finish,
       StoreFails, WriteFails, FetchFails, Killed
  <1> QED
    BY <1>1, <1>2, <1>3

\* A fresh pull has listed what it asked for and stored nothing yet.
LEMMA FreshPull ==
  ASSUME PullAssumption, TypeOK, SettlingInv, NEW w \in Workers, NEW since \in Nat, Fetch(w, since)
  PROVE  \A v \in Workers : pull'[v].alone => Undisturbed(v)'
  <1>1. UNCHANGED <<graded, link, stored, cell>>
    BY DEF Fetch
  <1>2. CASE pull' = pull
    BY <1>1, <1>2 DEF SettlingInv, Undisturbed, Busy, Projecting, Storing, Landed, HasPlace, Wanted,
       InRows, IsStored, IsPending, ToStore
  <1>3. CASE pull' = [Disturbed(pull) EXCEPT ![w] = Begun(since)]
    <2>1. /\ Begun(since).phase = "listing" /\ Begun(since).since = since
          /\ Begun(since).rows = Listed(since)
          /\ Begun(since).alone = (\A v \in Workers : ~Busy(v))
      BY BegunFields
    <2>2. \A v \in Workers \ {w} : pull'[v].alone = FALSE /\ pull'[v].phase = pull[v].phase
      BY <1>3, DisturbedType
    <2>3. pull'[w] = Begun(since)
      BY <1>3, DisturbedType
    <2>4. pull'[w].alone => \A v \in Workers \ {w} : ~Busy(v)'
      BY <2>1, <2>2, <2>3 DEF Busy
    <2>5. Storing(w)'
      <3>1. ASSUME NEW a \in Attempts, graded[a].released > since
            PROVE  Listed(since)[a] = graded[a].mark
        BY <3>1 DEF Listed
      <3> QED
        BY <1>1, <2>1, <2>3, <3>1 DEF Storing, Wanted, InRows
    <2>6. Busy(w)' /\ pull'[w].phase # "sync"
      BY <2>1, <2>3 DEF Busy
    <2> QED
      BY <2>2, <2>4, <2>5, <2>6 DEF Undisturbed
  <1> QED
    BY <1>2, <1>3, FetchType

\* A step of the undisturbed pull itself.
LEMMA OwnStep ==
  ASSUME PullAssumption, TypeOK, SettlingInv, NEW w \in Workers, Work(w) \/ Trouble(w),
         pull[w].alone, pull'[w].alone
  PROVE  Undisturbed(w)'
  <1>0. /\ Undisturbed(w) /\ pull[w] \in PullType /\ UNCHANGED graded
        /\ \A a \in Attempts : graded[a].mark > 0
    BY DEF SettlingInv, TypeOK, Work, Trouble, LinkMissing, ListResponses, Relook, RefreshLink,
       BindPaper, StoreRow, ReadPending, PassOver, WriteCell, Finish, StoreFails, WriteFails, FetchFails,
       Killed
  <1>1. \A new : pull' = [pull EXCEPT ![w] = new] =>
           /\ pull'[w] = new
           /\ new.phase # "idle" => Busy(w)' /\ \A v \in Workers \ {w} : ~Busy(v)'
    BY <1>0 DEF Undisturbed, Busy, TypeOK
  <1>2. CASE LinkMissing(w) \/ Relook(w) \/ BindPaper(w)
    <2>1. PICK new : /\ pull' = [pull EXCEPT ![w] = new]
                     /\ new.phase \in {"relook", "refresh", "bind", "store"}
                     /\ new.rows = pull[w].rows /\ new.sections = pull[w].sections
                     /\ new.since = pull[w].since
      <3>1. CASE LinkMissing(w)
        <4>1. LET new == [pull[w] EXCEPT !.phase = "relook"]
              IN  /\ new.phase = "relook" /\ new.rows = pull[w].rows
                  /\ new.sections = pull[w].sections /\ new.since = pull[w].since
          BY <1>0 DEF PullType
        <4> QED
          BY <3>1, <4>1 DEF LinkMissing
      <3>2. CASE BindPaper(w)
        <4>1. LET new == [pull[w] EXCEPT !.phase = "store"]
              IN  /\ new.phase = "store" /\ new.rows = pull[w].rows
                  /\ new.sections = pull[w].sections /\ new.since = pull[w].since
          BY <1>0 DEF PullType
        <4> QED
          BY <3>2, <4>1 DEF BindPaper
      <3>3. CASE Relook(w)
        <4> DEFINE phase == IF link.row THEN "refresh" ELSE "bind"
                   copy == IF link.row THEN link ELSE NoLink
                   new == [pull[w] EXCEPT !.phase = phase, !.copy = copy]
        <4>1. phase \in {"refresh", "bind"}
          OBVIOUS
        <4>2. pull' = [pull EXCEPT ![w] = new]
          BY <3>3 DEF Relook
        <4> HIDE DEF phase, copy
        <4>3. /\ new.phase = phase /\ new.rows = pull[w].rows
              /\ new.sections = pull[w].sections /\ new.since = pull[w].since
          BY <1>0 DEF PullType
        <4> QED
          BY <4>1, <4>2, <4>3
      <3> QED
        BY <1>2, <3>1, <3>2, <3>3
    <2>2. pull[w].phase \notin {"sync", "listing"} /\ UNCHANGED stored
      BY <1>2 DEF LinkMissing, Relook, BindPaper
    <2>3. Storing(w)'
      BY <1>0, <1>1, <2>1, <2>2 DEF Undisturbed, Storing, Wanted, InRows, IsStored, ToStore
    <2> QED
      BY <1>1, <2>1, <2>3 DEF Undisturbed
  <1>3. CASE RefreshLink(w)
    <2>1. pull'[w].alone = Disturbed(pull)[w].alone
      <3>1. Disturbed(pull)[w] \in PullType /\ Disturbed(pull) \in [Workers -> PullType]
        BY DisturbedType
      <3>2. pull' = [Disturbed(pull) EXCEPT ![w] = [Disturbed(pull)[w] EXCEPT
                        !.phase = "store", !.copy = NoLink]]
        BY <1>3, <3>1 DEF RefreshLink
      <3>3. \A x, y : [Disturbed(pull)[w] EXCEPT !.phase = x, !.copy = y].alone = Disturbed(pull)[w].alone
        BY <3>1 DEF PullType
      <3> QED
        BY <3>1, <3>2, <3>3
    <2> QED
      BY <2>1, DisturbedType
  <1>4. CASE ListResponses(w)
    <2> DEFINE f == [a \in Attempts |-> IF ToStore(w, a) THEN graded[a].mark ELSE 0]
               new == [pull[w] EXCEPT !.phase = "store", !.sections = f]
    <2>1. pull' = [pull EXCEPT ![w] = new] /\ UNCHANGED stored /\ pull[w].phase = "listing"
      BY <1>4 DEF ListResponses
    <2>2. \A a \in Attempts : f[a] = IF ToStore(w, a) THEN graded[a].mark ELSE 0
      OBVIOUS
    <2> HIDE DEF f
    <2>3. /\ new.phase = "store" /\ new.rows = pull[w].rows /\ new.sections = f
          /\ new.since = pull[w].since
      BY <1>0 DEF PullType
    <2> HIDE DEF new
    <2>4. Storing(w)'
      <3>1. \A a \in Attempts : Wanted(w, a) => pull[w].rows[a] = graded[a].mark
        BY <1>0, <2>1 DEF Undisturbed, Storing, InRows
      <3>2. \A a \in Attempts : Wanted(w, a) => f[a] = graded[a].mark
        BY <1>0, <2>2, <3>1 DEF ToStore
      <3> QED
        BY <1>0, <1>1, <2>1, <2>3, <3>1, <3>2 DEF Storing, Wanted, InRows
    <2> QED
      BY <1>1, <2>1, <2>3, <2>4 DEF Undisturbed
  <1>5. ASSUME NEW a \in Attempts, StoreRow(w, a) PROVE Undisturbed(w)'
    <2>1. /\ Through(w, a).phase = pull[w].phase /\ Through(w, a).since = pull[w].since
          /\ \A b \in Attempts :
              /\ Through(w, a).rows[b] = IF b = a THEN 0 ELSE pull[w].rows[b]
              /\ Through(w, a).sections[b] = IF b = a THEN 0 ELSE pull[w].sections[b]
      BY ThroughFields
    <2>2. pull' = [pull EXCEPT ![w] = Through(w, a)] /\ pull[w].phase = "store" /\ ToStore(w, a)
      BY <1>5 DEF StoreRow
    <2>3. /\ \A b \in Attempts \ {a} : stored'[b] = stored[b]
          /\ stored'[a].mark = pull[w].rows[a] /\ stored'[a].sections = pull[w].sections[a]
          /\ stored'[a].synced = 0
      BY <1>5 DEF StoreRow, TypeOK
    <2>4. PICK new : new = pull'[w] /\ new = Through(w, a)
      BY <1>1, <2>2
    <2>5. ASSUME NEW b \in Attempts, graded[b].released > new.since
          PROVE  \/ new.rows[b] = graded[b].mark /\ new.sections[b] = graded[b].mark
                 \/ /\ ~(new.rows[b] > 0) /\ stored'[b].synced = 0
                    /\ stored'[b].mark = graded[b].mark /\ stored'[b].sections = graded[b].mark
      <3>1. \/ pull[w].rows[b] = graded[b].mark /\ pull[w].sections[b] = graded[b].mark
            \/ /\ ~(pull[w].rows[b] > 0) /\ stored[b].synced = 0
               /\ stored[b].mark = graded[b].mark /\ stored[b].sections = graded[b].mark
        BY <1>0, <2>1, <2>2, <2>4, <2>5 DEF Undisturbed, Storing, Wanted, InRows, IsStored, ToStore
      <3>2. CASE b = a
        <4>1. new.rows[b] = 0 /\ pull[w].rows[b] > 0
          BY <2>1, <2>2, <2>4, <3>2 DEF ToStore
        <4> QED
          BY <2>3, <3>1, <3>2, <4>1
      <3>3. CASE b # a
        BY <2>1, <2>3, <2>4, <3>1, <3>3
      <3> QED
        BY <3>2, <3>3
    <2>6. new.phase = "store"
      BY <2>1, <2>2, <2>4
    <2>7. Storing(w)'
      BY <1>0, <2>4, <2>5, <2>6 DEF Storing, Wanted, InRows, IsStored, ToStore
    <2> QED
      BY <1>1, <2>2, <2>4, <2>6, <2>7 DEF Undisturbed
  <1>6. CASE ReadPending(w)
    <2> DEFINE new == [pull[w] EXCEPT !.phase = "sync", !.pending = Pending]
    <2>1. new.phase = "sync" /\ new.pending = Pending /\ new.since = pull[w].since
      BY <1>0 DEF PullType
    <2>2. /\ pull' = [pull EXCEPT ![w] = new] /\ UNCHANGED <<stored, link, cell>>
          /\ pull[w].phase = "store" /\ \A a \in Attempts : ~ToStore(w, a)
      BY <1>6 DEF ReadPending
    <2> HIDE DEF new
    <2>3. \A p \in Pending : p.column = link.column /\ p.mark = stored[p.attempt].mark /\ p.mark > 0
      BY DEF Pending
    <2>4. ASSUME NEW a \in Attempts, stored[a].mark > 0, stored[a].synced = 0
          PROVE  \E p \in Pending : p.attempt = a
      <3>1. [attempt |-> a, mark |-> stored[a].mark, column |-> link.column] \in Pending
        BY <2>4 DEF Pending
      <3> QED
        BY <3>1
    <2>5. ASSUME NEW a \in Attempts, graded[a].released > pull[w].since
          PROVE  IsStored(a) /\ stored[a].synced = 0
      BY <1>0, <2>2, <2>5 DEF Undisturbed, Storing, Wanted, InRows, ToStore
    <2>6. Projecting(w)'
      <3>1. \A a \in Attempts : graded[a].released > pull[w].since => \E p \in Pending : p.attempt = a
        BY <1>0, <2>4, <2>5 DEF IsStored
      <3>2. \A a \in Attempts : stored[a].mark > 0 =>
                stored[a].synced # 0 \/ \E p \in Pending : p.attempt = a
        BY <2>4
      <3>3. \A a \in Attempts : IsStored(a)' = IsStored(a)
        BY <1>0, <2>2 DEF IsStored
      <3> QED
        BY <1>0, <1>1, <2>1, <2>2, <2>3, <2>5, <3>1, <3>2, <3>3 DEF Projecting, Wanted, IsPending
    <2> QED
      BY <1>1, <2>1, <2>2, <2>6 DEF Undisturbed
  <1>7. ASSUME NEW p \in pull[w].pending, PassOver(w, p) \/ WriteCell(w, p) PROVE Undisturbed(w)'
    <2> DEFINE new == [pull[w] EXCEPT !.pending = @ \ {p}]
    <2>1. /\ new.phase = "sync" /\ new.pending = pull[w].pending \ {p}
          /\ new.since = pull[w].since
      BY <1>0, <1>7 DEF PullType, PassOver, WriteCell
    <2>2. pull' = [pull EXCEPT ![w] = new] /\ UNCHANGED link /\ pull[w].phase = "sync"
      BY <1>7 DEF PassOver, WriteCell
    <2> HIDE DEF new
    <2>3. Projecting(w) /\ p \in PendingType
      BY <1>0, <2>2 DEF Undisturbed, PullType
    <2>4. PICK left : left = pull'[w].pending /\ left = pull[w].pending \ {p}
      BY <1>1, <2>1, <2>2
    <2>5. pull'[w].since = pull[w].since /\ pull'[w].phase = "sync"
      BY <1>1, <2>1, <2>2
    <2>6. Projecting(w)'
      <3>1. CASE PassOver(w, p)
        <4>1. UNCHANGED <<stored, cell>>
          BY <3>1 DEF PassOver
        <4>2. p.attempt \in WalkIns \/ link.column = NoColumn
          BY <2>3, <3>1 DEF PassOver, Placed, Projecting
        <4>3. \A a \in Attempts : HasPlace(a) /\ IsPending(w, a) => \E q \in left : q.attempt = a
          BY <2>4, <4>2 DEF HasPlace, IsPending
        <4>4. \A q \in left : q.column = link.column /\ q.mark = stored[q.attempt].mark /\ q.mark > 0
          BY <2>3, <2>4 DEF Projecting
        <4>5. \A a \in Attempts :
                /\ graded[a].released > pull[w].since =>
                     IsStored(a) /\ (HasPlace(a) => Landed(a) \/ \E q \in left : q.attempt = a)
                /\ HasPlace(a) /\ stored[a].mark > 0 =>
                     stored[a].synced # 0 \/ \E q \in left : q.attempt = a
          BY <2>3, <4>3 DEF Projecting, Wanted
        <4> QED
          BY <1>0, <2>2, <2>4, <2>5, <4>1, <4>4, <4>5
             DEF Projecting, Wanted, IsPending, IsStored, HasPlace, Landed
      <3>2. CASE WriteCell(w, p)
        <4>1. /\ p.attempt \in Attempts /\ p.column \in Columns /\ p.mark > 0
              /\ p.column = link.column /\ p.mark = stored[p.attempt].mark
          BY <2>3, <3>2 DEF WriteCell, Placed, PendingType, Projecting
        <4>2. /\ \A b \in Attempts : /\ stored'[b].mark = stored[b].mark
                                     /\ stored'[b].sections = stored[b].sections
                                     /\ b # p.attempt => stored'[b] = stored[b]
              /\ stored'[p.attempt].synced = p.mark
              /\ \A b \in Attempts : cell'[link.column][b] =
                                         IF b = p.attempt THEN p.mark ELSE cell[link.column][b]
          BY <3>2, <4>1 DEF WriteCell, TypeOK
        <4>3. \A q \in left : q.attempt \in Attempts
          BY <1>0, <2>4 DEF PullType, PendingType
        <4>4. \A q \in left : q.column = link.column /\ q.mark = stored'[q.attempt].mark /\ q.mark > 0
          BY <2>3, <2>4, <4>2, <4>3 DEF Projecting
        <4>5. ASSUME NEW a \in Attempts
              PROVE  /\ graded[a].released > pull[w].since =>
                          /\ stored'[a].mark = graded[a].mark /\ stored'[a].sections = graded[a].mark
                          /\ HasPlace(a) =>
                               \/ /\ cell'[link.column][a] = graded[a].mark
                                  /\ stored'[a].synced = graded[a].mark
                               \/ \E q \in left : q.attempt = a
                     /\ HasPlace(a) /\ stored'[a].mark > 0 =>
                          stored'[a].synced # 0 \/ \E q \in left : q.attempt = a
          <5>1. /\ graded[a].released > pull[w].since =>
                     IsStored(a) /\ (HasPlace(a) => Landed(a) \/ IsPending(w, a))
                /\ HasPlace(a) /\ stored[a].mark > 0 => stored[a].synced # 0 \/ IsPending(w, a)
            BY <2>3 DEF Projecting, Wanted
          <5>2. CASE a = p.attempt
            BY <4>1, <4>2, <5>1, <5>2 DEF IsStored
          <5>3. CASE a # p.attempt
            <6>1. IsPending(w, a) => \E q \in left : q.attempt = a
              BY <2>4, <5>3 DEF IsPending
            <6> QED
              BY <4>2, <5>1, <5>3, <6>1 DEF IsStored, Landed
          <5> QED
            BY <5>2, <5>3
        <4> QED
          BY <1>0, <2>2, <2>4, <2>5, <4>4, <4>5
             DEF Projecting, Wanted, IsPending, IsStored, HasPlace, Landed
      <3> QED
        BY <1>7, <3>1, <3>2
    <2> QED
      BY <1>1, <2>1, <2>2, <2>6 DEF Undisturbed
  <1>8. CASE Finish(w) \/ Killed(w)
    <2>1. pull'[w] = Idle
      BY <1>8 DEF Finish, Killed, TypeOK
    <2> QED
      BY <2>1 DEF Idle
  <1>9. CASE (\E a \in Attempts : StoreFails(w, a)) \/ \E p \in pull[w].pending : WriteFails(w, p)
    <2>1. ASSUME NEW a \in Attempts, StoreFails(w, a) PROVE pull'[w].alone = FALSE
      <3>1. Through(w, a) \in PullType
        BY ThroughFields
      <3> QED
        BY <2>1, <3>1 DEF StoreFails, TypeOK, PullType
    <2>2. ASSUME NEW p \in pull[w].pending, WriteFails(w, p) PROVE pull'[w].alone = FALSE
      BY <1>0, <2>2 DEF WriteFails, TypeOK, PullType
    <2> QED
      BY <1>9, <2>1, <2>2
  <1>10. CASE FetchFails(w)
    <2>1. UNCHANGED <<graded, link, stored, cell, pull>>
      BY <1>10 DEF FetchFails
    <2> QED
      BY <1>0, <2>1 DEF Undisturbed, Busy, Projecting, Storing, Landed, HasPlace, Wanted, InRows,
         IsStored, IsPending, ToStore
  <1> QED
    BY <1>2, <1>3, <1>4, <1>5, <1>6, <1>7, <1>8, <1>9, <1>10 DEF Work, Trouble

\* Every step keeps SettlingInv.
LEMMA SettlingStays ==
  ASSUME PullAssumption, TypeOK, SettlingInv, [Next]_vars PROVE SettlingInv'
  <1>1. CASE UNCHANGED vars
    BY <1>1 DEF vars, SettlingInv, Undisturbed, Busy, Projecting, Storing, Landed, HasPlace, Wanted,
       InRows, IsStored, IsPending, ToStore
  <1>2. CASE (\E a \in Attempts : Revise(a)) \/ Release \/ \E c \in Columns : LinkPaper(c)
    <2>1. pull' = Disturbed(pull)
      BY <1>2 DEF Revise, Release, LinkPaper
    <2> QED
      BY <1>2, <2>1, MarksStay, DisturbedType DEF SettlingInv, Next
  <1>3. ASSUME NEW w \in Workers, TakeTask(w) \/ PullByHand(w) PROVE SettlingInv'
    <2>1. \A a \in Attempts : graded'[a].mark > 0
      BY <1>3 DEF TakeTask, PullByHand, Fetch, SettlingInv
    <2>2. PICK since \in Nat : Fetch(w, since)
      BY <1>3 DEF TakeTask, PullByHand, TypeOK
    <2> QED
      BY <2>1, <2>2, FreshPull DEF SettlingInv
  <1>4. ASSUME NEW w \in Workers, Work(w) \/ Trouble(w) PROVE SettlingInv'
    <2>1. Next
      BY <1>4 DEF Next
    <2>2. ASSUME NEW v \in Workers, pull'[v].alone PROVE Undisturbed(v)'
      <3>1. \A u \in Workers \ {w} : pull'[u] = pull[u] \/ pull'[u].alone = FALSE
        <4>1. CASE RefreshLink(w)
          BY <4>1, DisturbedType DEF RefreshLink
        <4>2. CASE ~RefreshLink(w)
          BY <1>4, <4>2 DEF Work, Trouble, LinkMissing, ListResponses, Relook, BindPaper, StoreRow, ReadPending,
             PassOver, WriteCell, Finish, StoreFails, WriteFails, FetchFails, Killed, TypeOK
        <4> QED
          BY <4>1, <4>2
      <3>2. CASE v # w
        <4>1. pull'[v] = pull[v] /\ Undisturbed(v)
          BY <2>2, <3>1, <3>2 DEF SettlingInv
        <4>2. ~Busy(w)
          BY <3>2, <4>1 DEF Undisturbed
        <4>3. FetchFails(w)
          BY <1>4, <4>2 DEF Busy, Work, Trouble, LinkMissing, ListResponses, Relook, RefreshLink, BindPaper,
             StoreRow, ReadPending, PassOver, WriteCell, Finish, StoreFails, WriteFails, Killed
        <4> QED
          BY <4>1, <4>3 DEF FetchFails, Undisturbed, Busy, Projecting, Storing, Landed, HasPlace, Wanted,
             InRows, IsStored, IsPending, ToStore
      <3>3. CASE v = w /\ pull[w].alone
        BY <1>4, <2>2, <3>3, OwnStep
      <3>4. CASE v = w /\ ~pull[w].alone
        <4>1. pull'[w].alone = FALSE \/ pull'[w].alone = pull[w].alone
          <5>1. pull[w] \in PullType
            BY DEF TypeOK
          <5>2. CASE RefreshLink(w)
            BY <5>1, <5>2, DisturbedType DEF RefreshLink, PullType
          <5>3. CASE Finish(w) \/ Killed(w)
            BY <5>3 DEF Finish, Killed, TypeOK, Idle
          <5>4. CASE LinkMissing(w) \/ Relook(w) \/ BindPaper(w) \/ ReadPending(w) \/ FetchFails(w)
                     \/ ListResponses(w)
            BY <5>1, <5>4 DEF LinkMissing, ListResponses, Relook, BindPaper, ReadPending, FetchFails,
               TypeOK, PullType
          <5>5. ASSUME NEW a \in Attempts, StoreRow(w, a) \/ StoreFails(w, a)
                PROVE  pull'[w].alone = FALSE \/ pull'[w].alone = pull[w].alone
            <6>1. Through(w, a) \in PullType /\ Through(w, a).alone = pull[w].alone
              BY ThroughFields
            <6> QED
              BY <5>5, <6>1 DEF StoreRow, StoreFails, TypeOK, PullType
          <5>6. CASE \E p \in pull[w].pending : PassOver(w, p) \/ WriteCell(w, p) \/ WriteFails(w, p)
            BY <5>1, <5>6 DEF PassOver, WriteCell, WriteFails, TypeOK, PullType
          <5> QED
            BY <1>4, <5>2, <5>3, <5>4, <5>5, <5>6 DEF Work, Trouble
        <4> QED
          BY <2>2, <3>4, <4>1
      <3> QED
        BY <3>2, <3>3, <3>4
    <2> QED
      BY <2>1, <2>2, MarksStay DEF SettlingInv
  <1> QED
    BY <1>1, <1>2, <1>3, <1>4 DEF Next

\* Whatever earlier pulls lost or left half done, one pull that nothing disturbs stores
\* every released mark it asked for and writes it, and all that waits, where it belongs.
THEOREM OnePullSettles == ASSUME PullAssumption PROVE Spec => []UndisturbedPullSettles
  <1>1. Init => SettlingInv
    BY DEF Init, SettlingInv, Idle
  <1>2. TypeOK /\ SettlingInv /\ [Next]_vars => SettlingInv'
    BY SettlingStays
  <1>3. ASSUME TypeOK, SettlingInv PROVE UndisturbedPullSettles
    <2> SUFFICES ASSUME NEW w \in Workers, pull[w].alone, pull[w].phase = "sync", pull[w].pending = {}
                 PROVE  Settled(pull[w].since)
      BY DEF UndisturbedPullSettles
    <2>1. Projecting(w)
      BY <1>3 DEF SettlingInv, Undisturbed
    <2>2. \A a \in Attempts : Listed(pull[w].since)[a] > 0 => Wanted(w, a)
      BY DEF Listed, Wanted
    <2>3. \A a \in Attempts : ~IsPending(w, a)
      BY DEF IsPending
    <2> QED
      BY <2>1, <2>2, <2>3 DEF Settled, Projecting, IsStored
  <1> QED
    BY <1>1, <1>2, <1>3, TypeInvariant, PTL DEF Spec
=============================================================================
