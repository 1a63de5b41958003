--------------------------- MODULE Dictation_proofs ---------------------------
(***************************************************************************)
(* TakeSync implements Dictation on a page that is not reloaded, and the   *)
(* loop of a page stops for good reason only.                              *)
(***************************************************************************)
EXTENDS TakeSync_proofs

(***************************************************************************)
(* What a set of mutations shows, in the words of either module.           *)
(***************************************************************************)
LEMMA EntriesOf ==
    ASSUME NEW K, NEW q
    PROVE  /\ Promised!Of(Sequenced(K), "answer", q) = Sheet!AnswersTo(K, q)
           /\ Promised!Of(Sequenced(K), "mark", q) = Sheet!MarksOf(K, q)
BY DEF Promised!Of, Sequenced, Sheet!AnswersTo, Sheet!MarksOf, Sheet!IsSequenced

LEMMA ValueShown ==
    ASSUME NEW K, NEW q, NEW v, ShowsAnswer(v, Sheet!AnswersTo(K, q))
    PROVE  Promised!Value(Sequenced(K), q, v)
<1> DEFINE S == Sheet!AnswersTo(K, q)
<1>1. Promised!Of(Sequenced(K), "answer", q) = S
  BY EntriesOf
<1> HIDE DEF S
<1>2. ASSUME NEW a \in S, v = a.val, \A m \in S : m.seq <= a.seq
      PROVE  a \in Promised!Newest(S) /\ S # {}
  BY <1>2 DEF Promised!Newest
<1>3. QED
  BY <1>1, <1>2 DEF ShowsAnswer, Promised!Value, S

LEMMA FlagShown ==
    ASSUME NEW K \in SUBSET Mutations, NEW q, NEW b \in BOOLEAN, ShowsFlag(b, Sheet!MarksOf(K, q))
    PROVE  Promised!Flag(Sequenced(K), q, b)
<1> DEFINE S == Sheet!MarksOf(K, q)
<1>1. Promised!Of(Sequenced(K), "mark", q) = S
  BY EntriesOf
<1>2. \A m \in S : m.on \in BOOLEAN
  BY SequencedType DEF Sheet!MarksOf, Sheet!MarkMutation
<1> HIDE DEF S
<1>3. ASSUME NEW k \in S, b <=> k.on, \A m \in S : m.seq <= k.seq
      PROVE  k \in Promised!Newest(S) /\ S # {} /\ b = k.on
  BY <1>2, <1>3 DEF Promised!Newest
<1>4. QED
  BY <1>1, <1>3 DEF ShowsFlag, Promised!Flag, S

(***************************************************************************)
(* The mapping.                                                            *)
(***************************************************************************)
Entered == Sequenced(Known)
Noted == Sequenced(ledger)
Screen == [q \in Questions |-> [val |-> AsRow(st.resp[q]), flag |-> q \in st.marked]]
OnSheet == [q \in Questions |-> [val |-> rows[q].val, flag |-> rows[q].marked]]

LEMMA ScreenShows ==
    ASSUME TypeOK, InOrder
    PROVE  Promised!Shows(Entered, Screen)
<1>1. Known \in SUBSET Mutations
  BY KnownType
<1>2. ASSUME NEW q \in Questions
      PROVE  /\ Promised!Value(Entered, q, Screen[q].val)
             /\ Promised!Flag(Entered, q, Screen[q].flag)
  <2>1. Screen[q].val = AsRow(st.resp[q]) /\ Screen[q].flag = (q \in st.marked)
    BY DEF Screen
  <2>2. (q \in st.marked) \in BOOLEAN
    OBVIOUS
  <2>3. /\ ShowsAnswer(AsRow(st.resp[q]), Sheet!AnswersTo(Known, q))
        /\ ShowsFlag(q \in st.marked, Sheet!MarksOf(Known, q))
    BY DEF InOrder, DeviceShows
  <2>4. QED
    BY <1>1, <2>1, <2>2, <2>3, ValueShown, FlagShown DEF Entered
<1>3. QED
  BY <1>2 DEF Promised!Shows

LEMMA SheetShows ==
    ASSUME TypeOK, InOrder
    PROVE  Promised!Shows(Noted, OnSheet)
<1>1. ledger \in SUBSET Mutations
  BY KnownType DEF Known
<1>2. ASSUME NEW q \in Questions
      PROVE  /\ Promised!Value(Noted, q, OnSheet[q].val)
             /\ Promised!Flag(Noted, q, OnSheet[q].flag)
  <2>1. /\ OnSheet[q].val = rows[q].val /\ OnSheet[q].flag = rows[q].marked
        /\ rows[q].marked \in BOOLEAN
    BY DEF OnSheet, TypeOK, Sheet!TypeOK, Sheet!Row
  <2>2. /\ ShowsAnswer(rows[q].val, Sheet!AnswersTo(ledger, q))
        /\ ShowsFlag(rows[q].marked, Sheet!MarksOf(ledger, q))
    BY DEF InOrder, RowsShow
  <2>3. QED
    BY <1>1, <2>1, <2>2, ValueShown, FlagShown DEF Noted
<1>3. QED
  BY <1>2 DEF Promised!Shows

\* The same in the state a step leads to.
LEMMA ShowsNext ==
    TypeOK' /\ InOrder' => Promised!Shows(Entered', Screen') /\ Promised!Shows(Noted', OnSheet')
<1>1. TypeOK /\ InOrder => Promised!Shows(Entered, Screen) /\ Promised!Shows(Noted, OnSheet)
  BY ScreenShows, SheetShows
<1>2. (TypeOK /\ InOrder => Promised!Shows(Entered, Screen) /\ Promised!Shows(Noted, OnSheet))'
  BY <1>1, PTL
<1>3. QED
  BY <1>2

\* What has no gaps is a moment.
LEMMA WholeIsMoment ==
    ASSUME NEW S, Whole(S, Known)
    PROVE  Promised!IsMoment(Sequenced(S))
BY DEF Whole, Promised!IsMoment, Sequenced, Known

(***************************************************************************)
(* What a hand-in has read is the sheet as it was at some moment.          *)
(***************************************************************************)
Glimpse(p) ==
    p.phase = "read" =>
        \E S \in SUBSET ledger :
            /\ Whole(S, Known)
            /\ \A q \in Questions : ShowsAnswer(p.seen[q], Sheet!AnswersTo(S, q))
Glimpses == Glimpse(post) /\ \A p \in strayPosts : Glimpse(p)

\* The same of a value the step does not change.
GlimpseNext(p) ==
    p.phase = "read" =>
        \E S \in SUBSET ledger' :
            /\ Whole(S, Known')
            /\ \A q \in Questions : ShowsAnswer(p.seen[q], Sheet!AnswersTo(S, q))

LEMMA GlimpsesStay ==
    ASSUME TypeOK, TypeOK', Custody, InOrder, DeviceGoesOn, Glimpses, [Next]_vars, ~Reload
    PROVE  Glimpses'
<1>1. ledger \subseteq ledger' /\ Known' \subseteq Mutations
  BY LedgerGrows, ElementsInSet DEF Known, TypeOK, Batch, Sheet!TypeOK, Mutations
<1>2. \A S : Whole(S, Known) => Whole(S, Known')
  BY <1>1, WholeStays DEF DeviceGoesOn
<1>3. \A p : Glimpse(p) => GlimpseNext(p)
  BY <1>1, <1>2 DEF Glimpse, GlimpseNext
<1>4. ASSUME NEW p \in PostType, NEW r, Rephased(p, r)
      PROVE  GlimpseNext(r)
  <2>1. ASSUME r.phase = "read"
        PROVE  \A q \in Questions : r.seen[q] = rows[q].val
    <3>1. r.seen = RowValues
      BY <1>4, <2>1 DEF Rephased, SubmitFind, SubmitRead, PostType
    <3>2. QED
      BY <3>1 DEF RowValues
  <2>2. /\ ledger \in SUBSET ledger' /\ Whole(ledger, Known')
        /\ \A q \in Questions : ShowsAnswer(rows[q].val, Sheet!AnswersTo(ledger, q))
    BY <1>1, <1>2 DEF InOrder, RowsShow
  <2>3. QED
    BY <2>1, <2>2 DEF GlimpseNext
<1>5. \A p : p.phase # "read" => GlimpseNext(p)
  BY DEF GlimpseNext
<1>6. NoPost.phase # "read" /\ \A box : Posting(box).phase # "read"
  BY DEF NoPost, Posting
<1>7. post \in PostType /\ strayPosts \subseteq PostType
  BY DEF TypeOK
<1>8. GlimpseNext(post') /\ \A p \in strayPosts' : GlimpseNext(p)
  BY <1>3, <1>4, <1>5, <1>6, <1>7, PostsMove DEF Glimpses
<1>9. QED
  BY <1>8 DEF Glimpses, Glimpse, GlimpseNext

\* Such a reading is what Dictation lets be marked.
LEMMA GlimpseMarks ==
    ASSUME NEW p, Glimpse(p), p.phase = "read"
    PROVE  \E S \in SUBSET Noted : /\ Promised!IsMoment(S)
                                   /\ \A q \in Questions : Promised!Value(S, q, p.seen[q])
<1>1. PICK S \in SUBSET ledger :
          /\ Whole(S, Known)
          /\ \A q \in Questions : ShowsAnswer(p.seen[q], Sheet!AnswersTo(S, q))
  BY DEF Glimpse
<1>2. Sequenced(S) \in SUBSET Noted
  BY DEF Noted, Sequenced
<1>3. Promised!IsMoment(Sequenced(S))
  BY <1>1, WholeIsMoment
<1>4. \A q \in Questions : Promised!Value(Sequenced(S), q, p.seen[q])
  BY <1>1, ValueShown
<1>5. QED
  BY <1>2, <1>3, <1>4

(***************************************************************************)
(* Every step of a page that is not reloaded enters, notes, marks or       *)
(* changes nothing that Dictation speaks of.                               *)
(***************************************************************************)
Device == <<outbox, st>>
Server == <<rows, ledger>>

\* Only the scoring of a hand-in changes the paper, and it changes nothing else.
LEMMA PaperMoves ==
    ASSUME TypeOK, [Next]_vars, ~Reload
    PROVE  \/ paper' = paper
           \/ /\ UNCHANGED <<Device, Server>>
              /\ paper'.phase = "read" /\ (paper' = post \/ paper' \in strayPosts)
<1> USE DEF device, storage, sheet, server, net, clock, Device, Server
<1>1. CASE ScorePost \/ \E p \in strayPosts : ScoreStrayPost(p)
  BY <1>1 DEF ScorePost, ScoreStrayPost
<1>2. CASE ~(ScorePost \/ \E p \in strayPosts : ScoreStrayPost(p))
  BY <1>2 DEF Next, vars, Dispatch, Track, Flush, HandIn, FlushOk, FlushRefused, FlushFailed,
              BackoffElapsed, Online, HandedIn, HandInFailed, Restore, Persist, PutFails,
              AdmitCall, BeginCall, AdmitStray, BeginStray, ApplyNext, Commit, Rollback, Ends,
              FindPost, ReadPost, FindStrayPost, ReadStrayPost, TimeUp
<1>3. QED
  BY <1>1, <1>2

\* Only a commit changes the sheet, and it changes nothing else.
LEMMA ServerMoves ==
    ASSUME [Next]_vars
    PROVE  \/ UNCHANGED Server
           \/ Commit /\ UNCHANGED <<Device, paper>> /\ tx.open /\ ledger' = tx.ledger
<1>1. CASE Commit
  BY <1>1 DEF Commit, Ends, Sheet!Commit, device, server, Device
<1>2. CASE ~Commit
  BY <1>2, SheetMoves DEF Sheet!Begin, Sheet!ApplyNext, Sheet!Rollback, Server
<1>3. QED
  BY <1>1, <1>2

\* The device keeps what it shows, or enters one more.
LEMMA DeviceMoves ==
    ASSUME TypeOK, Named, Custody, InOrder, [Next]_vars, ~Reload
    PROVE  \/ Entered' = Entered /\ Screen' = Screen
           \/ /\ \E m \in Sequenced(Mutations) :
                    Entered' = Entered \cup {m} /\ \A n \in Entered : n.seq < m.seq
              /\ UNCHANGED <<Server, paper>>
<1>0. outbox \in Seq(Mutations) /\ st \in AttemptState /\ Known \subseteq Mutations
  BY KnownType DEF TypeOK, Batch
<1>1. ASSUME st' = st \/ Unrecorded(st, st')
      PROVE  Screen' = Screen
  BY <1>1 DEF Unrecorded, Screen
<1>2. ASSUME Known' = Known
      PROVE  Entered' = Entered
  BY <1>2 DEF Entered
<1>3. ASSUME NEW m \in Observation, Makes(m), ledger' = ledger
      PROVE  Entered' = Entered
  <2>1. Known' = Known \cup {m} /\ ~Sheet!IsSequenced(m)
    BY <1>0, <1>3, ObservationType, ElementsAppend DEF Known, Makes
  <2>2. QED
    BY <2>1 DEF Entered, Sequenced
<1>4. CASE Dispatch
  <2>1. UNCHANGED <<ledger, Server, paper>>
    BY <1>4 DEF Dispatch, sheet, server, Server
  <2>2. ASSUME NEW m, Makes(m), Answered(st, m, st') \/ Flagged(st, m, st')
        PROVE  \E k \in Sequenced(Mutations) :
                   Entered' = Entered \cup {k} /\ \A n \in Entered : n.seq < k.seq
    <3>1. m \in Mutations /\ Known' = Known \cup {m}
      BY <1>0, <2>1, <2>2, ElementsAppend DEF Makes, Known
    <3>2. Sheet!IsSequenced(m) /\ \A n \in Known : Sheet!IsSequenced(n) => n.seq < m.seq
      BY <1>0, <2>2, <3>1, RecordedIsShown DEF InOrder
    <3>3. QED
      BY <3>1, <3>2 DEF Entered, Sequenced
  <2>3. QED
    BY <1>1, <1>2, <1>4, <2>1, <2>2, DispatchMakes DEF Known
<1>5. CASE Track
  <2>1. ledger' = ledger /\ st' = st
    BY <1>5 DEF Track, sheet
  <2>2. QED
    BY <1>1, <1>3, <1>5, <2>1, TrackMakes
<1>6. CASE HandIn
  <2>1. ledger' = ledger /\ Unrecorded(st, st')
    BY <1>0, <1>6, ReduceSubmit DEF HandIn, sheet
  <2>2. QED
    BY <1>1, <1>2, <1>3, <1>6, <2>1, HandInMakes DEF Known
<1>7. CASE FlushOk
  BY <1>1, <1>2, <1>7, FlushOkPrunes DEF FlushOk, Known
<1>8. CASE HandedIn \/ Restore \/ Persist \/ PutFails
  <2>1. UNCHANGED <<outbox, ledger, st>>
    BY <1>8 DEF HandedIn, Restore, Persist, PutFails, InOrder, device, sheet
  <2>2. QED
    BY <1>1, <1>2, <2>1 DEF Known
<1>9. CASE ~(Dispatch \/ Track \/ HandIn \/ FlushOk \/ HandedIn \/ Restore \/ Persist \/ PutFails)
  <2>1. UNCHANGED <<outbox, st>>
    BY <1>9, OthersElsewhere, StateStays DEF Elsewhere
  <2>2. ASSUME Commit, tx.open, ledger' = tx.ledger
        PROVE  Known' = Known
    BY <2>1, <2>2 DEF Known, InOrder, Custody, Whole
  <2>3. QED
    BY <1>1, <1>2, <2>1, <2>2, ServerMoves DEF Known, Server
<1>10. QED
  BY <1>4, <1>5, <1>6, <1>7, <1>8, <1>9

\* The same entries noted, the same sheet.
LEMMA SameSheet ==
    ASSUME TypeOK, TypeOK', InOrder, InOrder', Noted' = Noted
    PROVE  OnSheet' = OnSheet
<1>1. ledger \in SUBSET Mutations /\ Known \subseteq Mutations /\ ledger \subseteq Known
  BY KnownType DEF Known
<1>2. ASSUME NEW q \in Questions
      PROVE  rows'[q].val = rows[q].val /\ rows'[q].marked = rows[q].marked
  <2> DEFINE A == Sheet!AnswersTo(ledger, q)
             M == Sheet!MarksOf(ledger, q)
  <2>1. Sheet!AnswersTo(ledger', q) = A /\ Sheet!MarksOf(ledger', q) = M
    BY DEF Noted, Sequenced, Sheet!AnswersTo, Sheet!MarksOf, Sheet!IsSequenced
  <2>2. /\ A \in SUBSET Mutations /\ M \in SUBSET Mutations
        /\ \A m \in A \cup M : Sheet!IsSequenced(m) /\ m \in Known
    BY <1>1 DEF Sheet!AnswersTo, Sheet!MarksOf, Sheet!IsSequenced
  <2>3. /\ ShowsAnswer(rows[q].val, A) /\ ShowsFlag(rows[q].marked, M)
        /\ ShowsAnswer(rows'[q].val, A) /\ ShowsFlag(rows'[q].marked, M)
    BY <2>1 DEF InOrder, RowsShow
  <2> HIDE DEF A, M
  <2>4. /\ \A m, n \in A : m.seq = n.seq => m = n
        /\ \A m, n \in M : m.seq = n.seq => m = n
    BY <2>2 DEF InOrder, Numbered
  <2>5. rows[q].marked \in BOOLEAN /\ rows'[q].marked \in BOOLEAN
    BY DEF TypeOK, Sheet!TypeOK, Sheet!Row
  <2>6. QED
    BY <2>2, <2>3, <2>4, <2>5, ShownOnce
<1>3. QED
  BY <1>2 DEF OnSheet

LEMMA StepsPromised ==
    ASSUME TypeOK, TypeOK', Named, Custody, InOrder, InOrder',
           Glimpses, [Next]_vars, ~Reload
    PROVE  \/ Promised!Enter \/ Promised!Note \/ Promised!Mark
           \/ UNCHANGED <<Entered, Noted, Screen, OnSheet, paper.seen>>
<1> DEFINE Same == UNCHANGED <<Entered, Noted, Screen, OnSheet, paper.seen>>
<1>1. /\ Entered = Sequenced(ToSet(outbox) \cup ledger) /\ Noted = Sequenced(ledger)
      /\ Entered' = Sequenced(ToSet(outbox) \cup ledger)' /\ Noted' = Sequenced(ledger)'
      /\ Entered \subseteq Sequenced(Mutations)
  BY KnownType DEF Entered, Noted, Known, Sequenced
<1>2. Promised!Shows(Entered', Screen') /\ Promised!Shows(Noted', OnSheet')
  BY ShowsNext
<1>3. UNCHANGED Server => UNCHANGED <<Noted, OnSheet>>
  BY DEF Server, Noted, OnSheet
<1>4. UNCHANGED <<Device, Server>> => UNCHANGED <<Entered, Screen>>
  BY DEF Device, Server, Entered, Known, Screen
<1>5. CASE paper' # paper
  <2>1. /\ UNCHANGED <<Device, Server>>
        /\ paper'.phase = "read" /\ (paper' = post \/ paper' \in strayPosts)
    BY <1>5, PaperMoves
  <2>2. UNCHANGED <<Entered, Noted, Screen, OnSheet>>
    BY <1>3, <1>4, <2>1
  <2>3. Glimpse(paper')
    BY <2>1 DEF Glimpses
  <2>4. \E S \in SUBSET Noted : /\ Promised!IsMoment(S)
                                /\ \A q \in Questions : Promised!Value(S, q, paper'.seen[q])
    BY <2>1, <2>3, GlimpseMarks
  <2>5. paper'.seen # paper.seen => Promised!Mark
    BY <2>2, <2>4 DEF Promised!Mark, Noted, Entered, Known, Screen, OnSheet
  <2>6. QED
    BY <2>2, <2>5
<1>6. CASE paper' = paper /\ Commit
  <2>1. /\ UNCHANGED <<Device, paper>> /\ tx.open /\ ledger' = tx.ledger
    BY <1>6 DEF Commit, Ends, Sheet!Commit, device, server, Device
  <2>2. QED
    <3>1. UNCHANGED <<Entered, Screen>>
      <4>1. outbox' = outbox /\ st' = st
        BY <2>1 DEF Device
      <4>2. Known' = Known
        BY <2>1, <4>1 DEF Known, InOrder, Custody, Whole
      <4>3. QED
        BY <4>1, <4>2 DEF Entered, Screen
    <3>2. Noted \subseteq Noted'
      BY LedgerGrows DEF Noted, Sequenced
    <3>3. Promised!IsMoment(Noted')
      BY <2>1, <3>1, WholeIsMoment DEF InOrder, Noted
    <3>4. Noted' = Noted => OnSheet' = OnSheet
      BY SameSheet
    <3>5. Noted' # Noted => Promised!Note
      BY <1>2, <2>1, <3>1, <3>2, <3>3
         DEF Promised!Note, Noted, Entered, Known, Screen, OnSheet
    <3>6. QED
      BY <2>1, <3>1, <3>4, <3>5
<1>7. CASE paper' = paper /\ ~Commit
  <2>1. UNCHANGED <<Noted, OnSheet>>
    BY <1>3, <1>7, ServerMoves
  <2>2. ASSUME NEW m \in Sequenced(Mutations), Entered' = Entered \cup {m},
               \A n \in Entered : n.seq < m.seq
        PROVE  Promised!Enter
    <3>1. m.seq \in Nat
      BY SequencedType DEF Sequenced
    <3>2. m \notin Entered
      BY <2>2, <3>1
    <3>3. QED
      BY <1>2, <1>7, <2>1, <2>2, <3>2
         DEF Promised!Enter, Noted, Entered, Known, Screen, OnSheet
  <2>3. QED
    BY <1>7, <2>1, <2>2, DeviceMoves
<1>8. QED
  BY <1>5, <1>6, <1>7

\* Before anything is entered.
LEMMA InitPromised == Init => Promised!Init /\ Glimpses
<1> SUFFICES ASSUME Init PROVE Promised!Init /\ Glimpses
  OBVIOUS
<1>1. /\ outbox = <<>> /\ ledger = {} /\ rows = Sheet!NoRows /\ st = FreshState
      /\ paper = NoPost /\ post = NoPost /\ strayPosts = {}
  BY DEF Init, Sheet!Init
<1>2. Sequenced(ToSet(outbox) \cup ledger) = {} /\ Sequenced(ledger) = {}
  BY <1>1, ElementsEmpty DEF Sequenced
<1>3. paper.seen = [q \in Questions |-> Blank]
  BY <1>1 DEF NoPost, NoPaper
<1>4. \A q \in Questions : /\ AsRow(st.resp[q]) = Blank /\ (q \in st.marked) = FALSE
                           /\ rows[q].val = Blank /\ rows[q].marked = FALSE
  <2>1. ASSUME NEW q \in Questions
        PROVE  st.resp[q] = NoAnswer /\ q \notin st.marked /\ rows[q] = Sheet!Absent
    BY <1>1 DEF FreshState, Sheet!NoRows
  <2>2. Sheet!Absent.val = Blank /\ Sheet!Absent.marked = FALSE
    BY DEF Sheet!Absent
  <2>3. ASSUME NEW q \in Questions
        PROVE  (q \in st.marked) = FALSE
    <3>1. st.marked = {}
      BY <1>1 DEF FreshState
    <3>2. QED
      BY <3>1
  <2>4. \A q \in Questions : AsRow(st.resp[q]) = Blank
    BY <2>1 DEF AsRow
  <2>5. QED
    BY <2>1, <2>2, <2>3, <2>4, Zenon
<1>5. Glimpses
  BY <1>1 DEF Glimpses, Glimpse, NoPost
<1>6. QED
  BY <1>2, <1>3, <1>4, <1>5 DEF Promised!Init, Promised!NoPaper, Promised!Untouched

\* Until its first reload a page keeps what Dictation promises, step by step: answers and flags reach the sheet in the order they
\* were made, none left out, and the sheet and whatever paper is marked are the screen
\* as it once was, through any number of lost, late and resent requests (use-attempt.ts
\* flush, apply-mutations.ts, submit-attempt.ts).
THEOREM DictatedUntilReloaded ==
    Spec => Promised!Init /\ [][reloads' = 0 => [Promised!Next]_(Promised!vars)]_vars
<1> DEFINE Inv == /\ TypeOK /\ Named /\ Custody
                  /\ reloads = 0 => InOrder /\ Glimpses
<1>1. Init => Inv /\ Promised!Init
  BY InitType, InitCustody, InitInOrder, InitPromised
<1>2. TypeOK /\ [Next]_vars /\ reloads' = 0 => reloads = 0 /\ ~Reload
  BY ReloadsMove DEF Reload, TypeOK
<1>3. Inv /\ [Next]_vars => Inv'
  <2> SUFFICES ASSUME Inv, [Next]_vars PROVE Inv'
    OBVIOUS
  <2>1. TypeOK' /\ Named' /\ Custody'
    BY NextType, NamedStays, CustodyStays
  <2>2. reloads' = 0 => DeviceGoesOn /\ InOrder' /\ Glimpses'
    BY <1>2, <2>1, InOrderStays, GlimpsesStay
  <2>3. QED
    BY <2>1, <2>2
<1>4. Inv /\ Inv' /\ [Next]_vars => [reloads' = 0 => [Promised!Next]_(Promised!vars)]_vars
  <2> SUFFICES ASSUME Inv, Inv', [Next]_vars, reloads' = 0
               PROVE  [Promised!Next]_(Promised!vars)
    OBVIOUS
  <2>1. \/ Promised!Enter \/ Promised!Note \/ Promised!Mark
        \/ UNCHANGED <<Entered, Noted, Screen, OnSheet, paper.seen>>
    BY <1>2, StepsPromised
  <2>2. UNCHANGED <<Entered, Noted, Screen, OnSheet, paper.seen>> => UNCHANGED Promised!vars
    BY DEF Promised!vars, Entered, Noted, Known, Screen, OnSheet
  <2>3. QED
    BY <2>1, <2>2 DEF Promised!Next
<1>5. QED
  BY <1>1, <1>3, <1>4, PTL DEF Spec

\* A page that is never reloaded implements Dictation.
THEOREM SittingIsADictation ==
    ASSUME MaxReloads = 0
    PROVE  Spec => RefinesDictation
<1> DEFINE Unloaded == reloads = 0
<1>1. Init => Unloaded
  BY DEF Init
<1>2. TypeOK /\ Unloaded /\ [Next]_vars => Unloaded'
  BY ReloadsMove DEF Reload
<1>3. Unloaded' /\ [reloads' = 0 => [Promised!Next]_(Promised!vars)]_vars
          => [Promised!Next]_(Promised!vars)
  <2>1. UNCHANGED vars => UNCHANGED Promised!vars
    BY DEF vars, device, sheet, server, Promised!vars
  <2>2. QED
    BY <2>1
<1>4. Spec => Promised!Init /\ [][reloads' = 0 => [Promised!Next]_(Promised!vars)]_vars
  BY DictatedUntilReloaded
<1>5. Spec => []TypeOK
  BY TakeSyncType
<1>6. QED
  BY <1>1, <1>2, <1>3, <1>4, <1>5, PTL
     DEF Spec, RefinesDictation, Promised!Spec

(***************************************************************************)
(* Why the loop stops.                                                     *)
(***************************************************************************)
TooLong(box) == Len(box) > BatchLimit

\* A page that takes no input before it has restored sends none before, what it sent is no more than what it still holds, and a
\* refusal has one of two reasons.
Stops ==
    /\ page = "loading" => outbox = <<>> /\ armed = "ready" /\ call.phase = "none"
    /\ call.phase # "none" => Len(call.batch) <= Len(outbox)
    /\ call.phase = "refused" => submitted \/ TooLong(call.batch)
    /\ armed = "blocked" => submitted \/ TooLong(outbox)

\* What the steps may do to the parts Stops relates, and still keep it.
LEMMA StopsCarriesOver ==
    ASSUME TypeOK, TypeOK', Stops, page' = page, submitted => submitted',
           Len(outbox) <= Len(outbox'), page = "loading" => outbox' = outbox,
           armed' = armed \/ armed' = "ready",
           \/ call' = call \/ call'.phase = "none"
           \/ /\ call'.batch = call.batch /\ call.phase # "none"
              /\ call'.phase = "refused" => Refuses(call.batch)
    PROVE  Stops'
<1>1. /\ BatchLimit \in Nat /\ outbox \in Seq(Mutations) /\ outbox' \in Seq(Mutations)
      /\ call.batch \in Seq(Mutations)
  BY TakeAssumption DEF TypeOK, Batch, CallType
<1>2. Len(outbox) \in Nat /\ Len(outbox') \in Nat /\ Len(call.batch) \in Nat
  BY <1>1
<1>3. TooLong(outbox) => TooLong(outbox')
  BY <1>1, <1>2 DEF TooLong
<1>4. QED
  BY <1>1, <1>2, <1>3 DEF Stops, Refuses, TooLong

LEMMA StopsStay ==
    ASSUME ActsEarly = FALSE, TypeOK, TypeOK', Custody, Stops, [Next]_vars
    PROVE  Stops'
<1> USE DEF device, storage, sheet, server, net, clock
<1>0. /\ BatchLimit \in Nat /\ outbox \in Seq(Mutations) /\ outbox' \in Seq(Mutations)
      /\ call.batch \in Seq(Mutations) /\ page \in {"loading", "live"}
  BY TakeAssumption DEF TypeOK, Batch, CallType
<1>1. CASE \/ UNCHANGED vars \/ Persist \/ PutFails \/ HandedIn \/ HandInFailed
           \/ FindPost \/ ReadPost \/ ScorePost \/ TimeUp \/ ApplyNext \/ BackoffElapsed \/ Online
  <2>1. /\ page' = page /\ outbox' = outbox /\ call' = call /\ (submitted => submitted')
        /\ armed' = armed \/ armed' = "ready"
    BY <1>1 DEF vars, Persist, PutFails, HandedIn, HandInFailed, FindPost, ReadPost, ScorePost,
                TimeUp, ApplyNext, BackoffElapsed, Online, Stops
  <2>2. QED
    BY <1>0, <2>1, StopsCarriesOver
<1>2. CASE Dispatch \/ Track
  <2>1. ASSUME NEW m, Makes(m)
        PROVE  Len(outbox') = Len(outbox) + 1
    BY <1>0, <2>1 DEF Makes
  <2>2. Len(outbox) <= Len(outbox')
    BY <1>0, <1>2, <2>1, DispatchMakes, TrackMakes
  <2>3. page = "live" /\ UNCHANGED <<page, armed, call, submitted>>
    BY <1>0, <1>2 DEF Dispatch, Track, CanAct
  <2>4. QED
    BY <2>2, <2>3, StopsCarriesOver
<1>3. CASE Flush
  <2>1. outbox # <<>> /\ armed = "ready" /\ UNCHANGED <<page, outbox, armed, submitted>>
    BY <1>3 DEF Flush, CanFlush
  <2>2. call'.phase = "sent" /\ call'.batch = outbox
    BY <1>3 DEF Flush, Sending
  <2>3. QED
    BY <1>0, <2>1, <2>2 DEF Stops
<1>4. CASE HandIn
  <2>1. ASSUME NEW m, Makes(m)
        PROVE  Len(outbox') = Len(outbox) + 1
    BY <1>0, <2>1 DEF Makes
  <2>2. Len(outbox) <= Len(outbox')
    BY <1>0, <1>4, <2>1, HandInMakes
  <2>3. page = "live" /\ UNCHANGED <<page, armed, submitted>>
    BY <1>4 DEF HandIn
  <2>4. CASE call' = call
    BY <2>2, <2>3, <2>4, StopsCarriesOver
  <2>5. CASE CanFlush(outbox') /\ call' = Sending(outbox')
    <3>1. armed' = "ready" /\ call'.phase = "sent" /\ call'.batch = outbox'
      BY <2>3, <2>5 DEF CanFlush, Sending
    <3>2. QED
      BY <1>0, <2>3, <3>1 DEF Stops
  <2>6. QED
    BY <1>4, <2>4, <2>5 DEF HandIn
<1>5. CASE FlushOk \/ FlushFailed
  <2>1. /\ page' = page /\ page = "live" /\ call'.phase = "none"
        /\ armed' \in {"ready", "backoff"}
    BY <1>0, <1>5 DEF FlushOk, FlushFailed, NoCall, AfterFault, Stops
  <2>2. QED
    BY <2>1 DEF Stops
<1>6. CASE FlushRefused
  <2>1. /\ UNCHANGED <<page, outbox, submitted>> /\ page = "live" /\ call'.phase = "none"
        /\ submitted \/ TooLong(call.batch)
    BY <1>0, <1>6 DEF FlushRefused, NoCall, Stops
  <2>2. TooLong(call.batch) => TooLong(outbox)
    BY <1>0, <1>6 DEF FlushRefused, Stops, TooLong
  <2>3. QED
    BY <2>1, <2>2 DEF Stops
<1>7. CASE Reload
  BY <1>7 DEF Reload, NoCall, Stops
<1>8. CASE Restore
  <2>1. page = "loading" /\ page' = "live" /\ UNCHANGED <<armed, call, submitted>>
    BY <1>8 DEF Restore
  <2>2. QED
    BY <2>1 DEF Stops
<1>9. CASE AdmitCall \/ BeginCall \/ Commit \/ Rollback
  <2>1. /\ UNCHANGED <<page, armed, outbox, submitted>>
        /\ \/ call' = call
           \/ /\ call'.batch = call.batch /\ call.phase # "none"
              /\ call'.phase = "refused" => Refuses(call.batch)
    BY <1>9 DEF AdmitCall, BeginCall, Commit, Rollback, Ends, TypeOK, CallType, Custody
  <2>2. QED
    BY <1>0, <2>1, StopsCarriesOver
<1>10. ASSUME NEW r \in strays, AdmitStray(r) \/ BeginStray(r)
       PROVE  Stops'
  <2>1. UNCHANGED <<page, armed, outbox, submitted, call>>
    BY <1>10 DEF AdmitStray, BeginStray
  <2>2. QED
    BY <1>0, <2>1, StopsCarriesOver
<1>11. ASSUME NEW p \in strayPosts, FindStrayPost(p) \/ ReadStrayPost(p) \/ ScoreStrayPost(p)
       PROVE  Stops'
  <2>1. UNCHANGED <<page, armed, outbox, call>> /\ (submitted => submitted')
    BY <1>11 DEF FindStrayPost, ReadStrayPost, ScoreStrayPost
  <2>2. QED
    BY <1>0, <2>1, StopsCarriesOver
<1>12. QED
  BY <1>1, <1>2, <1>3, <1>4, <1>5, <1>6, <1>7, <1>8, <1>9, <1>10, <1>11 DEF Next

\* The loop stops for good reason only: a page that sends no more has been handed in, or
\* holds more than one request may carry (isRetryable, SYNC_BATCH_LIMIT).
THEOREM LoopStopsWithReason ==
    ASSUME ActsEarly = FALSE
    PROVE  Spec => []LoopStopsForAReason
<1> DEFINE Inv == TypeOK /\ Named /\ Custody /\ Stops
<1>1. Init => Inv
  BY InitType, InitCustody DEF Init, NoCall, Stops
<1>2. Inv /\ [Next]_vars => Inv'
  BY NextType, NamedStays, CustodyStays, StopsStay
<1>3. Inv => LoopStopsForAReason
  BY DEF Stops, TooLong, LoopStopsForAReason
<1>4. QED
  BY <1>1, <1>2, <1>3, PTL DEF Spec

===============================================================================
