------------------------ MODULE EventDelivery_proofs ------------------------
(***************************************************************************)
(* What holds of the event delivery however many passes, catch-ups and     *)
(* faults there are.                                                       *)
(***************************************************************************)
EXTENDS EventDelivery, TLAPS, FiniteSetTheorems, WellFoundedInduction

\* What is assumed of the constants.
Assumed == LogAssumption /\ ReceiverAssumption /\ DeliveryAssumption

----------------------------------------------------------------------------
(***************************************************************************)
(* The inductive invariant.                                                *)
(***************************************************************************)
\* Only committed events are seen outside their transaction.
AllCommitted ==
    /\ recorded \subseteq Committed
    /\ \A j \in jobs : j.seq \in Committed
    /\ \A p \in Passes : \A d \in todo[p] : d.seq \in Committed
    /\ \A c \in CatchUps : catchUp[c].page \subseteq Committed /\ catchUp[c].log \subseteq Committed

\* A handler past its first transaction has its event on record.
AfterRecord == \A j \in jobs : j.step \in {"advance", "act", "ok"} => j.seq \in recorded

\* A handler somebody waits for is the only one that caller has, and it handles
\* the event the caller is at.
PassWaits == \A j \in jobs : \A p \in Passes :
                j.by = p => /\ p \in posted /\ \E d \in todo[p] : d.seq = j.seq
                            /\ \A e \in todo[p] : j.seq <= e.seq
RunWaits == \A j \in jobs : \A c \in CatchUps :
                j.by = c => catchUp[c].phase = "page" /\ IsNextOf(c, j.seq)
OneEach == \A j, k \in jobs : j.by = k.by /\ j.by # Nobody => j = k

\* One handler is between recording an event and acting on it, and its pull is
\* not queued before that handler acts, nor ever twice.
Acting(j) == j.step \in {"advance", "act"}
InHandOnce == \A j, k \in jobs : Acting(j) /\ Acting(k) /\ j.seq = k.seq => j = k
NotYetPulled == \A j \in jobs : Acting(j) /\ j.seq \in Released => pulls[j.seq] = 0
PulledOnce == \A s \in Released : pulls[s] \in {0, 1} /\ (pulls[s] = 1 => s \in recorded)

\* A pass counts no more failures than the row has had.
CountsUp == \A p \in Passes : \A d \in todo[p] :
                delivery[d.seq].row => d.attempts <= delivery[d.seq].attempts

\* A run only asks while it may.
MayAsk == \A c \in CatchUps : catchUp[c].phase = "asking" => catchUp[c].left > 0

\* The work in hand.
Work == AfterRecord /\ PassWaits /\ RunWaits /\ OneEach

\* What is kept besides the types.
Kept == /\ AllCommitted /\ Work /\ InHandOnce /\ NotYetPulled /\ PulledOnce /\ CountsUp
        /\ DeliveredWasRecorded /\ CursorIsRecorded /\ ReleaseIsAccountedFor /\ ParkedHadItsChances

DeliveryInv == TypeOK /\ MayAsk /\ Kept

----------------------------------------------------------------------------
(***************************************************************************)
(* What the steps do to the handlers.                                      *)
(***************************************************************************)
\* What the log does without Schedjuice, pauses included.
OwnStep == LogStep \/ PauseWebhook

\* A step with one of its disjuncts named, one level down.
LEMMA Disjuncts ==
  ASSUME Next
  PROVE  \/ OwnStep /\ UNCHANGED receiverVars
         \/ \E p \in Passes : Send(p) \/ HearOk(p) \/ HearFailure(p) \/ PassOver(p) \/ TimeOut(p) \/ Die(p)
         \/ \E j \in jobs : /\ Record(j) \/ AdvanceCursor(j) \/ ActOn(j) \/ Breaks(j) \/ BrokerDown(j)
                            /\ UNCHANGED logVars
         \/ \E c \in CatchUps :
               /\ \/ StartCatchUp(c, Committed) \/ ReadPage(c, EventsSince(catchUp[c].at, PageSize))
                  \/ Replay(c) \/ AskFailed(c)
                  \/ \E j \in jobs : Replayed(c, j) \/ ReplayFailed(c, j)
               /\ UNCHANGED logVars
  BY DEF Next, OwnStep, Deliver, Handle, Misfortune, CatchUpStep, Unreachable

\* A handler that goes on is the same one, a step further.
LEMMA GoesJobs ==
  ASSUME TypeOK, NEW j \in jobs, NEW step \in {"advance", "act", "ok", "failed"}, Goes(j, step)
  PROVE  \E after \in JobType :
            /\ after.seq = j.seq /\ after.by = j.by /\ after.step = step
            /\ jobs' \subseteq (jobs \ {j}) \cup {after} /\ jobs \ {j} \subseteq jobs'
            /\ step \in {"advance", "act"} => after \in jobs'
  <1> DEFINE after == [j EXCEPT !.step = step]
  <1>1. after \in JobType /\ after.seq = j.seq /\ after.by = j.by /\ after.step = step
    BY DEF TypeOK, JobType
  <1>2. /\ jobs' \subseteq (jobs \ {j}) \cup {after} /\ jobs \ {j} \subseteq jobs'
        /\ step \in {"advance", "act"} => after \in jobs'
    BY DEF Goes
  <1> QED
    BY <1>1, <1>2

\* What a caller that gives up leaves behind has no caller, and nothing between
\* recording and acting is left out.
LEMMA AbandonJobs ==
  ASSUME TypeOK, NEW p \in Passes, Abandon(p)
  PROVE  /\ \A k \in jobs' : \/ k \in jobs /\ k.by # p
                             \/ \E i \in jobs : /\ i.by = p /\ i.step \notin {"ok", "failed"}
                                                /\ k = [i EXCEPT !.by = Nobody] /\ k \in JobType
                                                /\ k.seq = i.seq /\ k.step = i.step /\ k.by = Nobody
         /\ \A i \in jobs : /\ i.by # p => i \in jobs'
                            /\ i.by = p /\ Acting(i) => [i EXCEPT !.by = Nobody] \in jobs'
  <1>1. \A i \in jobs : LET k == [i EXCEPT !.by = Nobody]
                        IN  k \in JobType /\ k.seq = i.seq /\ k.step = i.step /\ k.by = Nobody
    BY DEF TypeOK, JobType
  <1>2. PICK left \in SUBSET Abandoned(p) :
           /\ \A j \in Abandoned(p) \ left : j.step = "record"
           /\ jobs' = {j \in jobs : j.by # p} \cup left
    BY DEF Abandon
  <1>3. \A k \in jobs' : \/ k \in jobs /\ k.by # p
                         \/ \E i \in jobs : /\ i.by = p /\ i.step \notin {"ok", "failed"}
                                            /\ k = [i EXCEPT !.by = Nobody]
    BY <1>2 DEF Abandoned
  <1>4. ASSUME NEW i \in jobs, i.by = p, Acting(i) PROVE [i EXCEPT !.by = Nobody] \in jobs'
    <2>1. [i EXCEPT !.by = Nobody] \in Abandoned(p)
      BY <1>4 DEF Abandoned, Acting
    <2>2. [i EXCEPT !.by = Nobody].step # "record"
      BY <1>1, <1>4 DEF Acting
    <2> QED
      BY <1>2, <2>1, <2>2
  <1>5. \A i \in jobs : i.by # p => i \in jobs'
    BY <1>2
  <1>6. ASSUME NEW k \in jobs'
        PROVE  \/ k \in jobs /\ k.by # p
               \/ \E i \in jobs : /\ i.by = p /\ i.step \notin {"ok", "failed"}
                                  /\ k = [i EXCEPT !.by = Nobody] /\ k \in JobType
                                  /\ k.seq = i.seq /\ k.step = i.step /\ k.by = Nobody
    BY <1>1, <1>3
  <1> QED
    BY <1>4, <1>5, <1>6

\* A new handler.
LEMMA JobType1 ==
  ASSUME NEW s \in Seqs, NEW by \in Passes \cup CatchUps
  PROVE  /\ Job(s, by) \in JobType /\ Job(s, by).seq = s /\ Job(s, by).by = by
         /\ Job(s, by).step = "record"
  BY DEF Job, JobType

----------------------------------------------------------------------------
(***************************************************************************)
(* Types.                                                                  *)
(***************************************************************************)
\* The oldest of a set are in it.
LEMMA OldestIn == ASSUME NEW S, NEW n PROVE Oldest(S, n) \subseteq S
  BY DEF Oldest

\* A row written back keeps the table typed.
LEMMA WithRowType ==
  ASSUME TypeOK, NEW s \in Seqs, NEW row, delivery[s].row => row \in Row, WithRow(s, row)
  PROVE  delivery' \in [Seqs -> Row \cup {NoRow}]
  BY DEF TypeOK, WithRow

\* A row that is there is a full row.
LEMMA RowType ==
  ASSUME TypeOK, NEW s \in Seqs
  PROVE  /\ delivery[s].row => delivery[s] \in Row
         /\ ~delivery[s].row => delivery[s] = NoRow
         /\ delivery[s].attempts \in Nat
  <1>1. CASE delivery[s] \in Row
    <2>1. delivery[s].row = TRUE /\ delivery[s].attempts \in Nat
      BY <1>1 DEF Row
    <2> QED
      BY <1>1, <2>1
  <1>2. CASE delivery[s] = NoRow
    <2>1. delivery[s].row = FALSE /\ delivery[s].attempts = 0
      BY <1>2 DEF NoRow
    <2> QED
      BY <1>2, <2>1
  <1> QED
    BY <1>1, <1>2 DEF TypeOK

\* A row after one more try is a row.
LEMMA TriedType ==
  ASSUME TypeOK, NEW s \in Seqs, delivery[s].row, NEW due \in {"now", "later", "parked"}
  PROVE  /\ [delivery[s] EXCEPT !.delivered = TRUE, !.attempts = @ + 1] \in Row
         /\ [delivery[s] EXCEPT !.attempts = @ + 1, !.due = due] \in Row
  <1>1. ASSUME NEW r \in Row, NEW n \in Nat
        PROVE  /\ [r EXCEPT !.delivered = TRUE, !.attempts = n] \in Row
               /\ [r EXCEPT !.attempts = n, !.due = due] \in Row
    BY Zenon DEF Row
  <1>2. delivery[s] \in Row /\ delivery[s].attempts + 1 \in Nat
    BY RowType
  <1> QED
    BY <1>1, <1>2, Zenon

\* What TypeOK says of the passes that wait.
PassesTyped == posted \subseteq Passes /\ passing \subseteq Passes \ posted /\ skipped \subseteq Seqs

\* The empty system is well typed.
LEMMA InitType == ASSUME Assumed, Init PROVE TypeOK /\ MayAsk
  <1>1. NewCatchUp \in CatchUpType
    BY DEF NewCatchUp, CatchUpType
  <1>2. catchUp \in [CatchUps -> CatchUpType] /\ MayAsk
    BY <1>1 DEF Init, ReceiverInit, MayAsk, NewCatchUp
  <1>3. /\ tx \in [Seqs -> TxStates] /\ endpoint \in {"active", "paused", "gone"}
        /\ delivery \in [Seqs -> Row \cup {NoRow}]
        /\ todo \in [Passes -> SUBSET [seq : Seqs, attempts : Nat]] /\ PassesTyped
    BY DEF Init, LogInit, TxStates, PassesTyped
  <1> QED
    BY <1>2, <1>3 DEF Init, ReceiverInit, TypeOK, PassesTyped

\* The log's own steps keep it well typed.
LEMMA LogType == ASSUME TypeOK, OwnStep PROVE /\ tx' \in [Seqs -> TxStates] /\ endpoint' \in {"active", "paused", "gone"}
                                             /\ delivery' \in [Seqs -> Row \cup {NoRow}]
                                             /\ todo' \in [Passes -> SUBSET [seq : Seqs, attempts : Nat]]
                                             /\ PassesTyped'
  <1>1. Queued \in Row
    BY DEF Queued, NoRow, Row
  <1>2. ASSUME NEW s \in Seqs, AppendEvent(s) \/ Commit(s) \/ Rollback(s)
        PROVE  tx' \in [Seqs -> TxStates] /\ delivery' \in [Seqs -> Row \cup {NoRow}]
               /\ UNCHANGED <<endpoint, todo, posted, passing, skipped>>
    BY <1>1, <1>2 DEF AppendEvent, Commit, Rollback, TypeOK, TxStates
  <1>3. ASSUME NEW s \in Seqs, BackoffEnds(s)
        PROVE  delivery' \in [Seqs -> Row \cup {NoRow}]
    <2>1. delivery[s] \in Row
      BY <1>3, RowType DEF BackoffEnds, NoRow
    <2>2. [delivery[s] EXCEPT !.due = "now"] \in Row
      BY <2>1 DEF Row
    <2> QED
      BY <1>3, <2>2 DEF BackoffEnds, TypeOK
  <1>4. ASSUME NEW p \in Passes, PassAlone(p)
        PROVE  /\ todo' \in [Passes -> SUBSET [seq : Seqs, attempts : Nat]] /\ PassesTyped'
               /\ UNCHANGED <<tx, endpoint, delivery>>
    <2>1. CASE StartPass(p)
      <3>1. \A s \in Oldest(Due, BatchSize) : s \in Seqs /\ delivery[s].attempts \in Nat
        BY RowType, OldestIn DEF Due, Committed
      <3>2. {[seq |-> s, attempts |-> delivery[s].attempts] : s \in Oldest(Due, BatchSize)}
               \subseteq [seq : Seqs, attempts : Nat]
        BY <3>1
      <3> QED
        BY <2>1, <3>2 DEF StartPass, TypeOK, PassesTyped
    <2>2. CASE Skip(p)
      BY <2>2 DEF Skip, Finish, TypeOK, PassesTyped
    <2>3. CASE FindPaused(p)
      BY <2>3 DEF FindPaused, Free, TypeOK, PassesTyped
    <2> QED
      BY <1>4, <2>1, <2>2, <2>3 DEF PassAlone
  <1>5. AddWebhook \/ RemoveWebhook \/ ResumeWebhook \/ PauseWebhook
           => endpoint' \in {"active", "paused", "gone"} /\ delivery' \in [Seqs -> Row \cup {NoRow}]
              /\ UNCHANGED <<tx, todo, posted, passing, skipped>>
    BY DEF AddWebhook, RemoveWebhook, ResumeWebhook, PauseWebhook, TypeOK
  <1>6. CASE \E s \in Seqs : AppendEvent(s) \/ Commit(s) \/ Rollback(s)
    BY <1>2, <1>6 DEF TypeOK, PassesTyped
  <1>7. CASE \E s \in Seqs : BackoffEnds(s)
    BY <1>3, <1>7 DEF BackoffEnds, TypeOK, PassesTyped
  <1>8. CASE \E p \in Passes : PassAlone(p)
    BY <1>4, <1>8 DEF TypeOK, PassesTyped
  <1>9. CASE AddWebhook \/ RemoveWebhook \/ ResumeWebhook \/ PauseWebhook
    BY <1>5, <1>9 DEF TypeOK, PassesTyped
  <1> QED
    BY <1>6, <1>7, <1>8, <1>9 DEF OwnStep, LogStep

\* The answers a pass hears keep the rows well typed.
LEMMA HeardType ==
  ASSUME TypeOK, NEW p \in Passes, MarkDelivered(p) \/ MarkUnsent(p) \/ Fail(p)
  PROVE  /\ delivery' \in [Seqs -> Row \cup {NoRow}]
         /\ todo' \in [Passes -> SUBSET [seq : Seqs, attempts : Nat]] /\ PassesTyped'
         /\ UNCHANGED <<tx, endpoint>>
  <1>1. \A d \in todo[p] : d.seq \in Seqs /\ d.attempts \in Nat
    BY DEF TypeOK
  <1>2. CASE MarkDelivered(p) \/ MarkUnsent(p)
    <2>1. PICK d \in todo[p] :
             /\ WithRow(d.seq, [delivery[d.seq] EXCEPT !.delivered = TRUE, !.attempts = @ + 1])
             /\ Finish(p, d) /\ UNCHANGED <<tx, endpoint>>
             /\ skipped' \subseteq skipped \cup {d.seq}
      BY <1>2 DEF MarkDelivered, MarkUnsent, Delivered
    <2>2. delivery[d.seq].row
             => [delivery[d.seq] EXCEPT !.delivered = TRUE, !.attempts = @ + 1] \in Row
      BY <1>1, TriedType
    <2>3. delivery' \in [Seqs -> Row \cup {NoRow}]
      BY <1>1, <2>1, <2>2, WithRowType
    <2> QED
      BY <1>1, <2>1, <2>3 DEF Finish, TypeOK, PassesTyped
  <1>3. CASE Fail(p)
    <2>1. PICK d \in todo[p] :
             /\ WithRow(d.seq, [delivery[d.seq] EXCEPT
                    !.attempts = @ + 1,
                    !.due = IF d.attempts + 1 >= MaxAttempts THEN "parked" ELSE "later"])
             /\ Finish(p, d) /\ UNCHANGED <<tx, endpoint, skipped>>
      BY <1>3 DEF Fail
    <2>2. delivery[d.seq].row
             => [delivery[d.seq] EXCEPT
                    !.attempts = @ + 1,
                    !.due = IF d.attempts + 1 >= MaxAttempts THEN "parked" ELSE "later"] \in Row
      <3>1. (IF d.attempts + 1 >= MaxAttempts THEN "parked" ELSE "later") \in {"now", "later", "parked"}
        OBVIOUS
      <3> QED
        BY <1>1, <3>1, TriedType
    <2>3. delivery' \in [Seqs -> Row \cup {NoRow}]
      BY <1>1, <2>1, <2>2, WithRowType
    <2> QED
      BY <1>1, <2>1, <2>3 DEF Finish, TypeOK, PassesTyped
  <1> QED
    BY <1>2, <1>3

\* A handler's step keeps Schedjuice's side well typed.
LEMMA HandlerType ==
  ASSUME TypeOK, NEW j \in jobs,
         Record(j) \/ AdvanceCursor(j) \/ ActOn(j) \/ Breaks(j) \/ BrokerDown(j)
  PROVE  /\ recorded' \subseteq Seqs /\ cursor' \in Nat /\ jobs' \subseteq JobType
         /\ pulls' \in [Released -> Nat] /\ dropped' \subseteq Released
         /\ UNCHANGED catchUp
  <1>1. j.seq \in Seqs /\ j.seq \in Nat
    BY DEF TypeOK, JobType, Seqs
  <1>2. PICK step \in {"advance", "act", "ok", "failed"} : Goes(j, step)
    BY DEF Record, AdvanceCursor, ActOn, Breaks, BrokerDown
  <1>3. jobs' \subseteq JobType
    BY <1>2, GoesJobs DEF TypeOK
  <1>4. CASE Record(j) \/ AdvanceCursor(j)
    BY <1>1, <1>3, <1>4 DEF Record, AdvanceCursor, TypeOK
  <1>5. CASE ActOn(j)
    <2>1. pulls' \in [Released -> Nat]
      BY <1>5 DEF ActOn, TypeOK
    <2> QED
      BY <1>3, <1>5, <2>1 DEF ActOn, TypeOK
  <1>6. CASE Breaks(j) \/ BrokerDown(j)
    BY <1>3, <1>6 DEF Breaks, BrokerDown, TypeOK
  <1> QED
    BY <1>4, <1>5, <1>6

\* A run of catch_up_events that moves on keeps its type.
LEMMA CatchUpStepType ==
  ASSUME Assumed, TypeOK, MayAsk, NEW c \in CatchUps,
         \/ StartCatchUp(c, Committed) \/ ReadPage(c, EventsSince(catchUp[c].at, PageSize))
         \/ AskFailed(c) \/ \E j \in jobs : Replayed(c, j) \/ ReplayFailed(c, j)
  PROVE  catchUp' \in [CatchUps -> CatchUpType] /\ MayAsk'
  <1>1. catchUp[c] \in CatchUpType
    BY DEF TypeOK
  <1>2. ASSUME NEW cu \in CatchUpType, catchUp' = [catchUp EXCEPT ![c] = cu],
               cu.phase = "asking" => cu.left > 0
        PROVE  catchUp' \in [CatchUps -> CatchUpType] /\ MayAsk'
    BY <1>2 DEF TypeOK, MayAsk
  <1>3. CASE StartCatchUp(c, Committed)
    <2> DEFINE cu == [NewCatchUp EXCEPT !.phase = "asking", !.from = cursor,
                                        !.at = cursor, !.left = MaxPages, !.log = Committed]
    <2>1. /\ cursor \in Nat /\ MaxPages \in Nat /\ MaxPages > 0 /\ Committed \subseteq Seqs
      BY DEF Committed, TypeOK, Assumed, ReceiverAssumption
    <2>4. NewCatchUp \in CatchUpType
      BY DEF NewCatchUp, CatchUpType
    <2>3. cu \in CatchUpType /\ cu.left > 0
      BY <2>1, <2>4 DEF CatchUpType
    <2>2. catchUp' = [catchUp EXCEPT ![c] = cu]
      BY <1>3 DEF StartCatchUp
    <2> QED
      BY <1>2, <2>2, <2>3
  <1>4. CASE ReadPage(c, EventsSince(catchUp[c].at, PageSize))
    <2> DEFINE answer == EventsSince(catchUp[c].at, PageSize)
               full == Cardinality(answer) >= PageSize
               cu == [catchUp[c] EXCEPT !.phase = IF answer = {} THEN "done" ELSE "page",
                                        !.page = answer, !.full = full, !.left = @ - 1]
    <2>1. answer \subseteq Seqs /\ full \in BOOLEAN
      BY OldestIn DEF EventsSince, Committed
    <2>2. catchUp[c].left > 0
      BY <1>4 DEF ReadPage, MayAsk
    <2> HIDE DEF answer, full
    <2>3. cu \in CatchUpType /\ cu.phase # "asking"
      <3>1. ASSUME NEW old \in CatchUpType, NEW left \in Nat, NEW phase \in {"page", "done"}
            PROVE  LET new == [old EXCEPT !.phase = phase, !.page = answer, !.full = full, !.left = left]
                   IN  new \in CatchUpType /\ new.phase = phase
        BY <2>1, Zenon DEF CatchUpType
      <3>2. catchUp[c].left - 1 \in Nat
        BY <1>1, <2>2 DEF CatchUpType
      <3>3. (IF answer = {} THEN "done" ELSE "page") \in {"page", "done"}
        OBVIOUS
      <3>4. "page" # "asking" /\ "done" # "asking"
        OBVIOUS
      <3> QED
        BY <1>1, <3>1, <3>2, <3>3, <3>4
    <2>4. catchUp' = [catchUp EXCEPT ![c] = cu]
      BY <1>4 DEF ReadPage, answer, full
    <2> QED
      BY <1>2, <2>3, <2>4
  <1>5. CASE AskFailed(c) \/ \E j \in jobs : ReplayFailed(c, j)
    <2> DEFINE cu == [catchUp[c] EXCEPT !.phase = "failed"]
    <2>1. cu \in CatchUpType /\ cu.phase # "asking"
      BY <1>1 DEF CatchUpType
    <2>2. catchUp' = [catchUp EXCEPT ![c] = cu]
      BY <1>5 DEF AskFailed, ReplayFailed
    <2> QED
      BY <1>2, <2>1, <2>2
  <1>6. ASSUME NEW j \in jobs, Replayed(c, j)
        PROVE  catchUp' \in [CatchUps -> CatchUpType] /\ MayAsk'
    <2> DEFINE rest == catchUp[c].page \ {j.seq}
               cu == [catchUp[c] EXCEPT !.at = IF j.seq > @ THEN j.seq ELSE @,
                                        !.page = rest,
                                        !.phase = AfterPage(catchUp[c], rest)]
    <2>1. j.seq \in Nat
      BY <1>6 DEF TypeOK, JobType, Seqs
    <2>2. /\ AfterPage(catchUp[c], rest) \in {"page", "done", "asking", "stopped"}
          /\ AfterPage(catchUp[c], rest) = "asking" => catchUp[c].left > 0
      BY <1>1 DEF AfterPage, CatchUpType
    <2>3. cu \in CatchUpType /\ (cu.phase = "asking" => cu.left > 0)
      BY <1>1, <2>1, <2>2 DEF CatchUpType
    <2>4. catchUp' = [catchUp EXCEPT ![c] = cu]
      BY <1>6 DEF Replayed
    <2> QED
      BY <1>2, <2>3, <2>4
  <1> QED
    BY <1>3, <1>4, <1>5, <1>6

\* Every step keeps the type invariant.
LEMMA NextType == ASSUME Assumed, TypeOK, MayAsk, [Next]_vars PROVE TypeOK' /\ MayAsk'
  <1>1. CASE Next
    <2>0. faults' \in Nat
      BY <1>1 DEF Next, NoFault, Fault, Deliver, Send, HearOk, HearFailure, PassOver, TimeOut, Die, Handle,
         Misfortune, CatchUpStep, Unreachable, TypeOK
    <2>1. CASE OwnStep /\ UNCHANGED receiverVars
      BY <2>0, <2>1, LogType DEF TypeOK, PassesTyped, MayAsk, receiverVars
    <2>2. ASSUME NEW p \in Passes, Send(p) PROVE TypeOK' /\ MayAsk'
      <3>1. PICK s \in Seqs : Post(p, s) /\ jobs' = jobs \cup {Job(s, p)}
        BY <2>2 DEF Send
      <3>2. jobs' \subseteq JobType
        BY <3>1, JobType1 DEF TypeOK
      <3>3. UNCHANGED <<tx, endpoint, delivery, todo>> /\ PassesTyped'
        BY <3>1 DEF Post, Free, TypeOK, PassesTyped
      <3> QED
        BY <2>0, <2>2, <3>2, <3>3 DEF Send, TypeOK, PassesTyped, MayAsk
    <2>3. ASSUME NEW p \in Passes, HearOk(p) \/ HearFailure(p) \/ PassOver(p) PROVE TypeOK' /\ MayAsk'
      <3>1. MarkDelivered(p) \/ MarkUnsent(p) \/ Fail(p)
        BY <2>3 DEF HearOk, HearFailure, PassOver
      <3>2. jobs' \subseteq JobType /\ UNCHANGED <<recorded, cursor, pulls, dropped, catchUp>>
        BY <2>3 DEF HearOk, HearFailure, PassOver, receiverVars, TypeOK
      <3> QED
        BY <2>0, <3>1, <3>2, HeardType DEF TypeOK, PassesTyped, MayAsk
    <2>4. ASSUME NEW p \in Passes, TimeOut(p) \/ Die(p) PROVE TypeOK' /\ MayAsk'
      <3>1. jobs' \subseteq JobType
        BY <2>4, AbandonJobs DEF TimeOut, Die, TypeOK
      <3>2. UNCHANGED <<recorded, cursor, pulls, dropped, catchUp>>
        BY <2>4 DEF TimeOut, Die
      <3>3. CASE TimeOut(p)
        BY <2>0, <3>1, <3>2, <3>3, HeardType DEF TimeOut, TypeOK, PassesTyped, MayAsk
      <3>4. CASE Die(p)
        <4>1. /\ todo' \in [Passes -> SUBSET [seq : Seqs, attempts : Nat]] /\ PassesTyped'
              /\ UNCHANGED <<tx, endpoint, delivery>>
          BY <3>4 DEF Die, PassDies, TypeOK, PassesTyped
        <4> QED
          BY <2>0, <3>1, <3>2, <4>1 DEF TypeOK, PassesTyped, MayAsk
      <3> QED
        BY <2>4, <3>3, <3>4
    <2>5. ASSUME NEW j \in jobs, UNCHANGED logVars,
                 Record(j) \/ AdvanceCursor(j) \/ ActOn(j) \/ Breaks(j) \/ BrokerDown(j)
          PROVE  TypeOK' /\ MayAsk'
      BY <2>0, <2>5, HandlerType DEF TypeOK, MayAsk, logVars
    <2>6. ASSUME NEW c \in CatchUps, Replay(c), UNCHANGED logVars PROVE TypeOK' /\ MayAsk'
      <3>1. PICK s \in catchUp[c].page : jobs' = jobs \cup {Job(s, c)}
        BY <2>6 DEF Replay
      <3>2. catchUp[c].page \subseteq Seqs
        BY DEF TypeOK, CatchUpType
      <3>3. jobs' \subseteq JobType
        BY <3>1, <3>2, JobType1 DEF TypeOK
      <3> QED
        BY <2>0, <2>6, <3>3 DEF Replay, TypeOK, MayAsk, logVars
    <2>7. ASSUME NEW c \in CatchUps, UNCHANGED logVars,
                 \/ StartCatchUp(c, Committed) \/ ReadPage(c, EventsSince(catchUp[c].at, PageSize))
                 \/ AskFailed(c) \/ \E j \in jobs : Replayed(c, j) \/ ReplayFailed(c, j)
          PROVE  TypeOK' /\ MayAsk'
      <3>1. catchUp' \in [CatchUps -> CatchUpType] /\ MayAsk'
        BY <2>7, CatchUpStepType
      <3>2. jobs' \subseteq jobs /\ UNCHANGED <<recorded, cursor, pulls, dropped>>
        BY <2>7 DEF StartCatchUp, ReadPage, AskFailed, Replayed, ReplayFailed
      <3> QED
        BY <2>0, <2>7, <3>1, <3>2 DEF TypeOK, logVars
    <2>8. CASE \E p \in Passes : Send(p) \/ HearOk(p) \/ HearFailure(p) \/ PassOver(p) \/ TimeOut(p) \/ Die(p)
      BY <2>2, <2>3, <2>4, <2>8
    <2>9. CASE \E c \in CatchUps :
                 /\ \/ StartCatchUp(c, Committed) \/ ReadPage(c, EventsSince(catchUp[c].at, PageSize))
                    \/ Replay(c) \/ AskFailed(c)
                    \/ \E j \in jobs : Replayed(c, j) \/ ReplayFailed(c, j)
                 /\ UNCHANGED logVars
      BY <2>6, <2>7, <2>9
    <2> QED
      BY <1>1, <2>1, <2>5, <2>8, <2>9, Disjuncts
  <1>2. CASE UNCHANGED vars
    BY <1>2 DEF TypeOK, MayAsk, vars, logVars, receiverVars
  <1> QED
    BY <1>1, <1>2

\* The types are an invariant.
THEOREM TypeInvariant == ASSUME Assumed PROVE Spec => []TypeOK
  <1>1. Init => TypeOK /\ MayAsk
    BY InitType
  <1>2. TypeOK /\ MayAsk /\ [Next]_vars => (TypeOK /\ MayAsk)'
    BY NextType
  <1> QED
    BY <1>1, <1>2, PTL DEF Spec

----------------------------------------------------------------------------
(***************************************************************************)
(* The invariants.                                                         *)
(***************************************************************************)
\* Nothing is there to begin with.
LEMMA InitKept == ASSUME Assumed, Init PROVE Kept
  <1>1. /\ recorded = {} /\ jobs = {} /\ cursor = 0 /\ \A p \in Passes : todo[p] = {}
        /\ \A c \in CatchUps : catchUp[c].page = {} /\ catchUp[c].log = {}
        /\ \A s \in Released : pulls[s] = 0
        /\ \A s \in Seqs : ~delivery[s].delivered /\ delivery[s].due # "parked"
    BY DEF Init, LogInit, ReceiverInit, NewCatchUp, NoRow
  <1> QED
    BY <1>1 DEF Kept, AllCommitted, Work, AfterRecord, PassWaits, RunWaits, OneEach, InHandOnce,
       NotYetPulled, PulledOnce, CountsUp, DeliveredWasRecorded, CursorIsRecorded,
       ReleaseIsAccountedFor, ParkedHadItsChances

\* A committed event stays committed.
LEMMA CommittedStays == ASSUME TypeOK, Next PROVE Committed \subseteq Committed'
  <1>1. ASSUME NEW s \in Seqs, AppendEvent(s) \/ Commit(s) \/ Rollback(s)
        PROVE  Committed \subseteq Committed'
    BY <1>1 DEF AppendEvent, Commit, Rollback, Committed, TypeOK
  <1>2. \/ \E s \in Seqs : AppendEvent(s) \/ Commit(s) \/ Rollback(s)
        \/ UNCHANGED tx
    <2>1. OwnStep => \/ \E s \in Seqs : AppendEvent(s) \/ Commit(s) \/ Rollback(s)
                    \/ UNCHANGED tx
      BY DEF OwnStep, LogStep, BackoffEnds, AddWebhook, RemoveWebhook, ResumeWebhook, PauseWebhook, PassAlone,
         StartPass, Skip, FindPaused
    <2>2. \A p \in Passes : Send(p) \/ HearOk(p) \/ HearFailure(p) \/ PassOver(p) \/ TimeOut(p) \/ Die(p)
             => UNCHANGED tx
      BY DEF Send, Post, HearOk, HearFailure, PassOver, TimeOut, Die, MarkDelivered, MarkUnsent, Fail, PassDies
    <2> QED
      BY <2>1, <2>2, Disjuncts DEF logVars
  <1> QED
    BY <1>1, <1>2 DEF Committed

\* The log's own steps change a row only while its event is not committed, or to
\* take it away or let it be tried again.
LEMMA LogChangesRows ==
  ASSUME TypeOK, OwnStep, NEW s \in Seqs
  PROVE  \/ delivery'[s] = delivery[s]
         \/ ~delivery'[s].row /\ ~delivery'[s].delivered /\ delivery'[s].due = "now"
         \/ tx[s] = "unused" /\ ~delivery'[s].delivered /\ delivery'[s].due = "now"
         \/ /\ delivery'[s].due = "now" /\ delivery'[s].attempts = delivery[s].attempts
            /\ delivery'[s].delivered = delivery[s].delivered /\ delivery'[s].row = delivery[s].row
  <1>1. ASSUME NEW r \in Seqs, AppendEvent(r) PROVE delivery'[s] = delivery[s] \/
              (tx[s] = "unused" /\ ~delivery'[s].delivered /\ delivery'[s].due = "now")
    BY <1>1 DEF AppendEvent, TypeOK, Queued, NoRow
  <1>2. ASSUME NEW r \in Seqs, Rollback(r) \/ RemoveWebhook
        PROVE  delivery'[s] = delivery[s] \/ delivery'[s] = NoRow
    BY <1>2 DEF Rollback, RemoveWebhook, TypeOK
  <1>3. ASSUME NEW r \in Seqs, BackoffEnds(r)
        PROVE  delivery'[s] = delivery[s] \/ delivery'[s] = [delivery[s] EXCEPT !.due = "now"]
    BY <1>3 DEF BackoffEnds, TypeOK
  <1>4. \/ UNCHANGED delivery
        \/ \E r \in Seqs : AppendEvent(r) \/ Rollback(r) \/ RemoveWebhook \/ BackoffEnds(r)
    BY DEF OwnStep, LogStep, Commit, AddWebhook, ResumeWebhook, PauseWebhook, PassAlone, StartPass, Skip, FindPaused
  <1>5. ~NoRow.row /\ ~NoRow.delivered /\ NoRow.due = "now"
    BY DEF NoRow
  <1>6. LET row == [delivery[s] EXCEPT !.due = "now"]
        IN  /\ row.due = "now" /\ row.attempts = delivery[s].attempts
            /\ row.delivered = delivery[s].delivered /\ row.row = delivery[s].row
    BY DEF TypeOK, Row, NoRow
  <1> QED
    BY <1>1, <1>2, <1>3, <1>4, <1>5, <1>6, Zenon

\* The log's own steps change a pass only when nobody answers it.
LEMMA LogChangesPasses ==
  ASSUME TypeOK, PassWaits, OwnStep
  PROVE  \/ UNCHANGED <<todo, posted>>
         \/ \E p \in Passes :
               /\ \A j \in jobs : j.by # p
               /\ \A q \in Passes \ {p} : todo'[q] = todo[q] /\ (q \in posted => q \in posted')
               /\ UNCHANGED <<tx, delivery>>
               /\ \A d \in todo'[p] : d \in todo[p] \/ (d.seq \in Committed /\ d.attempts = delivery[d.seq].attempts)
  <1>1. ASSUME NEW p \in Passes, PassAlone(p)
        PROVE  /\ \A j \in jobs : j.by # p
               /\ \A q \in Passes \ {p} : todo'[q] = todo[q] /\ (q \in posted => q \in posted')
               /\ UNCHANGED <<tx, delivery>>
               /\ \A d \in todo'[p] : d \in todo[p] \/ (d.seq \in Committed /\ d.attempts = delivery[d.seq].attempts)
    <2>1. CASE StartPass(p)
      <3>1. \A j \in jobs : j.by # p
        BY <2>1 DEF StartPass, PassWaits
      <3>2. Oldest(Due, BatchSize) \subseteq Committed
        BY OldestIn DEF Due
      <3> QED
        BY <2>1, <3>1, <3>2 DEF StartPass, TypeOK
    <2>2. CASE Skip(p)
      <3>1. p \notin posted /\ \E d \in todo[p] : Finish(p, d) /\ UNCHANGED <<tx, delivery>>
        BY <2>2 DEF Skip, Free
      <3> QED
        BY <3>1 DEF Finish, PassWaits, TypeOK
    <2>3. CASE FindPaused(p)
      BY <2>3 DEF FindPaused, Free, PassWaits, TypeOK
    <2> QED
      BY <1>1, <2>1, <2>2, <2>3 DEF PassAlone
  <1>2. \/ UNCHANGED <<todo, posted>> \/ \E p \in Passes : PassAlone(p)
    BY DEF OwnStep, LogStep, AppendEvent, Commit, Rollback, BackoffEnds, AddWebhook, RemoveWebhook, ResumeWebhook, PauseWebhook
  <1> QED
    BY <1>1, <1>2

\* The log's own steps mark nothing delivered.
LEMMA LogSkipsNothing == ASSUME OwnStep PROVE UNCHANGED skipped
  BY DEF OwnStep, LogStep, AppendEvent, Commit, Rollback, BackoffEnds, AddWebhook, RemoveWebhook,
     ResumeWebhook, PauseWebhook, PassAlone, StartPass, Skip, FindPaused

\* The log's own steps keep everything.
LEMMA LogKeeps == ASSUME Assumed, TypeOK, Kept, OwnStep, UNCHANGED receiverVars,
                         Committed \subseteq Committed'
                  PROVE  Kept'
  <1> USE DEF Kept
  <1>1. \/ UNCHANGED <<todo, posted>>
        \/ \E p \in Passes :
               /\ \A j \in jobs : j.by # p
               /\ \A q \in Passes \ {p} : todo'[q] = todo[q] /\ (q \in posted => q \in posted')
               /\ UNCHANGED <<tx, delivery>>
               /\ \A d \in todo'[p] : d \in todo[p] \/ (d.seq \in Committed /\ d.attempts = delivery[d.seq].attempts)
    BY LogChangesPasses DEF Work
  <1>2. UNCHANGED <<recorded, cursor, jobs, pulls, dropped, catchUp>>
    BY DEF receiverVars
  <1>3. \A p \in Passes : \A d \in todo'[p] :
           d \in todo[p] \/ (d.seq \in Committed /\ d.attempts = delivery[d.seq].attempts /\ UNCHANGED <<tx, delivery>>)
    BY <1>1
  <1>4. AllCommitted'
    BY <1>2, <1>3 DEF AllCommitted
  <1>5. PassWaits'
    BY <1>1, <1>2 DEF Work, PassWaits
  <1>6. (Work /\ InHandOnce /\ NotYetPulled /\ PulledOnce /\ CursorIsRecorded /\ ReleaseIsAccountedFor)'
    BY <1>2, <1>5 DEF Work, AfterRecord, RunWaits, IsNextOf, OneEach, InHandOnce, Acting, NotYetPulled,
       PulledOnce, CursorIsRecorded, ReleaseIsAccountedFor, InHand
  <1>7. CountsUp'
    <2> SUFFICES ASSUME NEW p \in Passes, NEW d \in todo'[p], delivery'[d.seq].row
                 PROVE  d.attempts <= delivery'[d.seq].attempts
      BY DEF CountsUp
    <2>1. CASE d.seq \in Committed /\ d.attempts = delivery[d.seq].attempts /\ UNCHANGED <<tx, delivery>>
      BY <2>1, RowType DEF Committed
    <2>2. CASE d \in todo[p]
      <3>1. d.seq \in Seqs /\ tx[d.seq] # "unused"
        BY <2>2 DEF AllCommitted, Committed
      <3>2. delivery[d.seq].row => d.attempts <= delivery[d.seq].attempts
        BY <2>2 DEF CountsUp
      <3> QED
        BY <3>1, <3>2, LogChangesRows
    <2> QED
      BY <1>3, <2>1, <2>2
  <1>8. DeliveredWasRecorded' /\ ParkedHadItsChances'
    <2> SUFFICES ASSUME NEW s \in Seqs
                 PROVE  /\ delivery'[s].delivered => s \in recorded \cup skipped
                        /\ delivery'[s].due = "parked" => delivery'[s].attempts >= MaxAttempts
      BY <1>2, LogSkipsNothing DEF DeliveredWasRecorded, ParkedHadItsChances
    <2>1. /\ delivery[s].delivered => s \in recorded \cup skipped
          /\ delivery[s].due = "parked" => delivery[s].attempts >= MaxAttempts
      BY DEF DeliveredWasRecorded, ParkedHadItsChances
    <2>2. "now" # "parked"
      OBVIOUS
    <2> QED
      BY <2>1, <2>2, LogChangesRows, Zenon
  <1> QED
    BY <1>4, <1>6, <1>7, <1>8

\* What becomes of the handlers when the pass p is no longer waiting for one.
LetGo(p) ==
    /\ \A k \in jobs' : \/ k \in jobs /\ k.by # p
                        \/ \E i \in jobs : /\ i.by = p /\ i.step \notin {"ok", "failed"}
                                           /\ k = [i EXCEPT !.by = Nobody] /\ k \in JobType
                                           /\ k.seq = i.seq /\ k.step = i.step /\ k.by = Nobody
    /\ \A i \in jobs : /\ i.by # p => i \in jobs'
                       /\ i.by = p /\ Acting(i) => [i EXCEPT !.by = Nobody] \in jobs'

\* A pass that stops waiting keeps what concerns handlers and passes.
LEMMA PassEnds ==
  ASSUME Assumed, TypeOK, Kept, NEW p \in Passes, LetGo(p),
         posted' = posted \ {p}, \A q \in Passes \ {p} : todo'[q] = todo[q],
         todo'[p] \subseteq todo[p],
         UNCHANGED <<tx, recorded, cursor, pulls, dropped, catchUp>>
  PROVE  /\ AllCommitted' /\ Work' /\ InHandOnce' /\ NotYetPulled' /\ PulledOnce'
         /\ CursorIsRecorded' /\ ReleaseIsAccountedFor'
  <1> USE DEF Kept, Work
  <1>1. \A k \in jobs' : \E i \in jobs : k.seq = i.seq /\ k.step = i.step
    BY DEF LetGo
  <1>2. \A k \in jobs' : k.by # p /\ (k.by # Nobody => k \in jobs)
    BY DEF LetGo, Assumed, DeliveryAssumption
  <1>3. \A q \in Passes : todo'[q] \subseteq todo[q]
    OBVIOUS
  <1>4. AllCommitted'
    BY <1>1, <1>3 DEF AllCommitted, Committed
  <1>5. AfterRecord'
    BY <1>1 DEF AfterRecord
  <1>6. PassWaits'
    <2> SUFFICES ASSUME NEW k \in jobs', NEW q \in Passes, k.by = q
                 PROVE  /\ q \in posted' /\ \E d \in todo'[q] : d.seq = k.seq
                        /\ \A e \in todo'[q] : k.seq <= e.seq
      BY DEF PassWaits
    <2>1. k \in jobs /\ q # p
      BY <1>2 DEF Assumed, DeliveryAssumption
    <2> QED
      BY <2>1 DEF PassWaits
  <1>7. RunWaits'
    BY <1>2 DEF RunWaits, IsNextOf, Assumed, DeliveryAssumption
  <1>8. OneEach'
    BY <1>2 DEF OneEach
  <1>9. InHandOnce'
    <2> SUFFICES ASSUME NEW k \in jobs', NEW l \in jobs', Acting(k), Acting(l), k.seq = l.seq
                 PROVE  k = l
      BY DEF InHandOnce
    <2>1. PICK i \in jobs : /\ k.seq = i.seq /\ k.step = i.step
                            /\ \/ k = i /\ i.by # p
                               \/ k = [i EXCEPT !.by = Nobody] /\ i.by = p
      BY DEF LetGo
    <2>2. PICK j \in jobs : /\ l.seq = j.seq /\ l.step = j.step
                            /\ \/ l = j /\ j.by # p
                               \/ l = [j EXCEPT !.by = Nobody] /\ j.by = p
      BY DEF LetGo
    <2>3. i = j
      BY <2>1, <2>2 DEF InHandOnce, Acting
    <2> QED
      BY <2>1, <2>2, <2>3
  <1>10. NotYetPulled'
    BY <1>1 DEF NotYetPulled, Acting
  <1>11. PulledOnce' /\ CursorIsRecorded'
    BY DEF PulledOnce, CursorIsRecorded
  <1>12. ReleaseIsAccountedFor'
    <2> SUFFICES ASSUME NEW s \in recorded \cap Released, pulls[s] = 0, s \notin dropped
                 PROVE  \E k \in jobs' : k.seq = s /\ k.step \in {"advance", "act"}
      BY DEF ReleaseIsAccountedFor, InHand, PulledOnce
    <2>1. PICK i \in jobs : i.seq = s /\ Acting(i)
      BY DEF ReleaseIsAccountedFor, InHand, Acting
    <2>2. CASE i.by # p
      BY <2>1, <2>2 DEF LetGo, Acting
    <2>3. CASE i.by = p
      <3> DEFINE k == [i EXCEPT !.by = Nobody]
      <3>1. k \in jobs'
        BY <2>1, <2>3 DEF LetGo
      <3>2. k.seq = i.seq /\ k.step = i.step
        BY DEF TypeOK, JobType
      <3> QED
        BY <2>1, <3>1, <3>2 DEF Acting
    <2> QED
      BY <2>2, <2>3
  <1> QED
    BY <1>4, <1>5, <1>6, <1>7, <1>8, <1>9, <1>10, <1>11, <1>12

\* A pass that hears of its handler was waiting for that one only.
LEMMA HeardGo ==
  ASSUME Assumed, TypeOK, Kept, NEW p \in Passes, NEW j \in jobs,
         j.by = p, j.step \in {"ok", "failed"}, jobs' = jobs \ {j}
  PROVE  LetGo(p)
  <1>1. \A k \in jobs : k.by = p => k = j
    BY DEF Kept, Work, OneEach, Assumed, DeliveryAssumption
  <1>2. ~Acting(j)
    BY DEF Acting
  <1> QED
    BY <1>1, <1>2 DEF LetGo

\* What a pass makes of its row when it has heard, or has not: one more try, said
\* to be delivered only if it was answered or passed over, parked only if enough
\* were counted.
LEMMA HeardRows ==
  ASSUME TypeOK, NEW p \in Passes, MarkDelivered(p) \/ MarkUnsent(p) \/ Fail(p)
  PROVE  /\ posted' = posted \ {p} /\ UNCHANGED tx /\ skipped \subseteq skipped'
         /\ \A q \in Passes \ {p} : todo'[q] = todo[q]
         /\ todo'[p] \subseteq todo[p]
         /\ \E d \in todo[p] :
              /\ IsNext(p, d)
              /\ \A s \in Seqs :
                   \/ delivery'[s] = delivery[s]
                   \/ /\ s = d.seq /\ delivery[s].row
                      /\ delivery'[s].attempts = delivery[s].attempts + 1
                      /\ delivery'[s].delivered => delivery[s].delivered \/ (MarkDelivered(p) /\ ~Fail(p)) \/ s \in skipped'
                      /\ delivery'[s].due = "parked"
                            => delivery[s].due = "parked" \/ d.attempts + 1 >= MaxAttempts
  <1>1. CASE (MarkDelivered(p) \/ MarkUnsent(p)) /\ ~Fail(p)
    <2>1. PICK d \in todo[p] :
             /\ IsNext(p, d) /\ Finish(p, d) /\ UNCHANGED tx
             /\ WithRow(d.seq, [delivery[d.seq] EXCEPT !.delivered = TRUE, !.attempts = @ + 1])
             /\ skipped \subseteq skipped'
             /\ delivery[d.seq].row => MarkDelivered(p) \/ d.seq \in skipped'
      BY <1>1 DEF MarkDelivered, MarkUnsent, Delivered
    <2>2. ASSUME NEW s \in Seqs, s = d.seq, delivery[s].row
          PROVE  /\ delivery'[s].attempts = delivery[s].attempts + 1
                 /\ delivery'[s].due = delivery[s].due
      <3>1. delivery[s] \in Row
        BY <2>2, RowType
      <3>2. delivery'[s] = [delivery[s] EXCEPT !.delivered = TRUE, !.attempts = delivery[s].attempts + 1]
        BY <2>1, <2>2 DEF WithRow, TypeOK
      <3> QED
        BY <3>1, <3>2 DEF Row
    <2>3. \A s \in Seqs : s # d.seq \/ ~delivery[s].row => delivery'[s] = delivery[s]
      BY <2>1 DEF WithRow, TypeOK
    <2>4. posted' = posted \ {p} /\ todo' = [todo EXCEPT ![p] = @ \ {d}]
      BY <2>1 DEF Finish
    <2> QED
      BY <1>1, <2>1, <2>2, <2>3, <2>4 DEF TypeOK
  <1>2. CASE Fail(p)
    <2>1. PICK d \in todo[p] :
             /\ IsNext(p, d) /\ Finish(p, d) /\ UNCHANGED <<tx, skipped>>
             /\ WithRow(d.seq, [delivery[d.seq] EXCEPT
                    !.attempts = @ + 1,
                    !.due = IF d.attempts + 1 >= MaxAttempts THEN "parked" ELSE "later"])
      BY <1>2 DEF Fail
    <2>2. ASSUME NEW s \in Seqs, s = d.seq, delivery[s].row
          PROVE  /\ delivery'[s].attempts = delivery[s].attempts + 1
                 /\ delivery'[s].delivered = delivery[s].delivered
                 /\ delivery'[s].due = "parked" => d.attempts + 1 >= MaxAttempts
      <3>1. delivery[s] \in Row
        BY <2>2, RowType
      <3>2. PICK due : /\ due = IF d.attempts + 1 >= MaxAttempts THEN "parked" ELSE "later"
                       /\ delivery'[s] = [delivery[s] EXCEPT
                              !.attempts = delivery[s].attempts + 1, !.due = due]
        BY <2>1, <2>2 DEF WithRow, TypeOK
      <3> QED
        BY <3>1, <3>2 DEF Row
    <2>3. \A s \in Seqs : s # d.seq \/ ~delivery[s].row => delivery'[s] = delivery[s]
      BY <2>1 DEF WithRow, TypeOK
    <2>4. posted' = posted \ {p} /\ todo' = [todo EXCEPT ![p] = @ \ {d}]
      BY <2>1 DEF Finish
    <2> QED
      BY <1>2, <2>1, <2>2, <2>3, <2>4 DEF TypeOK
  <1> QED
    BY <1>1, <1>2

\* What a pass writes to its row agrees with what Schedjuice has and with what
\* the other passes count from.
LEMMA RowsKeep ==
  ASSUME Assumed, TypeOK, Kept, NEW p \in Passes, MarkDelivered(p) \/ MarkUnsent(p) \/ Fail(p), UNCHANGED recorded,
         MarkDelivered(p) /\ ~Fail(p) => \E j \in jobs : j.by = p /\ j.step = "ok"
  PROVE  CountsUp' /\ DeliveredWasRecorded' /\ ParkedHadItsChances'
  <1> USE DEF Kept
  <1>1. /\ \A q \in Passes : todo'[q] \subseteq todo[q]
        /\ UNCHANGED tx /\ skipped \subseteq skipped'
    BY HeardRows
  <1>2. PICK d \in todo[p] :
          /\ IsNext(p, d)
          /\ \A s \in Seqs :
                \/ delivery'[s] = delivery[s]
                \/ /\ s = d.seq /\ delivery[s].row
                   /\ delivery'[s].attempts = delivery[s].attempts + 1
                   /\ delivery'[s].delivered => delivery[s].delivered \/ (MarkDelivered(p) /\ ~Fail(p)) \/ s \in skipped'
                   /\ delivery'[s].due = "parked"
                         => delivery[s].due = "parked" \/ d.attempts + 1 >= MaxAttempts
    BY HeardRows
  <1>3. d.seq \in Seqs /\ d.seq \in Nat /\ d.attempts \in Nat
    BY DEF TypeOK, Seqs
  <1>4. MarkDelivered(p) /\ ~Fail(p) => d.seq \in recorded
    <2> SUFFICES ASSUME MarkDelivered(p), ~Fail(p) PROVE d.seq \in recorded
      OBVIOUS
    <2>1. PICK j \in jobs : j.by = p /\ j.step = "ok"
      OBVIOUS
    <2>2. j.seq \in recorded /\ j.seq \in Nat
      BY <2>1 DEF Work, AfterRecord, TypeOK, JobType, Seqs
    <2>3. j.seq <= d.seq /\ \E e \in todo[p] : e.seq = j.seq
      BY <2>1 DEF Work, PassWaits
    <2>4. d.seq <= j.seq
      BY <1>2, <2>3 DEF IsNext
    <2> QED
      BY <1>3, <2>2, <2>3, <2>4
  <1>5. CountsUp'
    <2> SUFFICES ASSUME NEW q \in Passes, NEW e \in todo'[q], delivery'[e.seq].row
                 PROVE  e.attempts <= delivery'[e.seq].attempts
      BY DEF CountsUp
    <2>1. e \in todo[q] /\ e.seq \in Seqs /\ e.attempts \in Nat
      BY <1>1 DEF TypeOK
    <2>2. delivery[e.seq].row => e.attempts <= delivery[e.seq].attempts
      BY <2>1 DEF CountsUp
    <2>3. delivery[e.seq].attempts \in Nat
      BY <2>1, RowType
    <2> QED
      BY <1>2, <2>1, <2>2, <2>3
  <1>6. DeliveredWasRecorded'
    BY <1>1, <1>2, <1>4 DEF DeliveredWasRecorded
  <1>7. ParkedHadItsChances'
    <2> SUFFICES ASSUME NEW s \in Seqs, delivery'[s].due = "parked"
                 PROVE  delivery'[s].attempts >= MaxAttempts
      BY DEF ParkedHadItsChances
    <2>1. delivery[s].due = "parked" => delivery[s].attempts >= MaxAttempts
      BY DEF ParkedHadItsChances
    <2>2. s = d.seq /\ delivery[s].row => d.attempts <= delivery[s].attempts
      BY DEF CountsUp
    <2>3. delivery[s].attempts \in Nat /\ MaxAttempts \in Nat
      BY RowType DEF Assumed, LogAssumption
    <2> QED
      BY <1>2, <1>3, <2>1, <2>2, <2>3
  <1> QED
    BY <1>5, <1>6, <1>7

\* Everything a pass does keeps everything.
LEMMA PassKeeps ==
  ASSUME Assumed, TypeOK, Kept, NEW p \in Passes,
         Send(p) \/ HearOk(p) \/ HearFailure(p) \/ PassOver(p) \/ TimeOut(p) \/ Die(p)
  PROVE  Kept'
  <1>1. CASE Send(p)
    <2> USE DEF Kept, Work
    <2>1. PICK s \in Seqs : Post(p, s) /\ jobs' = jobs \cup {Job(s, p)}
      BY <1>1 DEF Send
    <2>2. PICK d \in todo[p] : IsNext(p, d) /\ p \notin posted /\ d.seq = s
                               /\ posted' = posted \cup {p}
                               /\ UNCHANGED <<tx, delivery, todo, skipped>>
      BY <2>1 DEF Post, Free
    <2>3. UNCHANGED <<recorded, cursor, pulls, dropped, catchUp>>
      BY <1>1 DEF Send
    <2>4. /\ Job(s, p).seq = s /\ Job(s, p).by = p /\ ~Acting(Job(s, p))
          /\ Job(s, p).step \notin {"advance", "act", "ok"}
      BY JobType1 DEF Acting
    <2>5. \A j \in jobs : j.by # p
      BY <2>2 DEF PassWaits
    <2>6. p \notin CatchUps
      BY DEF Assumed, DeliveryAssumption
    <2>7. s \in Committed
      BY <2>2 DEF AllCommitted
    <2> HIDE DEF Acting
    <2>8. AllCommitted'
      BY <2>1, <2>2, <2>3, <2>4, <2>7 DEF AllCommitted, Committed
    <2>9. AfterRecord'
      BY <2>1, <2>3, <2>4 DEF AfterRecord
    <2>10. PassWaits'
      <3> SUFFICES ASSUME NEW j \in jobs', NEW q \in Passes, j.by = q
                   PROVE  /\ q \in posted' /\ \E e \in todo[q] : e.seq = j.seq
                          /\ \A e \in todo[q] : j.seq <= e.seq
        BY <2>2 DEF PassWaits
      <3>1. CASE j \in jobs
        BY <2>2, <3>1 DEF PassWaits
      <3>2. CASE j = Job(s, p)
        BY <2>2, <2>4, <3>2 DEF IsNext
      <3> QED
        BY <2>1, <3>1, <3>2
    <2>11. RunWaits' /\ OneEach'
      BY <2>1, <2>3, <2>4, <2>5, <2>6 DEF RunWaits, IsNextOf, OneEach
    <2>12. InHandOnce' /\ NotYetPulled' /\ PulledOnce'
      BY <2>1, <2>3, <2>4 DEF InHandOnce, NotYetPulled, PulledOnce
    <2>13. ReleaseIsAccountedFor' /\ CursorIsRecorded'
      BY <2>1, <2>3 DEF ReleaseIsAccountedFor, InHand, CursorIsRecorded
    <2>14. CountsUp' /\ DeliveredWasRecorded' /\ ParkedHadItsChances'
      BY <2>2, <2>3 DEF CountsUp, DeliveredWasRecorded, ParkedHadItsChances
    <2> QED
      BY <2>8, <2>9, <2>10, <2>11, <2>12, <2>13, <2>14
  <1>2. CASE HearOk(p) \/ HearFailure(p)
    <2>1. MarkDelivered(p) \/ MarkUnsent(p) \/ Fail(p)
      BY <1>2 DEF HearOk, HearFailure
    <2>2. PICK j \in jobs : /\ j.by = p /\ j.step \in {"ok", "failed"} /\ jobs' = jobs \ {j}
                            /\ HearOk(p) => j.step = "ok"
                            /\ ~HearOk(p) => Fail(p)
      BY <1>2 DEF HearOk, HearFailure
    <2>3. UNCHANGED <<recorded, cursor, pulls, dropped, catchUp>>
      BY <1>2 DEF HearOk, HearFailure
    <2>4. LetGo(p)
      BY <2>2, HeardGo
    <2>5. ~Fail(p) => \E i \in jobs : i.by = p /\ i.step = "ok"
      BY <1>2, <2>2
    <2>6. CountsUp' /\ DeliveredWasRecorded' /\ ParkedHadItsChances'
      BY <2>1, <2>3, <2>5, RowsKeep
    <2> QED
      BY <2>1, <2>3, <2>4, <2>6, HeardRows, PassEnds DEF Kept
  <1>3. CASE TimeOut(p)
    <2>1. Fail(p) /\ LetGo(p) /\ UNCHANGED <<recorded, cursor, pulls, dropped, catchUp>>
      BY <1>3, AbandonJobs, Zenon DEF TimeOut, LetGo
    <2>2. CountsUp' /\ DeliveredWasRecorded' /\ ParkedHadItsChances'
      BY <2>1, RowsKeep
    <2> QED
      BY <2>1, <2>2, HeardRows, PassEnds DEF Kept
  <1>4. CASE Die(p)
    <2>1. LetGo(p) /\ UNCHANGED <<tx, delivery, skipped, recorded, cursor, pulls, dropped, catchUp>>
      BY <1>4, AbandonJobs, Zenon DEF Die, PassDies, LetGo
    <2>2. /\ posted' = posted \ {p} /\ todo'[p] \subseteq todo[p]
          /\ \A q \in Passes \ {p} : todo'[q] = todo[q]
      BY <1>4 DEF Die, PassDies, TypeOK
    <2>3. CountsUp' /\ DeliveredWasRecorded' /\ ParkedHadItsChances'
      BY <2>1, <2>2 DEF Kept, CountsUp, DeliveredWasRecorded, ParkedHadItsChances
    <2> QED
      BY <2>1, <2>2, <2>3, PassEnds DEF Kept
  <1>5. CASE PassOver(p)
    <2>1. MarkUnsent(p) /\ UNCHANGED <<jobs, recorded, cursor, pulls, dropped, catchUp>>
      BY <1>5 DEF PassOver, receiverVars
    <2>2. p \notin posted
      BY <2>1 DEF MarkUnsent, TypeOK
    <2>3. LetGo(p)
      BY <2>1, <2>2 DEF LetGo, Kept, Work, PassWaits
    <2>4. MarkDelivered(p) => FALSE
      BY <2>2 DEF MarkDelivered
    <2>5. CountsUp' /\ DeliveredWasRecorded' /\ ParkedHadItsChances'
      BY <2>1, <2>4, RowsKeep
    <2> QED
      BY <2>1, <2>3, <2>5, HeardRows, PassEnds DEF Kept
  <1> QED
    BY <1>1, <1>2, <1>3, <1>4, <1>5

\* A handler that goes on is heard by the same caller, and others are let be.
LEMMA HandlerGoes ==
  ASSUME Assumed, TypeOK, Kept, NEW j \in jobs, NEW step \in {"advance", "act", "ok", "failed"},
         Goes(j, step), recorded \subseteq recorded', recorded' \subseteq recorded \cup {j.seq},
         step \in {"advance", "act", "ok"} => j.seq \in recorded',
         UNCHANGED <<tx, todo, posted, catchUp>>
  PROVE  /\ AllCommitted' /\ Work'
  <1> USE DEF Kept, Work
  <1>1. PICK after \in JobType : /\ after.seq = j.seq /\ after.by = j.by /\ after.step = step
                                 /\ jobs' \subseteq (jobs \ {j}) \cup {after}
    BY GoesJobs
  <1>3. AllCommitted'
    BY <1>1 DEF AllCommitted, Committed
  <1>4. AfterRecord'
    BY <1>1 DEF AfterRecord
  <1>5. PassWaits'
    BY <1>1 DEF PassWaits
  <1>6. RunWaits'
    BY <1>1 DEF RunWaits, IsNextOf
  <1>7. OneEach'
    BY <1>1 DEF OneEach
  <1> QED
    BY <1>3, <1>4, <1>5, <1>6, <1>7

\* Every step of a handler keeps everything.
LEMMA HandlerKeeps ==
  ASSUME Assumed, TypeOK, Kept, NEW j \in jobs, UNCHANGED logVars,
         Record(j) \/ AdvanceCursor(j) \/ ActOn(j) \/ Breaks(j) \/ BrokerDown(j)
  PROVE  Kept'
  <1> USE DEF Kept
  <1>1. UNCHANGED <<tx, delivery, todo, posted, skipped>>
    BY DEF logVars
  <1>2. j.seq \in Seqs /\ j.seq \in Committed
    BY DEF AllCommitted, TypeOK, JobType
  <1>3. CASE Record(j) \/ AdvanceCursor(j)
    <2>1. PICK step \in {"advance", "act", "ok", "failed"} :
            /\ Goes(j, step) /\ UNCHANGED <<pulls, dropped, catchUp>>
            /\ \/ /\ j.step = "record" /\ recorded' = recorded \cup {j.seq} /\ UNCHANGED cursor
                  /\ step = IF j.seq \in recorded THEN "ok" ELSE "advance"
               \/ /\ j.step = "advance" /\ UNCHANGED recorded
                  /\ cursor' \in {j.seq, cursor} /\ step = "act"
      BY <1>3 DEF Record, AdvanceCursor
    <2>2. j.step \in {"advance", "act"} => j.seq \in recorded
      BY DEF Work, AfterRecord
    <2>3. AllCommitted' /\ Work'
      BY <1>1, <2>1, <2>2, HandlerGoes
    <2>4. PICK after \in JobType :
             /\ after.seq = j.seq /\ after.step = step
             /\ jobs' \subseteq (jobs \ {j}) \cup {after} /\ jobs \ {j} \subseteq jobs'
             /\ step \in {"advance", "act"} => after \in jobs'
      BY <2>1, GoesJobs
    <2>5. \A k \in jobs \ {j} : ~(Acting(k) /\ Acting(after) /\ k.seq = j.seq)
      BY <2>1, <2>4 DEF Work, AfterRecord, InHandOnce, Acting
    <2>6. InHandOnce'
      BY <2>4, <2>5 DEF InHandOnce, Acting
    <2>7. Acting(after) /\ j.seq \in Released => pulls[j.seq] = 0
      BY <2>1, <2>4 DEF Acting, NotYetPulled, PulledOnce
    <2>8. NotYetPulled' /\ PulledOnce' /\ CursorIsRecorded'
      BY <2>1, <2>2, <2>4, <2>7 DEF NotYetPulled, PulledOnce, CursorIsRecorded, Acting
    <2>9. ReleaseIsAccountedFor'
      BY <2>1, <2>4 DEF ReleaseIsAccountedFor, InHand
    <2>10. CountsUp' /\ DeliveredWasRecorded' /\ ParkedHadItsChances'
      BY <1>1, <2>1 DEF CountsUp, DeliveredWasRecorded, ParkedHadItsChances
    <2> QED
      BY <2>3, <2>6, <2>8, <2>9, <2>10
  <1>4. CASE ActOn(j) \/ Breaks(j) \/ BrokerDown(j)
    <2>1. PICK step \in {"ok", "failed"} :
            /\ Goes(j, step) /\ UNCHANGED <<recorded, cursor, catchUp>>
            /\ \/ /\ Acting(j) /\ step = "ok" /\ UNCHANGED dropped
                  /\ pulls' = IF j.seq \in Released THEN [pulls EXCEPT ![j.seq] = @ + 1] ELSE pulls
               \/ /\ UNCHANGED pulls /\ dropped \subseteq dropped'
                  /\ step = "ok" => Acting(j)
                  /\ Acting(j) /\ j.seq \in Released => j.seq \in dropped'
      BY <1>4 DEF ActOn, Breaks, BrokerDown, Acting
    <2>2. Acting(j) => j.seq \in recorded
      BY DEF Work, AfterRecord, Acting
    <2>3. AllCommitted' /\ Work'
      BY <1>1, <2>1, <2>2, HandlerGoes
    <2>4. /\ \A k \in jobs' : Acting(k) => k \in jobs \ {j}
          /\ jobs \ {j} \subseteq jobs'
      BY <2>1, GoesJobs DEF Acting
    <2>5. InHandOnce'
      BY <2>4 DEF InHandOnce, Acting
    <2>6. \A s \in Released : \/ pulls'[s] = pulls[s]
                              \/ s = j.seq /\ pulls[s] = 0 /\ pulls'[s] = 1 /\ Acting(j)
      BY <2>1 DEF TypeOK, NotYetPulled
    <2>7. NotYetPulled'
      <3> SUFFICES ASSUME NEW k \in jobs', Acting(k), k.seq \in Released PROVE pulls'[k.seq] = 0
        BY DEF NotYetPulled, Acting
      <3>1. k \in jobs \ {j} /\ pulls[k.seq] = 0
        BY <2>4 DEF NotYetPulled
      <3>2. Acting(j) => k.seq # j.seq
        BY <3>1 DEF InHandOnce
      <3> QED
        BY <2>6, <3>1, <3>2
    <2>8. PulledOnce' /\ CursorIsRecorded'
      BY <2>1, <2>2, <2>6 DEF PulledOnce, CursorIsRecorded
    <2>9. ReleaseIsAccountedFor'
      <3> SUFFICES ASSUME NEW s \in recorded \cap Released, ~(pulls'[s] > 0), s \notin dropped'
                   PROVE  \E k \in jobs' : k.seq = s /\ k.step \in {"advance", "act"}
        BY <2>1 DEF ReleaseIsAccountedFor, InHand
      <3>1. pulls[s] = 0 /\ s \notin dropped
        BY <2>1, <2>6 DEF PulledOnce
      <3>2. PICK i \in jobs : i.seq = s /\ Acting(i)
        BY <3>1 DEF ReleaseIsAccountedFor, InHand, Acting
      <3>3. i # j
        BY <2>1, <3>1, <3>2 DEF TypeOK
      <3> QED
        BY <2>4, <3>2, <3>3 DEF Acting
    <2>10. CountsUp' /\ DeliveredWasRecorded' /\ ParkedHadItsChances'
      BY <1>1, <2>1 DEF CountsUp, DeliveredWasRecorded, ParkedHadItsChances
    <2> QED
      BY <2>3, <2>5, <2>7, <2>8, <2>9, <2>10
  <1> QED
    BY <1>3, <1>4

\* Every step of a run of catch_up_events keeps everything.
LEMMA CatchUpKeeps ==
  ASSUME Assumed, TypeOK, Kept, NEW c \in CatchUps, UNCHANGED logVars,
         \/ StartCatchUp(c, Committed) \/ ReadPage(c, EventsSince(catchUp[c].at, PageSize))
         \/ Replay(c) \/ AskFailed(c)
         \/ \E j \in jobs : Replayed(c, j) \/ ReplayFailed(c, j)
  PROVE  Kept'
  <1> USE DEF Kept, Work
  <1>1. UNCHANGED <<tx, delivery, todo, posted, skipped>> /\ UNCHANGED <<recorded, cursor, pulls, dropped>>
    BY DEF logVars, StartCatchUp, ReadPage, Replay, AskFailed, Replayed, ReplayFailed
  <1>2. /\ CountsUp' /\ DeliveredWasRecorded' /\ ParkedHadItsChances' /\ PulledOnce' /\ CursorIsRecorded'
    BY <1>1 DEF CountsUp, DeliveredWasRecorded, ParkedHadItsChances, PulledOnce, CursorIsRecorded
  <1>3. catchUp[c] \in CatchUpType /\ \A j \in jobs : j.seq \in Nat
    BY DEF TypeOK, JobType, Seqs
  <1>4. ASSUME \/ StartCatchUp(c, Committed) \/ ReadPage(c, EventsSince(catchUp[c].at, PageSize))
               \/ AskFailed(c)
        PROVE  Kept'
    <2>1. UNCHANGED jobs /\ catchUp[c].phase # "page"
      BY <1>4 DEF StartCatchUp, ReadPage, AskFailed
    <2>2. \A e \in CatchUps \ {c} : catchUp'[e] = catchUp[e]
      BY <1>4 DEF StartCatchUp, ReadPage, AskFailed, TypeOK
    <2>3. catchUp'[c].page \subseteq Committed /\ catchUp'[c].log \subseteq Committed
      <3>1. EventsSince(catchUp[c].at, PageSize) \subseteq Committed
        BY OldestIn DEF EventsSince
      <3>2. catchUp[c].page \subseteq Committed /\ catchUp[c].log \subseteq Committed
        BY DEF AllCommitted
      <3>3. CASE StartCatchUp(c, Committed)
        <4>1. catchUp'[c].page = {} /\ catchUp'[c].log = Committed
          BY <3>3 DEF StartCatchUp, NewCatchUp, TypeOK
        <4> QED
          BY <4>1
      <3>4. CASE ReadPage(c, EventsSince(catchUp[c].at, PageSize))
        <4>1. /\ catchUp'[c].page = EventsSince(catchUp[c].at, PageSize)
              /\ catchUp'[c].log = catchUp[c].log
          BY <1>3, <3>4 DEF ReadPage, TypeOK, CatchUpType
        <4> QED
          BY <3>1, <3>2, <4>1
      <3>5. CASE AskFailed(c)
        <4>1. catchUp'[c].page = catchUp[c].page /\ catchUp'[c].log = catchUp[c].log
          BY <1>3, <3>5 DEF AskFailed, TypeOK, CatchUpType
        <4> QED
          BY <3>2, <4>1
      <3> QED
        BY <1>4, <3>3, <3>4, <3>5
    <2>4. AllCommitted'
      BY <1>1, <2>1, <2>2, <2>3 DEF AllCommitted, Committed
    <2>5. AfterRecord' /\ PassWaits' /\ OneEach'
      BY <1>1, <2>1 DEF AfterRecord, PassWaits, OneEach
    <2>6. RunWaits'
      BY <2>1, <2>2 DEF RunWaits, IsNextOf
    <2>7. InHandOnce' /\ NotYetPulled' /\ ReleaseIsAccountedFor'
      BY <1>1, <2>1 DEF InHandOnce, NotYetPulled, ReleaseIsAccountedFor, InHand, Acting
    <2> QED
      BY <1>2, <2>4, <2>5, <2>6, <2>7
  <1>5. ASSUME Replay(c) PROVE Kept'
    <2>1. PICK s \in catchUp[c].page : IsNextOf(c, s) /\ jobs' = jobs \cup {Job(s, c)}
      BY <1>5 DEF Replay
    <2>2. catchUp[c].phase = "page" /\ (\A j \in jobs : j.by # c) /\ UNCHANGED catchUp
      BY <1>5 DEF Replay
    <2>3. s \in Committed /\ s \in Seqs
      BY <2>1 DEF AllCommitted, Committed
    <2>4. /\ Job(s, c).seq = s /\ Job(s, c).by = c /\ ~Acting(Job(s, c))
          /\ Job(s, c).step \notin {"advance", "act", "ok"}
      BY <2>3, JobType1 DEF Acting
    <2>5. c \notin Passes
      BY DEF Assumed, DeliveryAssumption
    <2>6. AllCommitted' /\ AfterRecord'
      BY <1>1, <2>1, <2>2, <2>3, <2>4 DEF AllCommitted, Committed, AfterRecord
    <2>7. PassWaits'
      BY <1>1, <2>1, <2>4, <2>5 DEF PassWaits
    <2>8. RunWaits' /\ OneEach'
      BY <2>1, <2>2, <2>4 DEF RunWaits, IsNextOf, OneEach
    <2>9. InHandOnce' /\ NotYetPulled'
      BY <1>1, <2>1, <2>4 DEF InHandOnce, NotYetPulled, Acting
    <2>10. ReleaseIsAccountedFor'
      BY <1>1, <2>1 DEF ReleaseIsAccountedFor, InHand
    <2> QED
      BY <1>2, <2>6, <2>7, <2>8, <2>9, <2>10
  <1>6. ASSUME NEW j \in jobs, Replayed(c, j) \/ ReplayFailed(c, j) PROVE Kept'
    <2>1. j.by = c /\ j.step \in {"ok", "failed"} /\ jobs' = jobs \ {j}
      BY <1>6 DEF Replayed, ReplayFailed
    <2>2. c # Nobody /\ c \notin Passes
      BY DEF Assumed, DeliveryAssumption
    <2>3. \A k \in jobs' : k \in jobs /\ k.by # c
      BY <2>1, <2>2 DEF OneEach
    <2>4. \A e \in CatchUps \ {c} : catchUp'[e] = catchUp[e]
      BY <1>6 DEF Replayed, ReplayFailed, TypeOK
    <2>5. catchUp'[c].page \subseteq catchUp[c].page /\ catchUp'[c].log = catchUp[c].log
      <3>1. CASE Replayed(c, j)
        <4>1. catchUp'[c].page = catchUp[c].page \ {j.seq} /\ catchUp'[c].log = catchUp[c].log
          BY <1>3, <3>1 DEF Replayed, TypeOK, CatchUpType
        <4> QED
          BY <4>1
      <3>2. CASE ReplayFailed(c, j)
        BY <1>3, <3>2 DEF ReplayFailed, TypeOK, CatchUpType
      <3> QED
        BY <1>6, <3>1, <3>2
    <2>6. AllCommitted' /\ AfterRecord' /\ PassWaits' /\ OneEach'
      BY <1>1, <2>3, <2>4, <2>5 DEF AllCommitted, Committed, AfterRecord, PassWaits, OneEach
    <2>7. RunWaits'
      BY <2>3, <2>4 DEF RunWaits, IsNextOf
    <2>8. InHandOnce' /\ NotYetPulled'
      BY <1>1, <2>3 DEF InHandOnce, NotYetPulled, Acting
    <2>9. ReleaseIsAccountedFor'
      BY <1>1, <2>1 DEF ReleaseIsAccountedFor, InHand
    <2> QED
      BY <1>2, <2>6, <2>7, <2>8, <2>9
  <1> QED
    BY <1>4, <1>5, <1>6

\* Every step keeps everything.
LEMMA NextKept == ASSUME Assumed, TypeOK, Kept, [Next]_vars PROVE Kept'
  <1>1. CASE Next
    <2>1. CASE OwnStep /\ UNCHANGED receiverVars
      BY <1>1, <2>1, LogKeeps, CommittedStays
    <2>2. CASE \E p \in Passes : Send(p) \/ HearOk(p) \/ HearFailure(p) \/ PassOver(p) \/ TimeOut(p) \/ Die(p)
      BY <2>2, PassKeeps
    <2>3. CASE \E j \in jobs : /\ Record(j) \/ AdvanceCursor(j) \/ ActOn(j) \/ Breaks(j) \/ BrokerDown(j)
                               /\ UNCHANGED logVars
      BY <2>3, HandlerKeeps
    <2>4. CASE \E c \in CatchUps :
                 /\ \/ StartCatchUp(c, Committed) \/ ReadPage(c, EventsSince(catchUp[c].at, PageSize))
                    \/ Replay(c) \/ AskFailed(c)
                    \/ \E j \in jobs : Replayed(c, j) \/ ReplayFailed(c, j)
                 /\ UNCHANGED logVars
      BY <2>4, CatchUpKeeps
    <2> QED
      BY <1>1, <2>1, <2>2, <2>3, <2>4, Disjuncts
  <1>2. CASE UNCHANGED vars
    BY <1>2 DEF vars, logVars, receiverVars, Kept, AllCommitted, Committed, Work, AfterRecord, PassWaits,
       RunWaits, IsNextOf, OneEach, InHandOnce, Acting, NotYetPulled, PulledOnce, CountsUp,
       DeliveredWasRecorded, CursorIsRecorded, ReleaseIsAccountedFor, InHand, ParkedHadItsChances
  <1> QED
    BY <1>1, <1>2

\* DeliveryInv is an invariant of the delivery.
THEOREM DeliveryInvariant == ASSUME Assumed PROVE Spec => []DeliveryInv
  <1>1. Init => DeliveryInv
    BY InitType, InitKept DEF DeliveryInv
  <1>2. DeliveryInv /\ [Next]_vars => DeliveryInv'
    BY NextType, NextKept DEF DeliveryInv
  <1> QED
    BY <1>1, <1>2, PTL DEF Spec

\* No overlap of passes marks as delivered what Schedjuice does not have.
THEOREM DeliveredIsRecorded == ASSUME Assumed PROVE Spec => []DeliveredWasRecorded
  <1>1. DeliveryInv => DeliveredWasRecorded
    BY DEF DeliveryInv, Kept
  <1> QED
    BY <1>1, DeliveryInvariant, PTL

\* A stale count never parks a row early.
THEOREM ParkingIsFair == ASSUME Assumed PROVE Spec => []ParkedHadItsChances
  <1>1. DeliveryInv => ParkedHadItsChances
    BY DEF DeliveryInv, Kept
  <1> QED
    BY <1>1, DeliveryInvariant, PTL

\* The cursor stands at an event that is on record.
THEOREM CursorStandsOnAnEvent == ASSUME Assumed PROVE Spec => []CursorIsRecorded
  <1>1. DeliveryInv => CursorIsRecorded
    BY DEF DeliveryInv, Kept
  <1> QED
    BY <1>1, DeliveryInvariant, PTL

\* A release is lost by a crash or a dead broker, and in no other way.
THEOREM ReleasesAreAccountedFor == ASSUME Assumed PROVE Spec => []ReleaseIsAccountedFor
  <1>1. DeliveryInv => ReleaseIsAccountedFor
    BY DEF DeliveryInv, Kept
  <1> QED
    BY <1>1, DeliveryInvariant, PTL

----------------------------------------------------------------------------
(***************************************************************************)
(* What a step does to what the consumer sees.                             *)
(***************************************************************************)
\* Only a handler changes what is recorded, where the cursor is and what is queued.
LEMMA WhoRecords ==
  ASSUME Next
  PROVE  \/ UNCHANGED <<recorded, cursor, pulls>>
         \/ \E j \in jobs : (Record(j) \/ AdvanceCursor(j) \/ ActOn(j)) /\ UNCHANGED tx
  <1>1. \A p \in Passes : Send(p) \/ HearOk(p) \/ HearFailure(p) \/ PassOver(p) \/ TimeOut(p) \/ Die(p)
           => UNCHANGED <<recorded, cursor, pulls>>
    BY DEF Send, HearOk, HearFailure, PassOver, receiverVars, TimeOut, Die
  <1>2. \A c \in CatchUps :
           \/ StartCatchUp(c, Committed) \/ ReadPage(c, EventsSince(catchUp[c].at, PageSize))
           \/ Replay(c) \/ AskFailed(c) \/ \E j \in jobs : Replayed(c, j) \/ ReplayFailed(c, j)
           => UNCHANGED <<recorded, cursor, pulls>>
    BY DEF StartCatchUp, ReadPage, Replay, AskFailed, Replayed, ReplayFailed
  <1>3. \A j \in jobs : Breaks(j) \/ BrokerDown(j) => UNCHANGED <<recorded, cursor, pulls>>
    BY DEF Breaks, BrokerDown
  <1> QED
    BY <1>1, <1>2, <1>3, Disjuncts DEF receiverVars, logVars

\* The cursor moves forward only, whatever order events come in.
THEOREM CursorOnlyAdvances == ASSUME Assumed PROVE Spec => CursorNeverGoesBack
  <1>1. TypeOK /\ [Next]_vars => [cursor' >= cursor]_cursor
    <2> SUFFICES ASSUME TypeOK, Next, cursor' # cursor PROVE cursor' >= cursor
      BY DEF vars, receiverVars
    <2>1. PICK j \in jobs : Record(j) \/ AdvanceCursor(j) \/ ActOn(j)
      BY WhoRecords
    <2>2. j.seq \in Nat /\ cursor \in Nat
      BY DEF TypeOK, JobType, Seqs
    <2> QED
      BY <2>1, <2>2 DEF Record, AdvanceCursor, ActOn
  <1> QED
    BY <1>1, TypeInvariant, PTL DEF Spec, CursorNeverGoesBack

\* A step commits one event at most.
LEMMA CommitsOne ==
  ASSUME TypeOK, Next
  PROVE  UNCHANGED Committed \/ \E s \in Seqs \ Committed : Committed' = Committed \cup {s}
  <1>1. ASSUME NEW s \in Seqs, AppendEvent(s) \/ Rollback(s) PROVE UNCHANGED Committed
    BY <1>1 DEF AppendEvent, Rollback, Committed, TypeOK
  <1>2. ASSUME NEW s \in Seqs, Commit(s)
        PROVE  s \notin Committed /\ Committed' = Committed \cup {s}
    BY <1>2 DEF Commit, Committed, TypeOK
  <1>3. \/ \E s \in Seqs : AppendEvent(s) \/ Commit(s) \/ Rollback(s)
        \/ UNCHANGED tx
    <2>1. OwnStep => \/ \E s \in Seqs : AppendEvent(s) \/ Commit(s) \/ Rollback(s)
                    \/ UNCHANGED tx
      BY DEF OwnStep, LogStep, BackoffEnds, AddWebhook, RemoveWebhook, ResumeWebhook, PauseWebhook, PassAlone,
         StartPass, Skip, FindPaused
    <2>2. \A p \in Passes : Send(p) \/ HearOk(p) \/ HearFailure(p) \/ PassOver(p) \/ TimeOut(p) \/ Die(p)
             => UNCHANGED tx
      BY DEF Send, Post, HearOk, HearFailure, PassOver, TimeOut, Die, MarkDelivered, MarkUnsent, Fail, PassDies
    <2> QED
      BY <2>1, <2>2, Disjuncts DEF logVars
  <1>4. UNCHANGED tx => UNCHANGED Committed
    BY DEF Committed
  <1> QED
    BY <1>1, <1>2, <1>3, <1>4

\* Events, passes, handlers and catch-ups together are the channel a consumer may
\* think of: a step of theirs is a step of the channel or none.
THEOREM ChannelIsImplemented == ASSUME Assumed PROVE Spec => RefinesEventChannel
  <1>1. Init => Channel!Init
    BY DEF Init, LogInit, ReceiverInit, Committed, Channel!Init
  <1>2. ASSUME DeliveryInv, [Next]_vars PROVE [Channel!Next]_(Channel!vars)
    <2> USE <1>2 DEF DeliveryInv, Kept
    <2>1. CASE UNCHANGED vars
      BY <2>1 DEF vars, logVars, receiverVars, Committed, Channel!vars
    <2>2. CASE Next /\ UNCHANGED <<recorded, cursor, pulls>>
      BY <2>2, CommitsOne DEF Channel!Next, Channel!Happen, Channel!vars
    <2>3. ASSUME NEW j \in jobs, Record(j) \/ AdvanceCursor(j) \/ ActOn(j), UNCHANGED tx
          PROVE  [Channel!Next]_(Channel!vars)
      <3>1. UNCHANGED Committed /\ j.seq \in Committed
        BY <2>3 DEF Committed, AllCommitted
      <3>2. CASE Record(j)
        <4>1. UNCHANGED pulls /\ recorded' = recorded \cup {j.seq}
          BY <3>2 DEF Record
        <4>2. CASE j.seq \in recorded
          BY <3>1, <4>1, <4>2 DEF Channel!vars
        <4>3. CASE j.seq \notin recorded
          BY <3>1, <4>1, <4>3 DEF Channel!Next, Channel!HandleOnce
        <4> QED
          BY <4>2, <4>3
      <3>3. CASE AdvanceCursor(j)
        BY <3>1, <3>3 DEF AdvanceCursor, Channel!vars
      <3>4. CASE ActOn(j)
        <4>1. UNCHANGED recorded /\ Acting(j)
          BY <3>4 DEF ActOn, Acting
        <4>2. CASE j.seq \in Released
          <5>1. j.seq \in recorded /\ pulls[j.seq] = 0
            BY <4>1, <4>2 DEF Work, AfterRecord, Acting, NotYetPulled
          <5>2. pulls' = [pulls EXCEPT ![j.seq] = 1]
            BY <3>4, <4>2, <5>1 DEF ActOn, TypeOK
          <5> QED
            BY <3>1, <4>1, <4>2, <5>1, <5>2 DEF Channel!Next, Channel!QueueOnce
        <4>3. CASE j.seq \notin Released
          BY <3>1, <3>4, <4>1, <4>3 DEF ActOn, Channel!vars
        <4> QED
          BY <4>2, <4>3
      <3> QED
        BY <2>3, <3>2, <3>3, <3>4
    <2> QED
      BY <1>2, <2>1, <2>2, <2>3, WhoRecords
  <1> QED
    BY <1>1, <1>2, DeliveryInvariant, PTL DEF Spec, RefinesEventChannel, Channel!Spec

----------------------------------------------------------------------------
(***************************************************************************)
(* Catching up.                                                            *)
(***************************************************************************)
\* What is left out of the oldest n is newer than all of them.
LEMMA LeftOutIsNewer ==
  ASSUME NEW S \in SUBSET Seqs, IsFiniteSet(S), NEW n \in Nat,
         NEW s \in S \ Oldest(S, n), NEW r \in Oldest(S, n)
  PROVE  r < s
  <1> DEFINE under(x) == {y \in S : y < x}
  <1>1. r \in S /\ r \in Nat /\ s \in Nat /\ S \subseteq Nat
    BY DEF Oldest, Seqs
  <1>2. Cardinality(under(r)) < n
    BY DEF Oldest
  <1>3. ~(Cardinality(under(s)) < n)
    BY DEF Oldest
  <1>4. IsFiniteSet(under(r)) /\ IsFiniteSet(under(s))
    BY FS_Subset
  <1>5. Cardinality(under(r)) \in Nat /\ Cardinality(under(s)) \in Nat
    BY <1>4, FS_CardinalityType
  <1>6. s <= r => under(s) \subseteq under(r)
    <2> SUFFICES ASSUME s <= r, NEW y \in S, y < s PROVE y < r
      OBVIOUS
    <2>1. y \in Nat
      BY <1>1
    <2> QED
      BY <1>1, <2>1
  <1>7. under(s) \subseteq under(r) => Cardinality(under(s)) <= Cardinality(under(r))
    BY <1>4, FS_Subset
  <1> HIDE DEF under
  <1> QED
    BY <1>1, <1>2, <1>3, <1>5, <1>6, <1>7

\* Fewer than n means that nothing was left out.
LEMMA FewIsAll ==
  ASSUME NEW S \in SUBSET Seqs, IsFiniteSet(S), NEW n \in Nat, Cardinality(Oldest(S, n)) < n
  PROVE  S \subseteq Oldest(S, n)
  <1> SUFFICES ASSUME S \ Oldest(S, n) # {} PROVE FALSE
    OBVIOUS
  <1>1. S \subseteq Nat
    BY DEF Seqs
  <1>2. PICK m \in S \ Oldest(S, n) : \A y \in S \ Oldest(S, n) : ~(<<y, m>> \in OpToRel(<, Nat))
    BY <1>1, NatLessThanWellFounded, WFMin
  <1>3. \A y \in S \ Oldest(S, n) : ~(y < m)
    BY <1>1, <1>2 DEF OpToRel
  <1> DEFINE under == {y \in S : y < m}
  <1>4. under \subseteq Oldest(S, n)
    BY <1>3
  <1>5. IsFiniteSet(Oldest(S, n))
    BY FS_Subset DEF Oldest
  <1>6. Cardinality(under) <= Cardinality(Oldest(S, n))
    BY <1>4, <1>5, FS_Subset
  <1>7. Cardinality(under) \in Nat /\ Cardinality(Oldest(S, n)) \in Nat
    BY <1>4, <1>5, FS_Subset, FS_CardinalityType
  <1>8. Cardinality(under) < n
    BY <1>6, <1>7
  <1>9. m \in Oldest(S, n)
    BY <1>2, <1>8 DEF Oldest
  <1> QED
    BY <1>2, <1>9

\* Where the gap between a run's first cursor and what was committed as it began
\* still is: above where the run has got to, on the page in hand, or nowhere.
Above(c) == {s \in catchUp[c].log : s > catchUp[c].from}
GapIsAhead ==
    \A c \in CatchUps : \A s \in Above(c) :
        /\ catchUp[c].phase = "asking" => s \in recorded \/ s > catchUp[c].at
        /\ catchUp[c].phase = "page" =>
              \/ s \in recorded \cup catchUp[c].page
              \/ /\ catchUp[c].full /\ s > catchUp[c].at
                 /\ \A r \in catchUp[c].page : s > r
        /\ catchUp[c].phase = "done" => s \in recorded

\* What a page has left out is newer than all of it, and then the page is full.
LEMMA PageLeavesNewer ==
  ASSUME Assumed, NEW at \in Nat, NEW s \in Committed, s > at,
         s \notin EventsSince(at, PageSize)
  PROVE  /\ EventsSince(at, PageSize) # {}
         /\ Cardinality(EventsSince(at, PageSize)) >= PageSize
         /\ \A r \in EventsSince(at, PageSize) : s > r
  <1> DEFINE S == {r \in Committed : r > at}
  <1>1. S \in SUBSET Seqs /\ s \in S
    BY DEF Committed
  <1>2. PageSize \in Nat /\ PageSize > 0 /\ MaxSeq \in Int
    BY DEF Assumed, ReceiverAssumption, LogAssumption
  <1>3. IsFiniteSet(Seqs)
    BY <1>2, FS_Interval DEF Seqs
  <1>4. IsFiniteSet(S)
    BY <1>1, <1>3, FS_Subset
  <1>5. EventsSince(at, PageSize) = Oldest(S, PageSize)
    BY DEF EventsSince
  <1> HIDE DEF S
  <1>6. IsFiniteSet(Oldest(S, PageSize)) /\ Cardinality(Oldest(S, PageSize)) \in Nat
    BY <1>4, OldestIn, FS_Subset, FS_CardinalityType
  <1>7. Cardinality(Oldest(S, PageSize)) >= PageSize
    BY <1>1, <1>2, <1>4, <1>5, <1>6, FewIsAll
  <1>8. Oldest(S, PageSize) # {}
    <2>1. Cardinality({}) = 0
      BY FS_EmptySet
    <2> QED
      BY <1>2, <1>7, <2>1
  <1>9. ASSUME NEW r \in Oldest(S, PageSize) PROVE r < s
    <2>1. s \in S \ Oldest(S, PageSize)
      BY <1>1, <1>5
    <2> QED
      BY <1>1, <1>2, <1>4, <2>1, LeftOutIsNewer, Zenon
  <1>10. S \subseteq Nat /\ Oldest(S, PageSize) \subseteq S
    BY <1>1, OldestIn DEF Seqs
  <1> QED
    BY <1>1, <1>5, <1>7, <1>8, <1>9, <1>10

\* Every step keeps the gap ahead of the run.
LEMMA GapStays ==
  ASSUME Assumed, DeliveryInv, GapIsAhead, [Next]_vars PROVE GapIsAhead'
  <1> USE DEF DeliveryInv, Kept
  <1>1. recorded \subseteq recorded'
    <2>1. Next => recorded \subseteq recorded'
      BY WhoRecords DEF Record, AdvanceCursor, ActOn
    <2> QED
      BY <2>1 DEF vars, receiverVars
  <1>2. UNCHANGED catchUp => GapIsAhead'
    BY <1>1 DEF GapIsAhead, Above
  <1>3. \/ UNCHANGED catchUp
        \/ \E c \in CatchUps :
              \/ StartCatchUp(c, Committed) \/ ReadPage(c, EventsSince(catchUp[c].at, PageSize))
              \/ AskFailed(c) \/ \E j \in jobs : Replayed(c, j) \/ ReplayFailed(c, j)
    <2>1. \A p \in Passes : Send(p) \/ HearOk(p) \/ HearFailure(p) \/ PassOver(p) \/ TimeOut(p) \/ Die(p)
             => UNCHANGED catchUp
      BY DEF Send, HearOk, HearFailure, PassOver, receiverVars, TimeOut, Die
    <2>2. \A j \in jobs : Record(j) \/ AdvanceCursor(j) \/ ActOn(j) \/ Breaks(j) \/ BrokerDown(j)
             => UNCHANGED catchUp
      BY DEF Record, AdvanceCursor, ActOn, Breaks, BrokerDown
    <2>3. \A c \in CatchUps : Replay(c) => UNCHANGED catchUp
      BY DEF Replay
    <2> QED
      BY <2>1, <2>2, <2>3, Disjuncts DEF vars, receiverVars
  <1>4. ASSUME NEW c \in CatchUps,
               \/ StartCatchUp(c, Committed) \/ ReadPage(c, EventsSince(catchUp[c].at, PageSize))
               \/ AskFailed(c) \/ \E j \in jobs : Replayed(c, j) \/ ReplayFailed(c, j)
        PROVE  GapIsAhead'
    <2>1. \A e \in CatchUps \ {c} : catchUp'[e] = catchUp[e]
      BY <1>4 DEF StartCatchUp, ReadPage, AskFailed, Replayed, ReplayFailed, TypeOK
    <2>2. /\ catchUp[c] \in CatchUpType /\ catchUp[c].log \subseteq Committed
          /\ Seqs \subseteq Nat /\ Committed \subseteq Seqs
      BY DEF TypeOK, AllCommitted, Seqs, Committed
    <2>3. UNCHANGED recorded
      BY <1>4 DEF StartCatchUp, ReadPage, AskFailed, Replayed, ReplayFailed
    <2> SUFFICES ASSUME NEW s \in Above(c)'
                 PROVE  /\ catchUp'[c].phase = "asking" => s \in recorded \/ s > catchUp'[c].at
                        /\ catchUp'[c].phase = "page" =>
                              \/ s \in recorded \cup catchUp'[c].page
                              \/ /\ catchUp'[c].full /\ s > catchUp'[c].at
                                 /\ \A r \in catchUp'[c].page : s > r
                        /\ catchUp'[c].phase = "done" => s \in recorded
      BY <2>1, <2>3 DEF GapIsAhead, Above
    <2>4. CASE StartCatchUp(c, Committed)
      <3>1. /\ catchUp'[c].phase = "asking" /\ catchUp'[c].at = catchUp'[c].from
        BY <2>4 DEF StartCatchUp, NewCatchUp, TypeOK
      <3> QED
        BY <3>1 DEF Above
    <2>5. CASE AskFailed(c) \/ \E j \in jobs : ReplayFailed(c, j)
      <3>1. catchUp'[c].phase = "failed"
        BY <2>2, <2>5 DEF AskFailed, ReplayFailed, TypeOK, CatchUpType
      <3> QED
        BY <3>1
    <2>6. CASE ReadPage(c, EventsSince(catchUp[c].at, PageSize))
      <3> DEFINE answer == EventsSince(catchUp[c].at, PageSize)
                 full == Cardinality(answer) >= PageSize
      <3>1. /\ catchUp[c].phase = "asking"
            /\ catchUp'[c].phase = (IF answer = {} THEN "done" ELSE "page")
            /\ catchUp'[c].page = answer /\ catchUp'[c].full = full
            /\ catchUp'[c].at = catchUp[c].at /\ catchUp'[c].from = catchUp[c].from
            /\ catchUp'[c].log = catchUp[c].log
        BY <2>2, <2>6 DEF ReadPage, TypeOK, CatchUpType
      <3>2. catchUp[c].at \in Nat
        BY <2>2 DEF CatchUpType
      <3>3. s \in Committed /\ (s \in recorded \/ s > catchUp[c].at)
        BY <2>2, <3>1 DEF GapIsAhead, Above
      <3>4. s > catchUp[c].at => s \in answer \/ (answer # {} /\ full /\ \A r \in answer : s > r)
        BY <3>2, <3>3, PageLeavesNewer
      <3> HIDE DEF answer, full
      <3> QED
        BY <3>1, <3>3, <3>4
    <2>7. ASSUME NEW j \in jobs, Replayed(c, j)
          PROVE  /\ catchUp'[c].phase = "asking" => s \in recorded \/ s > catchUp'[c].at
                 /\ catchUp'[c].phase = "page" =>
                       \/ s \in recorded \cup catchUp'[c].page
                       \/ /\ catchUp'[c].full /\ s > catchUp'[c].at
                          /\ \A r \in catchUp'[c].page : s > r
                 /\ catchUp'[c].phase = "done" => s \in recorded
      <3> DEFINE cu == catchUp[c]
                 rest == cu.page \ {j.seq}
      <3>1. j.by = c /\ j.step = "ok" /\ j.seq \in recorded /\ j.seq \in Nat
        BY <2>7 DEF Replayed, Work, AfterRecord, TypeOK, JobType, Seqs
      <3>2. cu.phase = "page" /\ j.seq \in cu.page
        BY <3>1 DEF Work, RunWaits, IsNextOf
      <3>3. /\ catchUp'[c].phase = AfterPage(cu, rest) /\ catchUp'[c].page = rest
            /\ catchUp'[c].at = (IF j.seq > cu.at THEN j.seq ELSE cu.at)
            /\ catchUp'[c].full = cu.full /\ catchUp'[c].from = cu.from /\ catchUp'[c].log = cu.log
        BY <2>2, <2>7 DEF Replayed, TypeOK, CatchUpType
      <3>4. \/ s \in recorded \cup cu.page
            \/ cu.full /\ s > cu.at /\ \A r \in cu.page : s > r
        BY <3>2, <3>3 DEF GapIsAhead, Above
      <3>5. \/ s \in recorded \cup rest
            \/ cu.full /\ s > catchUp'[c].at /\ \A r \in rest : s > r
        BY <3>1, <3>2, <3>3, <3>4
      <3>6. /\ AfterPage(cu, rest) = "asking" => rest = {}
            /\ AfterPage(cu, rest) = "done" => rest = {} /\ ~cu.full
        BY DEF AfterPage
      <3> HIDE DEF cu, rest
      <3> QED
        BY <3>3, <3>5, <3>6
    <2> QED
      BY <1>4, <2>4, <2>5, <2>6, <2>7
  <1> QED
    BY <1>2, <1>3, <1>4

\* However large the log and whatever arrives meanwhile, a run of catch_up_events
\* that reaches its end has closed the gap it began with.
THEOREM CatchingUpClosesTheGap == ASSUME Assumed PROVE Spec => []CatchUpFoundTheGap
  <1>1. Init => GapIsAhead
    BY DEF Init, ReceiverInit, NewCatchUp, GapIsAhead, Above
  <1>2. DeliveryInv /\ GapIsAhead /\ [Next]_vars => GapIsAhead'
    BY GapStays
  <1>3. GapIsAhead => CatchUpFoundTheGap
    BY DEF GapIsAhead, Above, CatchUpFoundTheGap
  <1> QED
    BY <1>1, <1>2, <1>3, DeliveryInvariant, PTL DEF Spec
=============================================================================
