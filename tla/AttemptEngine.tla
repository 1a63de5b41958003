--------------------------- MODULE AttemptEngine ---------------------------
(***************************************************************************)
(* packages/engine: the pure reducer every state transition of a sitting   *)
(* goes through, on the device.  Content is abstract; what is kept is what *)
(* each event does to the state, the mutation it emits, and why it is      *)
(* refused.                                                                *)
(***************************************************************************)
EXTENDS Naturals, Sequences

CONSTANTS
    Questions,        \* the question ids of the package
    Values,           \* response values, of every kind
    NoAnswer,         \* no entry in `responses`
    Accepts,          \* the values whose kind is that of the question's type
    QuestionCount,    \* pkg.questions.length
    AllowNavigation   \* pkg.allowNavigation

ASSUME EngineAssumption == /\ Accepts \in [Questions -> SUBSET Values]
                           /\ QuestionCount \in Nat
                           /\ AllowNavigation \in BOOLEAN
                           /\ NoAnswer \notin Values

AttemptState == [seq : Nat, resp : [Questions -> Values \cup {NoAnswer}],
                 marked : SUBSET Questions, cursor : Nat, submitted : BOOLEAN]

\* freshState of useAttempt.
FreshState == [seq |-> 0, resp |-> [q \in Questions |-> NoAnswer],
               marked |-> {}, cursor |-> 0, submitted |-> FALSE]

\* `late` is isPastDeadline: no time remains, which is so at the deadline itself.
AnswerRejection(ev, late) ==
    IF late THEN "deadline_passed"
    ELSE IF ev.q \notin Questions THEN "unknown_question"
    ELSE IF ev.v \notin Accepts[ev.q] THEN "response_kind_mismatch"
    ELSE "none"

MarkRejection(ev) == IF ev.q \notin Questions THEN "unknown_question" ELSE "none"

NavigateRejection(st, ev) ==
    IF ev.to < 0 \/ ev.to >= QuestionCount THEN "cursor_out_of_range"
    ELSE IF ~AllowNavigation /\ ev.to # st.cursor + 1 THEN "navigation_disabled"
    ELSE "none"

\* Mutant: a submitted attempt takes answers.
RejectionStaysOpen(st, ev, late) ==
    CASE ev.t = "answer" -> AnswerRejection(ev, late)
      [] ev.t = "mark" -> MarkRejection(ev)
      [] ev.t = "navigate" -> NavigateRejection(st, ev)
      [] ev.t = "submit" -> "none"

\* A submitted attempt is closed to everything, and that is looked at first.
Rejection(st, ev, late) ==
    IF st.submitted THEN "already_submitted"
    ELSE CASE ev.t = "answer" -> AnswerRejection(ev, late)
           [] ev.t = "mark" -> MarkRejection(ev)
           [] ev.t = "navigate" -> NavigateRejection(st, ev)
           [] ev.t = "submit" -> "none"

\* Flagging what is flagged already is accepted and emits nothing.
IsNoop(st, ev) == ev.t = "mark" /\ ev.on = (ev.q \in st.marked)

\* The state an accepted event leads to.
Accepted(st, ev) ==
    CASE IsNoop(st, ev) -> st
      [] ev.t = "answer" -> [st EXCEPT !.seq = @ + 1, !.resp[ev.q] = ev.v]
      [] ev.t = "mark" /\ ~IsNoop(st, ev) ->
            [st EXCEPT !.seq = @ + 1,
                       !.marked = IF ev.on THEN @ \cup {ev.q} ELSE @ \ {ev.q}]
      [] ev.t = "navigate" -> [st EXCEPT !.cursor = ev.to]
      [] ev.t = "submit" -> [st EXCEPT !.submitted = TRUE]

\* The mutations it emits: navigation and submission are not outbox items.
Emits(st, ev, id) ==
    CASE ev.t = "answer" ->
            <<[kind |-> "answer", id |-> id, q |-> ev.q, val |-> ev.v, seq |-> st.seq + 1]>>
      [] ev.t = "mark" /\ ~IsNoop(st, ev) ->
            <<[kind |-> "mark", id |-> id, q |-> ev.q, on |-> ev.on, seq |-> st.seq + 1]>>
      [] OTHER -> <<>>

\* A rejected event returns the state untouched with a reason.
Reduce(st, ev, late, id) ==
    LET rejected == Rejection(st, ev, late)
    IN  IF rejected # "none"
        THEN [state |-> st, mutations |-> <<>>, rejected |-> rejected]
        ELSE [state |-> Accepted(st, ev), mutations |-> Emits(st, ev, id),
              rejected |-> "none"]

=============================================================================
