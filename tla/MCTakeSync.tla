------------------------------ MODULE MCTakeSync ------------------------------
(* A paper of two questions and a taker with a few things to do on it.         *)
EXTENDS TakeSync, TLC

CONSTANTS q1, q2, v1, v2

Answer(q, v) == [t |-> "answer", q |-> q, v |-> v]
Mark(q, on) == [t |-> "mark", q |-> q, on |-> on]

Everything == {Answer(q1, v1), Answer(q1, v2), Answer(q2, v1), Mark(q1, TRUE), Mark(q1, FALSE)}
OneQuestion == {Answer(q1, v1), Answer(q1, v2), Mark(q1, TRUE), Mark(q1, FALSE)}
Navigate(to) == [t |-> "navigate", to |-> to]
AnswerOrMove == {Answer(q1, v1), Navigate(1)}
JustAnswer == {Answer(q1, v1), Answer(q1, v2)}
OneValue == [q \in {q1} |-> {v1}]
AnyValue1 == [q \in {q1} |-> {v1, v2}]
ValueSymmetry == Permutations({v1, v2})
AnyValue == [q \in {q1, q2} |-> {v1, v2}]
=============================================================================
