---------------------------- MODULE MCAnswerSheet ----------------------------
(* AnswerSheet over a handful of mutations, sent in batches of one or two, in *)
(* every order and with every repetition.                                     *)
EXTENDS AnswerSheet, FiniteSets, SequencesExt

CONSTANTS q1, q2, v1, v2, v3

Answer(i, q, v, s) == [kind |-> "answer", id |-> i, q |-> q, val |-> v, seq |-> s]
Mark(i, q, on, s) == [kind |-> "mark", id |-> i, q |-> q, on |-> on, seq |-> s]
Timing(i, q, ms) == [kind |-> "timing", id |-> i, q |-> q, ms |-> ms]

\* Two questions: one answered twice and flagged in between; the other answered,
\* then flagged; time on the first, above the clamp; a visibility event.
Mixed == { Answer(1, q1, v1, 1), Mark(2, q1, TRUE, 2), Answer(3, q1, v2, 3),
           Answer(4, q2, v1, 4), Mark(5, q2, TRUE, 5),
           Timing(6, q1, 5), [kind |-> "visibility", id |-> 7] }

AnswersOnly == { Answer(1, q1, v1, 1), Answer(2, q1, v2, 2), Answer(3, q2, v1, 3),
                 Answer(4, q1, v3, 4), Answer(5, q2, v2, 5) }

MixedBatches == SeqOf(Mixed, 2)
AnswerBatches == SeqOf(AnswersOnly, 2)
=============================================================================
