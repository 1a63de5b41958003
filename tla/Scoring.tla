------------------------------- MODULE Scoring -------------------------------
(***************************************************************************)
(* One question from its saves to its mark: what a save refuses, what      *)
(* publishing refuses, and what score() then awards for an answer.  Every  *)
(* endpoint reads the status of the test before the transaction it writes  *)
(* in, so what passed its check in a draft may land on a published paper.  *)
(*                                                                         *)
(* Marks are counted in halves of a ten-thousandth, fine enough to tell    *)
(* what round4 rounds.  An option is a set member, a short answer one of a *)
(* few texts; a prompt and an option either have text or do not.           *)
(***************************************************************************)
EXTENDS Integers, Sequences, FiniteSets

CONSTANTS
    Options,     \* the options of a choice question
    Stray,       \* an option id that is not one of the question's
    Texts,       \* what may be typed as a short answer or accepted as one
    Blank,       \* the texts that trim to nothing
    Fold,        \* per text, the text it is without regard to case
    MaxPoints,   \* points.max(100)
    Rubrics,     \* bound: the rubrics a teacher sends, <<>> for null
    Marks,       \* bound: the marks a teacher gives, in the units above
    MaxSaves     \* bound: the saves of the question

Unit == 20000
Points == {p * Unit : p \in 1 .. MaxPoints}
Tier == [correctCount : Nat, points : Nat]

ASSUME ScoringAssumption ==
    /\ IsFiniteSet(Options) /\ Stray \notin Options
    /\ Texts # {} /\ Blank \subseteq Texts /\ Fold \in [Texts -> Texts]
    /\ \A t \in Texts : Fold[t] \in Blank <=> t \in Blank
    /\ MaxPoints \in Nat \ {0} /\ MaxSaves \in Nat
    /\ Rubrics \subseteq Seq(Tier) /\ <<>> \in Rubrics
    /\ Marks \subseteq Nat

VARIABLES
    question,   \* the row with its options and keys
    stage,      \* the test is a draft or published; then: the paper is handed in
    checked,    \* the saves that have passed their checks and are still to write
    publishing, \* a publish found the question ready, and is still to write
    unseen,     \* history: the question as it stands is not what a publish saw last
    answer,     \* the response: <<>> none, or <<x>> with the options ticked or the text
    mark,       \* the mark a teacher gave, NoMark before
    saves

vars == <<question, stage, checked, publishing, unseen, answer, mark, saves>>

NoMark == -1
NoAnswer == <<>>

\* Every question has every field; `type` says which are its own.
Questions == [type : {"choice", "short", "essay"}, prompt : BOOLEAN, points : Points,
              correct : SUBSET Options, worded : SUBSET Options,
              selection : {"single", "multi"}, rubric : Rubrics, partialCredit : BOOLEAN,
              manual : BOOLEAN, caseSensitive : BOOLEAN, accepted : SUBSET Texts]

\* What a teacher can send; only a multi-answer question has a rubric.
ChoiceInputs == [type : {"choice"}, prompt : BOOLEAN, points : Points,
                 correct : SUBSET Options, worded : SUBSET Options,
                 selection : {"single", "multi"}, rubric : Rubrics, partialCredit : {FALSE},
                 manual : {FALSE}, caseSensitive : {FALSE}, accepted : {{}}]
ShortInputs == [type : {"short"}, prompt : BOOLEAN, points : Points,
                correct : {{}}, worded : {{}},
                selection : {"single"}, rubric : {<<>>}, partialCredit : {FALSE},
                manual : BOOLEAN, caseSensitive : BOOLEAN, accepted : SUBSET Texts]
EssayInputs == [type : {"essay"}, prompt : BOOLEAN, points : Points,
                correct : {{}}, worded : {{}},
                selection : {"single"}, rubric : {<<>>}, partialCredit : {FALSE},
                manual : {FALSE}, caseSensitive : {FALSE}, accepted : {{}}]

Inputs(type) == {q \in ChoiceInputs \cup ShortInputs \cup EssayInputs :
                    q.type = type /\ (q.selection = "single" => q.rubric = <<>>)}

----------------------------------------------------------------------------
(***************************************************************************)
(* Rubrics.                                                                *)
(***************************************************************************)
\* Mutant: the value as it is.
Unrounded(v) == v

\* Math.round(value * 10_000) / 10_000
Round4(v) == 2 * ((v + 1) \div 2)

Clamp(v, max) == IF v < 0 THEN 0 ELSE IF v > max THEN max ELSE v

\* No half is ever met: 20 options divide 10000 points by nothing that leaves one.
EvenSplitRubric(n, max) ==
    [k \in 1 .. n + 1 |-> [correctCount |-> k - 1,
                           points |-> 2 * ((max * (k - 1) + n) \div (2 * n))]]

AllOrNothingRubric(n, max) ==
    [k \in 1 .. n + 1 |-> [correctCount |-> k - 1, points |-> IF k - 1 = n THEN max ELSE 0]]

\* <<>> for null.
ResolveChoiceRubric(q, n) ==
    IF q.selection # "multi" \/ n < 2 THEN <<>>
    ELSE IF q.rubric # <<>> THEN q.rubric
    ELSE IF q.partialCredit THEN EvenSplitRubric(n, q.points)
    ELSE AllOrNothingRubric(n, q.points)

\* Mutant: the top tier is not looked at.
ValidRubricTopless(q, n) ==
    \/ q.selection # "multi" \/ n < 2
    \/ /\ Len(q.rubric) = n + 1
       /\ \A k \in 1 .. n + 1 : /\ q.rubric[k].correctCount = k - 1
                                /\ q.rubric[k].points <= q.points
                                /\ k > 1 => q.rubric[k - 1].points <= q.rubric[k].points

\* validateChoiceRubric = null
ValidRubric(q, n) ==
    \/ q.selection # "multi" \/ n < 2
    \/ /\ Len(q.rubric) = n + 1
       /\ \A k \in 1 .. n + 1 : /\ q.rubric[k].correctCount = k - 1
                                /\ q.rubric[k].points <= q.points
                                /\ k > 1 => q.rubric[k - 1].points <= q.rubric[k].points
       /\ q.rubric[n + 1].points = q.points

----------------------------------------------------------------------------
(***************************************************************************)
(* What a save and a publish refuse.                                       *)
(***************************************************************************)
Correct(q) == Cardinality(q.correct)

\* assertUsableAnswerKey, of a question added whole
UsableAnswerKey(q) ==
    CASE q.type = "choice" -> /\ q.correct # {}
                              /\ q.selection = "single" => Correct(q) = 1
                              /\ ValidRubric(q, Correct(q))
      [] q.type = "short"  -> q.manual \/ q.accepted \ Blank # {}
      [] q.type = "essay"  -> TRUE

\* assertChoiceRubricForSave, of a draft that is edited
SavableDraft(q) == q.type = "choice" => ValidRubric(q, Correct(q))

\* isQuestionReady: it counts the options and the correct ones that have text.
Ready(q) ==
    /\ q.prompt
    /\ q.type = "choice" => LET keyed == q.correct \cap q.worded
                            IN  /\ Cardinality(q.worded) >= 2 /\ keyed # {}
                                /\ q.selection = "single" => Cardinality(keyed) = 1
    /\ q.type = "short" => q.manual \/ q.accepted \ Blank # {}

----------------------------------------------------------------------------
(***************************************************************************)
(* Scoring.                                                                *)
(***************************************************************************)
\* rubric.find(entry => entry.correctCount === hits), 0 if there is none
TierFor(rubric, hits) ==
    LET found == {k \in DOMAIN rubric : rubric[k].correctCount = hits}
    IN  IF found = {} THEN 0
        ELSE rubric[CHOOSE k \in found : \A j \in found : k <= j].points

\* Mutant: a wrong option takes the place of a right one.
ScoreMultiPenalised(q, selected) ==
    LET hits == Cardinality(selected \cap q.correct)
        rubric == ResolveChoiceRubric(q, Correct(q))
    IN  IF rubric = <<>> THEN IF hits > 0 THEN q.points ELSE 0
        ELSE Round4(Clamp(TierFor(rubric, hits - Cardinality(selected \ q.correct)), q.points))

\* Wrong options do not count against right ones.
ScoreMulti(q, selected) ==
    LET hits == Cardinality(selected \cap q.correct)
        rubric == ResolveChoiceRubric(q, Correct(q))
    IN  IF rubric = <<>> THEN IF hits > 0 THEN q.points ELSE 0
        ELSE Round4(Clamp(TierFor(rubric, hits), q.points))

ScoreSingle(q, selected) ==
    IF Cardinality(selected) = 1 /\ selected \subseteq q.correct THEN q.points ELSE 0

ScoreChoice(q, selected) == IF q.correct = {} THEN 0
                            ELSE IF q.selection = "single" THEN ScoreSingle(q, selected)
                            ELSE ScoreMulti(q, selected)

Normalized(text, caseSensitive) == IF caseSensitive THEN text ELSE Fold[text]

ScoreShort(q, text) ==
    IF /\ text \notin Blank
       /\ \E a \in q.accepted : Normalized(a, q.caseSensitive) = Normalized(text, q.caseSensitive)
    THEN q.points ELSE 0

ByHand(q) == q.type = "essay" \/ (q.type = "short" /\ q.manual)

\* score(), of one question; pending_manual awards nothing.
Awarded(q, a, m) ==
    IF ByHand(q) THEN IF m = NoMark THEN 0 ELSE Round4(Clamp(m, q.points))
    ELSE IF a = NoAnswer THEN 0
    ELSE IF q.type = "choice" THEN ScoreChoice(q, a[1])
    ELSE ScoreShort(q, a[1])

Answers(q) == IF q.type = "choice" THEN {<<s>> : s \in SUBSET (Options \cup {Stray})}
              ELSE {<<t>> : t \in Texts}

----------------------------------------------------------------------------
(***************************************************************************)
(* The question's life.                                                    *)
(***************************************************************************)
\* templateForKind: no text yet, one point, a short question marked by hand.
Templates == {q \in [type : {"choice", "short", "essay"}, prompt : {FALSE}, points : {Unit},
                     correct : {{}}, worded : {{}},
                     selection : {"single", "multi"}, rubric : {<<>>}, partialCredit : {FALSE},
                     manual : BOOLEAN, caseSensitive : {FALSE}, accepted : {{}}] :
                 /\ q.manual <=> q.type = "short"
                 /\ q.selection = "multi" => q.type = "choice"}

\* Stored before there were rubrics, and on a paper published then.
Legacy == [type : {"choice"}, prompt : {TRUE}, points : Points,
           correct : (SUBSET Options) \ {{}}, worded : {Options},
           selection : {"multi"}, rubric : {<<>>}, partialCredit : BOOLEAN,
           manual : {FALSE}, caseSensitive : {FALSE}, accepted : {{}}]

\* addQuestion: whole, its accepted answers trimmed and none of them empty.
Added == {q \in UNION {Inputs(t) : t \in {"choice", "short", "essay"}} :
             UsableAnswerKey(q) /\ q.accepted \cap Blank = {}}

\* The question as it was added, which it may have been to a paper published since the
\* add looked.
Init == /\ question \in Templates \cup Added \cup Legacy
        /\ stage \in IF question \in Legacy THEN {"published"} ELSE {"draft", "published"}
        /\ unseen = (question \notin Legacy)
        /\ checked = 0 /\ publishing = FALSE
        /\ answer = NoAnswer /\ mark = NoMark /\ saves = 0

\* updateQuestion finds a draft, the type it had, and a rubric that fits the key sent.
CheckSave == /\ stage = "draft" /\ saves < MaxSaves
             /\ checked' = checked + 1 /\ saves' = saves + 1
             /\ UNCHANGED <<question, stage, publishing, unseen, answer, mark>>

\* Options are deleted and inserted anew, so that what was ticked is no option any more.
Orphaned(a) == IF question.type = "choice" /\ a # NoAnswer /\ a[1] # {} THEN <<{Stray}>> ELSE a

\* The transaction of updateQuestion, which looks at the test no more.
Save == /\ checked > 0
        /\ question' \in {q \in Inputs(question.type) : SavableDraft(q)}
        /\ checked' = checked - 1
        /\ unseen' = TRUE
        /\ answer' = Orphaned(answer)
        /\ UNCHANGED <<stage, publishing, mark, saves>>

\* publishTest: the status and incompleteQuestionCount, and then the transaction.
CheckPaper == /\ stage = "draft" /\ Ready(question)
              /\ publishing' = TRUE /\ unseen' = FALSE
              /\ UNCHANGED <<question, stage, checked, answer, mark, saves>>

Publish == /\ publishing
           /\ publishing' = FALSE
           /\ stage' = IF stage = "draft" THEN "published" ELSE stage
           /\ UNCHANGED <<question, checked, unseen, answer, mark, saves>>

\* Mutant: the kind of the response is not looked at.
AnswerOfAnyKind == /\ stage = "published"
                   /\ answer' \in {<<t>> : t \in Texts}
                   /\ UNCHANGED <<question, stage, checked, publishing, unseen, mark, saves>>

Answer == /\ stage = "published"
          /\ answer' \in Answers(question)
          /\ UNCHANGED <<question, stage, checked, publishing, unseen, mark, saves>>

HandIn == /\ stage = "published"
          /\ stage' = "submitted"
          /\ UNCHANGED <<question, checked, publishing, unseen, answer, mark, saves>>

\* scoreWrittenAnswer
Mark == /\ stage = "submitted" /\ ByHand(question)
        /\ mark' \in {m \in Marks : m <= question.points}
        /\ UNCHANGED <<question, stage, checked, publishing, unseen, answer, saves>>

Next == CheckSave \/ Save \/ CheckPaper \/ Publish \/ Answer \/ HandIn \/ Mark

Spec == Init /\ [][Next]_vars

----------------------------------------------------------------------------
(***************************************************************************)
(* Properties.                                                             *)
(***************************************************************************)
TypeOK == /\ question \in Questions
          /\ stage \in {"draft", "published", "submitted"}
          /\ checked \in 0 .. saves /\ publishing \in BOOLEAN /\ unseen \in BOOLEAN
          /\ answer \in Answers(question) \cup {NoAnswer}
          /\ mark \in Marks \cup {NoMark}
          /\ saves \in 0 .. MaxSaves

\* Whatever was saved, however little of it was checked, and whatever is answered or
\* given: the mark is between nothing and the question's total, and one the column
\* numeric(12,4) holds as it is (round.ts:5-8, score.ts:7-9).
AwardIsDefensible == LET m == Awarded(question, answer, mark)
                     IN  0 <= m /\ m <= question.points /\ m % 2 = 0

\* A question on a published paper can be answered for full marks: the rubric that was
\* checked with the last save is the one its key has (choice-rubric.ts:86-89), and that
\* there is a key is what a publish looks at.  A save or an add that lands behind that
\* look may leave none, but no rubric that cannot be met.
Keyed(q) == /\ q.type = "choice" => q.correct # {}
            /\ q.type = "short" => q.manual \/ q.accepted \ Blank # {}
FullMarksCanBeHad ==
    stage # "draft" /\ (unseen => Keyed(question)) =>
        \E a \in Answers(question), m \in {NoMark, question.points} :
            Awarded(question, a, m) = question.points

\* Ticking more of the right options never costs anything, whatever wrong ones are
\* ticked beside them (choice-rubric.ts:78-83).
MoreRightIsNeverWorse ==
    /\ stage # "draft" /\ answer # NoAnswer
    /\ question.type = "choice" /\ question.selection = "multi"
    => \A more \in Answers(question) :
          answer[1] \cap question.correct \subseteq more[1] \cap question.correct =>
              Awarded(question, answer, mark) <= Awarded(question, more, mark)

\* Violated.  "unanswered, wrong response kind, and a broken answer key all score zero"
\* (score.ts:7-9): what isAnswered calls unanswered scores nothing.
IsAnswered(a) == /\ a # NoAnswer
                 /\ IF question.type = "choice" THEN a[1] # {} ELSE a[1] \notin Blank
UnansweredScoresZero == ~ByHand(question) /\ ~IsAnswered(answer)
                           => Awarded(question, answer, mark) = 0

\* Violated.  "Open each one marked Incomplete and finish it before publishing"
\* (publish-test.ts:41): what is published is ready.
PublishedIsReady == stage # "draft" /\ question \notin Legacy => Ready(question)

\* Violated.  "A single-answer question needs exactly one correct option"
\* (question-readiness.ts:99-103, question-input.ts:91): on a published paper it has.
SingleHasOneKey ==
    stage # "draft" /\ question.type = "choice" /\ question.selection = "single" =>
        Cardinality(question.correct) = 1
=============================================================================
