---------------------------- MODULE Scoring_proofs ----------------------------
(***************************************************************************)
(* What the model Scoring keeps, for every set of options and texts, every *)
(* total, every rubric a teacher may send and every number of saves.       *)
(*                                                                         *)
(* Two facts carry the later theorems: what is stored has passed the rubric *)
(* check of its last save, or is a paper from before there were rubrics;   *)
(* and what a publish saw last was ready, which says nothing of a save or  *)
(* an add that lands behind the look.                                      *)
(***************************************************************************)
EXTENDS Scoring, TLAPS, FiniteSetTheorems, WellFoundedInduction

----------------------------------------------------------------------------
(***************************************************************************)
(* Arithmetic of the awards.                                               *)
(***************************************************************************)
LEMMA PointsAreEven ==
    ASSUME NEW p \in Points
    PROVE  p \in Nat /\ p > 0 /\ p % 2 = 0
  <1>1. PICK n \in 1 .. MaxPoints : p = n * 20000
    BY DEF Points, Unit
  <1>2. n \in Int /\ n > 0
    OBVIOUS
  <1>3. QED
    BY <1>1, <1>2

\* Rounding after clamping stays between nothing and the total, which it never leaves uneven.
LEMMA RoundInRange ==
    ASSUME NEW v \in Int, NEW m \in Nat, m % 2 = 0
    PROVE  /\ 0 <= Round4(Clamp(v, m)) /\ Round4(Clamp(v, m)) <= m
           /\ Round4(Clamp(v, m)) % 2 = 0
  BY DEF Round4, Clamp

LEMMA RoundReachesTheTotal ==
    ASSUME NEW v \in Int, NEW m \in Nat, m % 2 = 0, v >= m
    PROVE  Round4(Clamp(v, m)) = m
  BY DEF Round4, Clamp

LEMMA RoundIsMonotone ==
    ASSUME NEW v \in Int, NEW u \in Int, v <= u, NEW m \in Nat
    PROVE  Round4(Clamp(v, m)) <= Round4(Clamp(u, m))
  BY DEF Round4, Clamp

LEMMA DivIsNat ==
    ASSUME NEW n \in Nat, n > 0, NEW a \in Nat
    PROVE  (a \div n) \in Nat
  OBVIOUS

LEMMA DivIsMonotone ==
    ASSUME NEW n \in Nat, n > 0, NEW a \in Nat, NEW b \in Nat, a <= b
    PROVE  (a \div n) <= (b \div n)
  OBVIOUS

LEMMA DivRounds ==
    ASSUME NEW n \in Nat, n > 0, NEW m \in Nat
    PROVE  (2 * m * n + n) \div (2 * n) = m
  OBVIOUS

LEMMA TimesIsMonotone ==
    ASSUME NEW m \in Nat, NEW a \in Nat, NEW b \in Nat, a <= b
    PROVE  m * a \in Nat /\ m * b \in Nat /\ m * a <= m * b
  OBVIOUS

\* A set of numbers that is not empty has a least one.
LEMMA LeastExists ==
    ASSUME NEW S \in SUBSET Nat, S # {}
    PROVE  \E k \in S : \A j \in S : k <= j
  <1>0. S \subseteq Nat
    OBVIOUS
  <1>1. PICK k \in S : \A y \in S : ~(<<y, k>> \in OpToRel(<, Nat))
    BY <1>0, NatLessThanWellFounded, WFMin
  <1>2. \A j \in S : ~(j < k)
    BY <1>0, <1>1 DEF OpToRel
  <1>3. QED
    BY <1>0, <1>2

----------------------------------------------------------------------------
(***************************************************************************)
(* Rubrics.                                                                *)
(***************************************************************************)
LEMMA CorrectIsFinite ==
    ASSUME ScoringAssumption, NEW q \in Questions, NEW s
    PROVE  /\ IsFiniteSet(q.correct) /\ Correct(q) \in Nat
           /\ IsFiniteSet(s \cap q.correct)
           /\ Cardinality(s \cap q.correct) \in Nat
           /\ Cardinality(s \cap q.correct) <= Correct(q)
  <1>1. IsFiniteSet(q.correct)
    BY FS_Subset DEF ScoringAssumption, Questions
  <1>2. IsFiniteSet(s \cap q.correct) /\ Cardinality(s \cap q.correct) <= Correct(q)
    BY <1>1, FS_Subset DEF Correct
  <1>3. QED
    BY <1>1, <1>2, FS_CardinalityType DEF Correct

LEMMA EvenSplitIsTiers ==
    ASSUME NEW n \in Nat, n > 0, NEW max \in Nat
    PROVE  EvenSplitRubric(n, max) \in [1 .. n + 1 -> Tier]
  <1>1. ASSUME NEW k \in 1 .. n + 1
        PROVE  2 * ((max * (k - 1) + n) \div (2 * n)) \in Nat
    <2>1. max * (k - 1) + n \in Nat
      BY TimesIsMonotone
    <2>2. 2 * n \in Nat /\ 2 * n > 0
      OBVIOUS
    <2>3. ((max * (k - 1) + n) \div (2 * n)) \in Nat
      BY <2>1, <2>2, DivIsNat
    <2>4. QED
      BY <2>3
  <1>2. \A k \in 1 .. n + 1 : k - 1 \in Nat
    OBVIOUS
  <1>3. QED
    BY <1>1, <1>2 DEF EvenSplitRubric, Tier

LEMMA AllOrNothingIsTiers ==
    ASSUME NEW n \in Nat, NEW max \in Nat
    PROVE  AllOrNothingRubric(n, max) \in [1 .. n + 1 -> Tier]
  <1>1. \A k \in 1 .. n + 1 : k - 1 \in Nat /\ (IF k - 1 = n THEN max ELSE 0) \in Nat
    OBVIOUS
  <1>2. QED
    BY <1>1 DEF AllOrNothingRubric, Tier

\* What a question is scored by is a list of tiers, whatever was stored with it.
LEMMA ResolvedIsTiers ==
    ASSUME ScoringAssumption, NEW q \in Questions, NEW n \in Nat
    PROVE  \E d \in Nat : ResolveChoiceRubric(q, n) \in [1 .. d -> Tier]
  <1>1. q.points \in Nat
    BY PointsAreEven DEF Questions
  <1>2. q.rubric \in Seq(Tier)
    BY DEF ScoringAssumption, Questions
  <1>3. \E d \in Nat : q.rubric \in [1 .. d -> Tier]
    BY <1>2
  <1>4. <<>> \in [1 .. 0 -> Tier]
    OBVIOUS
  <1>5. CASE q.selection # "multi" \/ n < 2
    BY <1>4, <1>5 DEF ResolveChoiceRubric
  <1>6. CASE ~(q.selection # "multi" \/ n < 2) /\ q.rubric # <<>>
    BY <1>3, <1>6 DEF ResolveChoiceRubric
  <1>7. CASE ~(q.selection # "multi" \/ n < 2) /\ q.rubric = <<>> /\ q.partialCredit
    <2>1. ResolveChoiceRubric(q, n) = EvenSplitRubric(n, q.points)
      BY <1>7 DEF ResolveChoiceRubric
    <2>2. n > 0 /\ n + 1 \in Nat
      BY <1>1, <1>7
    <2>3. ResolveChoiceRubric(q, n) \in [1 .. n + 1 -> Tier]
      BY <1>1, <2>1, <2>2, EvenSplitIsTiers
    <2>4. QED
      BY <2>2, <2>3
  <1>8. CASE ~(q.selection # "multi" \/ n < 2) /\ q.rubric = <<>> /\ ~q.partialCredit
    <2>1. ResolveChoiceRubric(q, n) = AllOrNothingRubric(n, q.points)
      BY <1>8 DEF ResolveChoiceRubric
    <2>2. n + 1 \in Nat
      BY <1>1
    <2>3. ResolveChoiceRubric(q, n) \in [1 .. n + 1 -> Tier]
      BY <1>1, <2>1, <2>2, AllOrNothingIsTiers
    <2>4. QED
      BY <2>2, <2>3
  <1>9. QED
    BY <1>5, <1>6, <1>7, <1>8

LEMMA TierIsMarks ==
    ASSUME NEW d \in Nat, NEW r \in [1 .. d -> Tier], NEW hits
    PROVE  TierFor(r, hits) \in Nat
  <1> DEFINE found == {k \in DOMAIN r : r[k].correctCount = hits}
  <1>1. CASE found = {}
    BY <1>1 DEF TierFor
  <1>2. CASE found # {}
    <2>1. found \subseteq Nat /\ found \subseteq 1 .. d
      OBVIOUS
    <2>2. \E k \in found : \A j \in found : k <= j
      BY <1>2, <2>1, LeastExists
    <2>3. PICK k \in found : TierFor(r, hits) = r[k].points
      BY <1>2, <2>2 DEF TierFor
    <2>4. QED
      BY <2>1, <2>3 DEF Tier
  <1>3. QED
    BY <1>1, <1>2

\* In a rubric with a tier per count, in order, the tier found is the one of the count.
LEMMA TierOfStraight ==
    ASSUME NEW d \in Nat, NEW r \in [1 .. d -> Tier],
           \A k \in 1 .. d : r[k].correctCount = k - 1,
           NEW hits \in 0 .. d - 1
    PROVE  TierFor(r, hits) = r[hits + 1].points
  <1> DEFINE found == {k \in DOMAIN r : r[k].correctCount = hits}
  <1>1. found = {hits + 1}
    OBVIOUS
  <1>2. (CHOOSE k \in found : \A j \in found : k <= j) = hits + 1
    BY <1>1
  <1>3. QED
    BY <1>1, <1>2 DEF TierFor

----------------------------------------------------------------------------
(***************************************************************************)
(* Type correctness.                                                       *)
(***************************************************************************)
LEMMA InputsAreQuestions ==
    ASSUME ScoringAssumption, NEW type, NEW q \in Inputs(type)
    PROVE  q \in Questions /\ q.type = type
  <1>0. <<>> \in Rubrics
    BY DEF ScoringAssumption
  <1>1. CASE q \in ChoiceInputs
    BY <1>1, Zenon DEF ChoiceInputs, Inputs, Questions
  <1>2. CASE q \in ShortInputs
    BY <1>0, <1>2, Zenon DEF ShortInputs, Inputs, Questions
  <1>3. CASE q \in EssayInputs
    BY <1>0, <1>3, Zenon DEF EssayInputs, Inputs, Questions
  <1>4. QED
    BY <1>1, <1>2, <1>3 DEF Inputs

LEMMA FirstQuestions ==
    ASSUME ScoringAssumption
    PROVE  Templates \cup Added \cup Legacy \subseteq Questions
  <1>1. <<>> \in Rubrics
    BY DEF ScoringAssumption
  <1>2. Unit \in Points
    BY DEF Unit, Points, ScoringAssumption
  <1>3. Templates \subseteq Questions
    BY <1>1, <1>2, Zenon DEF Templates, Questions
  <1>4. Legacy \subseteq Questions
    BY <1>1, Zenon DEF Legacy, Questions
  <1>5. Added \subseteq Questions
    BY InputsAreQuestions DEF Added
  <1>6. QED
    BY <1>3, <1>4, <1>5

\* Which answers a question takes is a matter of its type.
LEMMA AnswersByType ==
    ASSUME NEW q, NEW r, q.type = r.type
    PROVE  Answers(q) = Answers(r)
  BY DEF Answers

LEMMA TypeStep ==
    ASSUME ScoringAssumption, TypeOK, [Next]_vars
    PROVE  TypeOK'
  <1>0. ASSUME question' \in Inputs(question.type)
        PROVE  question' \in Questions /\ Answers(question') = Answers(question)
    BY <1>0, InputsAreQuestions, AnswersByType
  <1>1. CASE CheckSave
    BY <1>1 DEF CheckSave, TypeOK, ScoringAssumption
  <1>2. CASE Save
    <2>1. question' \in Questions /\ Answers(question') = Answers(question)
      BY <1>0, <1>2 DEF Save
    <2>2. answer' \in Answers(question) \cup {NoAnswer}
      BY <1>2 DEF Save, Orphaned, Answers, TypeOK
    <2>3. checked' \in 0 .. saves'
      BY <1>2 DEF Save, TypeOK, ScoringAssumption
    <2>4. QED
      BY <1>2, <2>1, <2>2, <2>3 DEF Save, TypeOK
  <1>3. CASE CheckPaper \/ Publish
    BY <1>3 DEF CheckPaper, Publish, TypeOK
  <1>4. CASE Answer
    BY <1>4 DEF Answer, TypeOK
  <1>5. CASE HandIn
    BY <1>5 DEF HandIn, TypeOK
  <1>6. CASE Mark
    BY <1>6 DEF Mark, TypeOK
  <1>7. CASE UNCHANGED vars
    BY <1>7 DEF vars, TypeOK
  <1>8. QED
    BY <1>1, <1>2, <1>3, <1>4, <1>5, <1>6, <1>7 DEF Next

\* Whatever is saved, answered and marked, the state stays what the tables and the
\* response schema say it is (questions.ts, response.ts).
THEOREM TypeInvariant == ASSUME ScoringAssumption PROVE Spec => []TypeOK
  <1>1. ASSUME Init PROVE TypeOK
    <2>1. question \in Questions
      BY <1>1, FirstQuestions DEF Init
    <2>2. stage \in {"draft", "published", "submitted"}
      BY <1>1 DEF Init
    <2>3. unseen \in BOOLEAN
      BY <1>1, Zenon DEF Init
    <2>4. checked = 0 /\ publishing = FALSE /\ answer = NoAnswer /\ mark = NoMark /\ saves = 0
      BY <1>1 DEF Init
    <2>5. checked \in 0 .. saves /\ saves \in 0 .. MaxSaves
      BY <2>4 DEF ScoringAssumption
    <2>6. QED
      BY <2>1, <2>2, <2>3, <2>4, <2>5 DEF TypeOK
  <1>2. TypeOK /\ [Next]_vars => TypeOK'
    BY TypeStep
  <1>3. QED
    BY <1>1, <1>2, PTL DEF Spec

----------------------------------------------------------------------------
(***************************************************************************)
(* The award stays in its bounds.  Nothing about the rubric is needed but  *)
(* that its tiers are numbers: the clamp and the rounding do the rest.     *)
(***************************************************************************)
Bounded(award, q) == 0 <= award /\ award <= q.points /\ award % 2 = 0

LEMMA ChoiceIsBounded ==
    ASSUME ScoringAssumption, NEW q \in Questions, NEW s
    PROVE  Bounded(ScoreChoice(q, s), q)
  <1> DEFINE hits == Cardinality(s \cap q.correct)
             rubric == ResolveChoiceRubric(q, Correct(q))
  <1>1. q.points \in Nat /\ q.points > 0 /\ q.points % 2 = 0
    BY PointsAreEven DEF Questions
  <1>2. Bounded(0, q) /\ Bounded(q.points, q)
    BY <1>1 DEF Bounded
  <1>3. Bounded(ScoreSingle(q, s), q)
    BY <1>2 DEF ScoreSingle
  <1>4. TierFor(rubric, hits) \in Int
    <2>1. Correct(q) \in Nat
      BY CorrectIsFinite
    <2>2. PICK d \in Nat : rubric \in [1 .. d -> Tier]
      BY <2>1, ResolvedIsTiers
    <2>3. TierFor(rubric, hits) \in Nat
      BY <2>2, TierIsMarks
    <2>4. QED
      BY <2>3
  <1>5. Bounded(Round4(Clamp(TierFor(rubric, hits), q.points)), q)
    BY <1>1, <1>4, RoundInRange DEF Bounded
  <1>6. Bounded(ScoreMulti(q, s), q)
    <2>1. ScoreMulti(q, s) = IF rubric = <<>> THEN IF hits > 0 THEN q.points ELSE 0
                             ELSE Round4(Clamp(TierFor(rubric, hits), q.points))
      BY DEF ScoreMulti
    <2> HIDE DEF rubric, hits
    <2>2. QED
      BY <1>2, <1>5, <2>1
  <1>7. QED
    BY <1>2, <1>3, <1>6 DEF ScoreChoice

LEMMA AwardIsBounded ==
    ASSUME ScoringAssumption, NEW q \in Questions, NEW a \in Answers(q) \cup {NoAnswer},
           NEW m \in Marks \cup {NoMark}
    PROVE  Bounded(Awarded(q, a, m), q)
  <1>1. q.points \in Nat /\ q.points > 0 /\ q.points % 2 = 0
    BY PointsAreEven DEF Questions
  <1>2. Bounded(0, q) /\ Bounded(q.points, q)
    BY <1>1 DEF Bounded
  <1>3. CASE ByHand(q)
    <2>1. m \in Int
      BY DEF ScoringAssumption, NoMark
    <2>2. Bounded(Round4(Clamp(m, q.points)), q)
      BY <1>1, <2>1, RoundInRange DEF Bounded
    <2>3. Awarded(q, a, m) = IF m = NoMark THEN 0 ELSE Round4(Clamp(m, q.points))
      BY <1>3 DEF Awarded
    <2>4. CASE m = NoMark
      BY <1>2, <2>3, <2>4
    <2>5. CASE m # NoMark
      BY <2>2, <2>3, <2>5
    <2>6. QED
      BY <2>4, <2>5
  <1>4. CASE ~ByHand(q) /\ a = NoAnswer
    <2>1. Awarded(q, a, m) = 0
      BY <1>4 DEF Awarded
    <2>2. QED
      BY <1>2, <2>1
  <1>5. CASE ~ByHand(q) /\ a # NoAnswer /\ q.type = "choice"
    <2>1. Awarded(q, a, m) = ScoreChoice(q, a[1])
      BY <1>5 DEF Awarded
    <2>2. QED
      BY <2>1, ChoiceIsBounded
  <1>6. CASE ~ByHand(q) /\ a # NoAnswer /\ q.type = "short"
    <2>1. Awarded(q, a, m) = ScoreShort(q, a[1])
      BY <1>6 DEF Awarded, ByHand
    <2>2. QED
      BY <1>2, <2>1 DEF ScoreShort
  <1>7. QED
    BY <1>3, <1>4, <1>5, <1>6 DEF ByHand, Questions

\* No rubric, answer or mark makes an award that is negative, above the total or finer
\* than the column keeps (score.ts:7-9, round.ts:5-8).
THEOREM AwardsAreDefensible == ASSUME ScoringAssumption PROVE Spec => []AwardIsDefensible
  <1>1. TypeOK => AwardIsDefensible
    BY AwardIsBounded DEF TypeOK, AwardIsDefensible, Bounded
  <1>2. Spec => []TypeOK
    BY TypeInvariant
  <1>3. QED
    BY <1>1, <1>2, PTL

----------------------------------------------------------------------------
(***************************************************************************)
(* What is stored passed the check of its rubric, and what a publish saw   *)
(* last was ready.                                                         *)
(***************************************************************************)
Checked == /\ SavableDraft(question) \/ question \in Legacy
           /\ ~unseen => Ready(question) \/ question \in Legacy

LEMMA UsableIsSavable ==
    ASSUME NEW q, UsableAnswerKey(q)
    PROVE  SavableDraft(q)
  BY DEF UsableAnswerKey, SavableDraft

LEMMA TemplateIsSavable ==
    ASSUME NEW q \in Templates
    PROVE  SavableDraft(q)
  <1>1. q.correct = {}
    BY DEF Templates
  <1>2. Correct(q) = 0
    BY <1>1, FS_EmptySet DEF Correct
  <1>3. QED
    BY <1>2 DEF SavableDraft, ValidRubric

LEMMA CheckedStep ==
    ASSUME Checked, [Next]_vars
    PROVE  Checked'
  <1>1. CASE Save
    BY <1>1 DEF Save, Checked
  <1>2. CASE CheckPaper
    BY <1>2 DEF CheckPaper, Checked
  <1>3. CASE UNCHANGED <<question, unseen>>
    BY <1>3 DEF Checked
  <1>4. CASE CheckSave \/ Publish \/ Answer \/ HandIn \/ Mark
    BY <1>3, <1>4 DEF CheckSave, Publish, Answer, HandIn, Mark
  <1>5. CASE UNCHANGED vars
    BY <1>3, <1>5 DEF vars
  <1>6. QED
    BY <1>1, <1>2, <1>4, <1>5 DEF Next

\* The strengthened invariant: no save, however late, leaves a rubric that does not fit
\* its key, and a question nobody wrote since a publish looked at it is ready.
THEOREM CheckedInvariant == ASSUME ScoringAssumption PROVE Spec => []Checked
  <1>1. Init => Checked
    BY TemplateIsSavable, UsableIsSavable DEF Init, Checked, Added
  <1>2. Checked /\ [Next]_vars => Checked'
    BY CheckedStep
  <1>3. QED
    BY <1>1, <1>2, PTL DEF Spec

----------------------------------------------------------------------------
(***************************************************************************)
(* The rubric a published question is scored by: a tier per count, in      *)
(* order, the last of them worth the total, none worth more than the next. *)
(***************************************************************************)
Straight(r, n) == /\ r \in [1 .. n + 1 -> Tier]
                  /\ \A k \in 1 .. n + 1 : r[k].correctCount = k - 1

Rising(r, n) == \A j, k \in 1 .. n + 1 : j <= k => r[j].points <= r[k].points

\* Tiers that never fall from one to the next never fall.
LEMMA StepwiseIsRising ==
    ASSUME NEW n \in Nat, NEW r \in [1 .. n + 1 -> Tier],
           \A k \in 1 .. n + 1 : k > 1 => r[k - 1].points <= r[k].points
    PROVE  Rising(r, n)
  <1> DEFINE falls == {k \in 1 .. n + 1 : \E j \in 1 .. k : ~(r[j].points <= r[k].points)}
  <1>0. \A k \in 1 .. n + 1 : r[k].points \in Nat
    BY DEF Tier
  <1>1. falls = {}
    <2> SUFFICES ASSUME falls # {} PROVE FALSE
      OBVIOUS
    <2>1. falls \in SUBSET Nat
      OBVIOUS
    <2>2. PICK k \in falls : \A i \in falls : k <= i
      BY <2>1, LeastExists
    <2>3. PICK j \in 1 .. k : ~(r[j].points <= r[k].points)
      OBVIOUS
    <2>4. k \in 1 .. n + 1 /\ k - 1 \notin falls
      BY <2>2
    <2>5. j # k
      BY <1>0, <2>3, <2>4
    <2>6. k > 1 /\ k - 1 \in 1 .. n + 1 /\ j \in 1 .. k - 1 /\ j \in 1 .. n + 1
      BY <2>4, <2>5
    <2>7. r[j].points <= r[k - 1].points
      BY <2>4, <2>6
    <2>8. r[k - 1].points <= r[k].points
      BY <2>4, <2>6
    <2>9. QED
      BY <1>0, <2>3, <2>4, <2>6, <2>7, <2>8
  <1>2. QED
    <2> SUFFICES ASSUME NEW j \in 1 .. n + 1, NEW k \in 1 .. n + 1, j <= k
                 PROVE  r[j].points <= r[k].points
      BY DEF Rising
    <2>1. j \in 1 .. k
      OBVIOUS
    <2>2. QED
      BY <1>1, <2>1

LEMMA ValidIsStraight ==
    ASSUME ScoringAssumption, NEW q \in Questions, NEW n \in Nat, n >= 2,
           q.selection = "multi", ValidRubric(q, n)
    PROVE  /\ q.rubric # <<>> /\ Straight(q.rubric, n) /\ Rising(q.rubric, n)
           /\ q.rubric[n + 1].points = q.points
  <1>1. q.rubric \in Seq(Tier) /\ Len(q.rubric) = n + 1
    BY DEF ValidRubric, ScoringAssumption, Questions
  <1>2. q.rubric \in [1 .. n + 1 -> Tier] /\ q.rubric # <<>>
    BY <1>1
  <1>3. /\ \A k \in 1 .. n + 1 : /\ q.rubric[k].correctCount = k - 1
                                 /\ k > 1 => q.rubric[k - 1].points <= q.rubric[k].points
        /\ q.rubric[n + 1].points = q.points
    BY DEF ValidRubric
  <1>4. Rising(q.rubric, n)
    BY <1>2, <1>3, StepwiseIsRising
  <1>5. QED
    BY <1>2, <1>3, <1>4 DEF Straight

LEMMA EvenSplitIsStraight ==
    ASSUME NEW n \in Nat, n > 0, NEW max \in Nat, max % 2 = 0
    PROVE  /\ Straight(EvenSplitRubric(n, max), n) /\ Rising(EvenSplitRubric(n, max), n)
           /\ EvenSplitRubric(n, max)[n + 1].points = max
  <1> DEFINE r == EvenSplitRubric(n, max)
             share(k) == (max * (k - 1) + n) \div (2 * n)
  <1>1. Straight(r, n)
    BY EvenSplitIsTiers DEF Straight, EvenSplitRubric
  <1>2. \A k \in 1 .. n + 1 : r[k].points = 2 * share(k)
    BY DEF EvenSplitRubric
  <1>3. Rising(r, n)
    <2> SUFFICES ASSUME NEW j \in 1 .. n + 1, NEW k \in 1 .. n + 1, j <= k
                 PROVE  r[j].points <= r[k].points
      BY DEF Rising
    <2>1. j - 1 \in Nat /\ k - 1 \in Nat /\ j - 1 <= k - 1
      OBVIOUS
    <2>2. max * (j - 1) \in Nat /\ max * (k - 1) \in Nat /\ max * (j - 1) <= max * (k - 1)
      BY <2>1, TimesIsMonotone
    <2> DEFINE a == max * (j - 1) + n
               b == max * (k - 1) + n
    <2>3. a \in Nat /\ b \in Nat /\ a <= b
      BY <2>2
    <2>4. 2 * n \in Nat /\ 2 * n > 0
      OBVIOUS
    <2> HIDE DEF a, b
    <2>5. (a \div (2 * n)) <= (b \div (2 * n)) /\ (a \div (2 * n)) \in Nat /\ (b \div (2 * n)) \in Nat
      BY <2>3, <2>4, DivIsMonotone, DivIsNat
    <2>6. 2 * (a \div (2 * n)) <= 2 * (b \div (2 * n))
      BY <2>5
    <2>7. QED
      BY <1>2, <2>6 DEF a, b
  <1>4. r[n + 1].points = max
    <2>1. PICK h \in Nat : max = 2 * h
      <3>1. (max \div 2) \in Nat /\ max = 2 * (max \div 2)
        OBVIOUS
      <3>2. QED
        BY <3>1
    <2>2. share(n + 1) = (2 * h * n + n) \div (2 * n)
      BY <2>1
    <2>3. share(n + 1) = h
      BY <2>2, DivRounds
    <2>4. n + 1 \in 1 .. n + 1
      OBVIOUS
    <2>5. QED
      BY <1>2, <2>1, <2>3, <2>4
  <1>5. QED
    BY <1>1, <1>3, <1>4

LEMMA AllOrNothingIsStraight ==
    ASSUME NEW n \in Nat, NEW max \in Nat
    PROVE  /\ Straight(AllOrNothingRubric(n, max), n) /\ Rising(AllOrNothingRubric(n, max), n)
           /\ AllOrNothingRubric(n, max)[n + 1].points = max
  <1> DEFINE r == AllOrNothingRubric(n, max)
  <1>1. Straight(r, n)
    BY AllOrNothingIsTiers DEF Straight, AllOrNothingRubric
  <1>2. \A k \in 1 .. n + 1 : r[k].points = IF k - 1 = n THEN max ELSE 0
    BY DEF AllOrNothingRubric
  <1>3. n + 1 \in 1 .. n + 1
    OBVIOUS
  <1> HIDE DEF r
  <1>4. Rising(r, n)
    BY <1>2 DEF Rising
  <1>5. r[n + 1].points = max
    BY <1>2, <1>3
  <1>6. QED
    BY <1>1, <1>4, <1>5 DEF r

\* What the invariant says of the rubric of a question that may be published.
LEMMA ResolvedIsStraight ==
    ASSUME ScoringAssumption, NEW q \in Questions, NEW n \in Nat, n >= 2,
           q.selection = "multi", ValidRubric(q, n) \/ q.rubric = <<>>
    PROVE  LET r == ResolveChoiceRubric(q, n)
           IN  r # <<>> /\ Straight(r, n) /\ Rising(r, n) /\ r[n + 1].points = q.points
  <1> DEFINE r == ResolveChoiceRubric(q, n)
  <1>1. q.points \in Nat /\ q.points % 2 = 0
    BY PointsAreEven DEF Questions
  <1>2. ASSUME NEW s, Straight(s, n) PROVE s # <<>>
    <2>1. 1 \in DOMAIN s
      BY <1>2 DEF Straight
    <2>2. QED
      BY <2>1
  <1>3. CASE q.rubric # <<>>
    <2>1. r = q.rubric
      BY <1>3 DEF ResolveChoiceRubric
    <2>2. QED
      BY <1>3, <2>1, ValidIsStraight
  <1>4. CASE q.rubric = <<>> /\ q.partialCredit
    <2>1. r = EvenSplitRubric(n, q.points)
      BY <1>4 DEF ResolveChoiceRubric
    <2>2. QED
      BY <1>1, <1>2, <2>1, EvenSplitIsStraight
  <1>5. CASE q.rubric = <<>> /\ ~q.partialCredit
    <2>1. r = AllOrNothingRubric(n, q.points)
      BY <1>5 DEF ResolveChoiceRubric
    <2>2. QED
      BY <1>1, <1>2, <2>1, AllOrNothingIsStraight
  <1>6. QED
    BY <1>3, <1>4, <1>5

----------------------------------------------------------------------------
(***************************************************************************)
(* Full marks can be had, and more right options are never worse.          *)
(***************************************************************************)
\* A multi-answer question with a key of two or more pays the tier of the hits.
LEMMA MultiPaysTheTier ==
    ASSUME ScoringAssumption, NEW q \in Questions, NEW n \in Nat, n >= 2, Correct(q) = n,
           q.selection = "multi", ValidRubric(q, n) \/ q.rubric = <<>>, NEW s
    PROVE  LET r == ResolveChoiceRubric(q, n)
               h == Cardinality(s \cap q.correct)
           IN  /\ h \in 0 .. n
               /\ ScoreChoice(q, s) = Round4(Clamp(r[h + 1].points, q.points))
  <1> DEFINE r == ResolveChoiceRubric(q, n)
             h == Cardinality(s \cap q.correct)
  <1>1. r # <<>> /\ Straight(r, n)
    BY ResolvedIsStraight
  <1>2. h \in Nat /\ h <= n
    BY CorrectIsFinite
  <1>3. TierFor(r, h) = r[h + 1].points
    <2> HIDE DEF r, h
    <2>1. n + 1 \in Nat /\ h \in 0 .. (n + 1) - 1
      BY <1>2
    <2>2. QED
      BY <1>1, <2>1, TierOfStraight DEF Straight
  <1>4. q.correct # {}
    <2> SUFFICES ASSUME q.correct = {} PROVE FALSE
      OBVIOUS
    <2>1. Correct(q) = 0
      BY FS_EmptySet, Zenon DEF Correct
    <2>2. QED
      BY <2>1
  <1>5. ScoreMulti(q, s) = Round4(Clamp(TierFor(r, h), q.points))
    BY <1>1 DEF ScoreMulti
  <1>6. ScoreChoice(q, s) = ScoreMulti(q, s)
    BY <1>4 DEF ScoreChoice
  <1>7. QED
    BY <1>2, <1>3, <1>5, <1>6

\* With a key of one it is all or nothing.
LEMMA MultiOfOne ==
    ASSUME NEW q \in Questions, q.correct # {}, Correct(q) < 2, q.selection = "multi", NEW s
    PROVE  ScoreChoice(q, s) = IF Cardinality(s \cap q.correct) > 0 THEN q.points ELSE 0
  <1>1. ResolveChoiceRubric(q, Correct(q)) = <<>>
    BY DEF ResolveChoiceRubric
  <1>2. QED
    BY <1>1 DEF ScoreChoice, ScoreMulti

\* A choice question with a key, whose rubric fits it or was never set, pays in full when
\* exactly the key is ticked, or one of the keyed options if only one may be.
LEMMA ChoicePaysInFull ==
    ASSUME ScoringAssumption, NEW q \in Questions, q.type = "choice", q.correct # {},
           ValidRubric(q, Correct(q)) \/ q.rubric = <<>>
    PROVE  \E s \in SUBSET Options : ScoreChoice(q, s) = q.points
  <1>1. q.correct \in SUBSET Options /\ q.correct \cap q.correct = q.correct
    BY DEF Questions
  <1>2. Correct(q) \in Nat /\ Correct(q) > 0
    <2>1. IsFiniteSet(q.correct) /\ Correct(q) \in Nat
      BY CorrectIsFinite
    <2>2. Correct(q) # 0
      BY <2>1, FS_EmptySet DEF Correct
    <2>3. QED
      BY <2>1, <2>2
  <1>3. CASE q.selection = "single"
    <2>1. PICK o : o \in q.correct
      OBVIOUS
    <2>2. Cardinality({o}) = 1 /\ {o} \subseteq q.correct /\ {o} \in SUBSET Options
      BY <1>1, <2>1, FS_Singleton
    <2>3. ScoreChoice(q, {o}) = q.points
      BY <1>3, <2>2 DEF ScoreChoice, ScoreSingle
    <2>4. QED
      BY <2>2, <2>3
  <1>4. CASE q.selection = "multi" /\ Correct(q) < 2
    <2>1. Cardinality(q.correct \cap q.correct) > 0
      BY <1>1, <1>2 DEF Correct
    <2>2. ScoreChoice(q, q.correct) = q.points
      BY <1>4, <2>1, MultiOfOne
    <2>3. QED
      BY <1>1, <2>2
  <1>5. CASE q.selection = "multi" /\ Correct(q) >= 2
    <2>1. PICK n \in Nat : Correct(q) = n
      BY <1>2
    <2> DEFINE r == ResolveChoiceRubric(q, n)
    <2>2. r[n + 1].points = q.points
      BY <1>5, <2>1, ResolvedIsStraight
    <2>3. Cardinality(q.correct \cap q.correct) = n
      BY <1>1, <2>1 DEF Correct
    <2>4. ScoreChoice(q, q.correct) = Round4(Clamp(r[n + 1].points, q.points))
      <3>1. n >= 2 /\ (ValidRubric(q, n) \/ q.rubric = <<>>)
        BY <1>5, <2>1
      <3>2. ScoreChoice(q, q.correct)
              = Round4(Clamp(r[Cardinality(q.correct \cap q.correct) + 1].points, q.points))
        BY <1>5, <2>1, <3>1, MultiPaysTheTier
      <3>3. QED
        BY <2>3, <3>2
    <2>5. q.points \in Nat /\ q.points % 2 = 0
      BY PointsAreEven DEF Questions
    <2>6. Round4(Clamp(q.points, q.points)) = q.points
      BY <2>5, RoundReachesTheTotal
    <2>7. QED
      BY <1>1, <2>2, <2>4, <2>6
  <1>6. QED
    BY <1>2, <1>3, <1>4, <1>5 DEF Questions

\* What the invariant says of the rubric of any choice question, in a draft or out.
LEMMA RubricFits ==
    ASSUME Checked, question.type = "choice"
    PROVE  ValidRubric(question, Correct(question)) \/ question.rubric = <<>>
  <1>1. CASE question \in Legacy
    BY <1>1, Zenon DEF Legacy
  <1>2. CASE question \notin Legacy
    BY <1>2 DEF Checked, SavableDraft
  <1>3. QED
    BY <1>1, <1>2

\* A question nobody wrote since a publish looked at it has a key.
LEMMA SeenIsKeyed ==
    ASSUME Checked, unseen => Keyed(question)
    PROVE  Keyed(question)
  <1>1. ASSUME NEW q, Ready(q) PROVE Keyed(q)
    BY <1>1, Zenon DEF Ready, Keyed
  <1>2. ASSUME NEW q \in Legacy PROVE Keyed(q)
    <2>1. q.type = "choice" /\ q.correct # {}
      BY Zenon DEF Legacy
    <2>2. QED
      BY <2>1 DEF Keyed
  <1>3. QED
    BY <1>1, <1>2 DEF Checked

\* A question on a published paper can be answered, and marked, for all of its points if
\* it is as the publish saw it, or has a key all the same: the rubric check of the last
\* save is enough, and it does not matter that it came before the publish and its write
\* after (choice-rubric.ts:86-89).
THEOREM FullMarksAreReachable == ASSUME ScoringAssumption PROVE Spec => []FullMarksCanBeHad
  <1>1. ASSUME TypeOK, Checked
        PROVE  FullMarksCanBeHad
    <2> SUFFICES ASSUME unseen => Keyed(question)
                 PROVE  \E a \in Answers(question), m \in {NoMark, question.points} :
                           Awarded(question, a, m) = question.points
      BY DEF FullMarksCanBeHad
    <2> DEFINE q == question
    <2>0. q \in Questions /\ Keyed(q)
      BY <1>1, SeenIsKeyed DEF TypeOK
    <2>1. CASE q.type = "choice"
      <3>1. PICK s \in SUBSET Options : ScoreChoice(q, s) = q.points
        BY <1>1, <2>0, <2>1, RubricFits, ChoicePaysInFull DEF Keyed
      <3>2. <<s>> \in Answers(q) /\ <<s>> # NoAnswer /\ <<s>>[1] = s
        BY <2>1 DEF Answers, NoAnswer
      <3>3. ~ByHand(q)
        BY <2>1 DEF ByHand
      <3>4. Awarded(q, <<s>>, NoMark) = q.points
        BY <2>1, <3>1, <3>2, <3>3 DEF Awarded
      <3>5. QED
        BY <3>2, <3>4
    <2>2. CASE q.type = "short" /\ ~q.manual
      <3>1. PICK t : t \in q.accepted \ Blank
        BY <2>0, <2>2 DEF Keyed
      <3>2. t \in Texts /\ ScoreShort(q, t) = q.points
        BY <2>0, <3>1 DEF ScoreShort, Questions
      <3>3. <<t>> \in Answers(q) /\ <<t>> # NoAnswer /\ <<t>>[1] = t
        BY <2>2, <3>2 DEF Answers, NoAnswer
      <3>4. Awarded(q, <<t>>, NoMark) = q.points
        BY <2>2, <3>2, <3>3 DEF Awarded, ByHand
      <3>5. QED
        BY <3>3, <3>4
    <2>3. CASE ByHand(q)
      <3>1. q.points \in Nat /\ q.points > 0 /\ q.points % 2 = 0
        BY <2>0, PointsAreEven DEF Questions
      <3>2. q.points # NoMark /\ Round4(Clamp(q.points, q.points)) = q.points
        BY <3>1, RoundReachesTheTotal DEF NoMark
      <3>3. \A a : Awarded(q, a, q.points) = q.points
        BY <2>3, <3>2 DEF Awarded
      <3>4. \E a : a \in Answers(q)
        <4>1. q.type # "choice"
          BY <2>3 DEF ByHand
        <4>2. Answers(q) = {<<t>> : t \in Texts}
          BY <4>1 DEF Answers
        <4>3. PICK t : t \in Texts
          BY DEF ScoringAssumption
        <4>4. <<t>> \in Answers(q)
          BY <4>2, <4>3
        <4>5. QED
          BY <4>4
      <3>5. QED
        BY <3>3, <3>4
    <2>4. QED
      BY <2>0, <2>1, <2>2, <2>3 DEF ByHand, Questions
  <1>2. QED
    BY <1>1, TypeInvariant, CheckedInvariant, PTL

\* On a published multi-answer question an answer with more of the key never gets less
\* (choice-rubric.ts:78-83); a question without a key pays nothing either way.
THEOREM MoreRightPaysNoLess == ASSUME ScoringAssumption PROVE Spec => []MoreRightIsNeverWorse
  <1>1. ASSUME TypeOK, Checked
        PROVE  MoreRightIsNeverWorse
    <2> DEFINE q == question
    <2> SUFFICES ASSUME stage # "draft", answer # NoAnswer, q.type = "choice",
                        q.selection = "multi", NEW more \in Answers(q),
                        answer[1] \cap q.correct \subseteq more[1] \cap q.correct
                 PROVE  Awarded(q, answer, mark) <= Awarded(q, more, mark)
      BY DEF MoreRightIsNeverWorse
    <2> DEFINE n == Correct(q)
               h(s) == Cardinality(s \cap q.correct)
               low == answer[1]
               high == more[1]
    <2>1. q \in Questions /\ q.points \in Nat
      BY <1>1, PointsAreEven DEF TypeOK, Questions
    <2>2. ValidRubric(q, n) \/ q.rubric = <<>>
      BY <1>1, RubricFits
    <2>3. more # NoAnswer
      BY DEF Answers, NoAnswer
    <2>4. /\ Awarded(q, answer, mark) = ScoreChoice(q, low)
          /\ Awarded(q, more, mark) = ScoreChoice(q, high)
      BY <2>3 DEF Awarded, ByHand
    <2>5. n \in Nat /\ h(low) \in Nat /\ h(high) \in Nat /\ h(low) <= h(high)
      <3>1. IsFiniteSet(high \cap q.correct)
        BY <2>1, CorrectIsFinite
      <3>2. h(low) <= h(high)
        BY <3>1, FS_Subset
      <3>3. QED
        BY <2>1, <3>2, CorrectIsFinite
    <2>0. CASE q.correct = {}
      <3>1. ScoreChoice(q, low) = 0 /\ ScoreChoice(q, high) = 0
        BY <2>0 DEF ScoreChoice
      <3>2. QED
        BY <2>4, <3>1
    <2>6. CASE q.correct # {} /\ n < 2
      <3>1. /\ ScoreChoice(q, low) = IF h(low) > 0 THEN q.points ELSE 0
            /\ ScoreChoice(q, high) = IF h(high) > 0 THEN q.points ELSE 0
        BY <2>1, <2>6, MultiOfOne
      <3> HIDE DEF h, low, high
      <3>2. QED
        BY <2>1, <2>4, <2>5, <3>1
    <2>7. CASE q.correct # {} /\ n >= 2
      <3>1. PICK k \in Nat : k = n
        BY <2>5
      <3> DEFINE r == ResolveChoiceRubric(q, k)
      <3>2. Straight(r, k) /\ Rising(r, k)
        BY <2>1, <2>2, <2>7, <3>1, ResolvedIsStraight
      <3>3. /\ h(low) \in 0 .. k /\ h(high) \in 0 .. k
            /\ ScoreChoice(q, low) = Round4(Clamp(r[h(low) + 1].points, q.points))
            /\ ScoreChoice(q, high) = Round4(Clamp(r[h(high) + 1].points, q.points))
        BY <2>1, <2>2, <2>7, <3>1, MultiPaysTheTier
      <3> HIDE DEF h, low, high, r, n
      <3>4. h(low) + 1 \in 1 .. k + 1 /\ h(high) + 1 \in 1 .. k + 1 /\ h(low) + 1 <= h(high) + 1
        BY <2>5, <3>3
      <3>5. /\ r[h(low) + 1].points \in Int /\ r[h(high) + 1].points \in Int
            /\ r[h(low) + 1].points <= r[h(high) + 1].points
        BY <3>2, <3>4 DEF Straight, Rising, Tier
      <3>6. QED
        BY <2>1, <2>4, <3>3, <3>5, RoundIsMonotone
    <2>8. QED
      BY <2>0, <2>5, <2>6, <2>7
  <1>2. QED
    BY <1>1, TypeInvariant, CheckedInvariant, PTL
=============================================================================
