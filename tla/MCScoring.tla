------------------------------ MODULE MCScoring ------------------------------
(* Three options, a few texts, and rubrics that rise, fall, need rounding, give *)
(* marks for nothing, miss the total, skip a tier or are too short for the key. *)
EXTENDS Scoring, TLC

CONSTANTS yes, YES, no, empty

SomeTexts == {yes, YES, no, empty}
SomeBlank == {empty}
LowerCase == [t \in SomeTexts |-> IF t = YES THEN yes ELSE t]

Straight(points) == [k \in 1 .. Len(points) |->
                        [correctCount |-> k - 1, points |-> points[k]]]
SomeRubrics ==
    {<<>>} \cup
    {Straight(p) : p \in {<<0, 6667, Unit>>, <<0, 6667, 2 * Unit>>, <<6667, 6667, Unit>>,
                          <<0, Unit, 6667>>,
                          <<0, 1, 6667, 2 * Unit>>, <<0, Unit, 6667, 2 * Unit>>}} \cup
    {[Straight(<<0, 6667, Unit>>) EXCEPT ![1].correctCount = 1]}
SomeMarks == {0, 6667, 2 * Unit}

SameOptions == Permutations(Options)
=============================================================================
