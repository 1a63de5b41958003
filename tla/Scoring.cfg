CONSTANTS
  Options = {o1, o2, o3}
  Stray = stray
  yes = yes
  YES = YES
  no = no
  empty = empty
  Texts <- SomeTexts
  Blank <- SomeBlank
  Fold <- LowerCase
  MaxPoints = 2
  Rubrics <- SomeRubrics
  Marks <- SomeMarks
  MaxSaves = 2
SPECIFICATION Spec
SYMMETRY SameOptions
CHECK_DEADLOCK FALSE
INVARIANTS
  TypeOK
  AwardIsDefensible
  FullMarksCanBeHad
  MoreRightIsNeverWorse
