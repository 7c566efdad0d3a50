SPECIFICATION Spec
CONSTANTS
  Capacity = 2
  Texts <- MCTexts
  MaxId = 4
INVARIANTS
  InSubmissionOrder
  FirstAnswerStands
PROPERTY ReleasesInOrder
