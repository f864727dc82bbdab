SPECIFICATION Spec
CONSTANTS
  Client = {c1, c2}
  MaxLines = 2
SYMMETRY ClientSymmetry
CHECK_DEADLOCK FALSE
INVARIANTS WaitsInVainOnlyAfterLoss AnswersOwnLine
