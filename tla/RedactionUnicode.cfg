SPECIFICATION Spec
CONSTANTS
  N = 4
  LabelLens = {1}
  MaxReports = 2
  Pipelines <- Accented
CHECK_DEADLOCK FALSE
INVARIANTS
  FoundIsReplaced
