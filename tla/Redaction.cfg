SPECIFICATION Spec
CONSTANTS
  N = 5
  LabelLens = {1, 3}
  MaxReports = 2
  Pipelines <- MCPipelines
CHECK_DEADLOCK FALSE
INVARIANTS
  Positions
  RoundTrip
  AllFoundHidden
PROPERTIES
  MaskedStays
