CONSTANTS
  Shapes = {"single", "subtest"}
  MaxCases = 2
  MaxLines = 2
SPECIFICATION Spec
INVARIANT ReadsBackCases
CHECK_DEADLOCK FALSE
