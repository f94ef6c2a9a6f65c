SPECIFICATION Spec
CONSTANTS
  Configs = {c1, c2}
  Absent = Absent
  Invalid = Invalid
  Portal = Portal
  TwoTasks = FALSE
SYMMETRY ConfigSymmetry
INVARIANT
  RecoveredIsReviewed
