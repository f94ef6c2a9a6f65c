SPECIFICATION Spec
CONSTANTS
  Configs = {c1, c2}
  Absent = Absent
  Invalid = Invalid
  Portal = Portal
  TwoTasks = TRUE
SYMMETRY ConfigSymmetry
INVARIANT
  FactoryResetForgets
