SPECIFICATION Spec
CONSTANTS
  Configs = {c1, c2, c3}
  Absent = Absent
  Invalid = Invalid
  Portal = Portal
  TwoTasks = FALSE
SYMMETRY ConfigSymmetry
INVARIANTS
  TypeOK
  RunningIsStored
  FactoryResetLeavesNothing
PROPERTIES
  StorageIsAtomic
  FailedRecoveryFreezesFiles
  CancellableEraseKeepsConfig
  ConfigOnlyResetOpensPortal
