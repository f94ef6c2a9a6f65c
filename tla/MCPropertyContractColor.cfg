SPECIFICATION Spec
CONSTANTS
  MaxInt = 511
  Versions = {3, 4, 5}
  Properties <- ColorProperties
  Payloads <- ColorPayloads
  None = None
INVARIANT
  InvalidCommandsAreIgnored
