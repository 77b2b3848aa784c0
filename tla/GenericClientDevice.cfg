CONSTANTS
  Blocks = {a, b}
  UserNames = {0}
  NoName = NoName
  None = None
SPECIFICATION Spec
INVARIANTS IInv MonitorSurvives NoCallDuringTeardown
PROPERTIES UnrecoverableIsFinal
