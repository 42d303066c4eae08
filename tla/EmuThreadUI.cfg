SPECIFICATION Spec
CONSTANTS
  Instances = {i1, i2}
  UI = UI
  None = None
  MaxCalls = 4
  Ops = {"GL", "Exit"}
INVARIANTS
  ResultIsOwn
  PauseHolds
  GLExclusive
  PausedIsOnStack
PROPERTIES
  CallsReturn
CHECK_DEADLOCK FALSE
