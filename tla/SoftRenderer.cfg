SPECIFICATION Spec
CONSTANTS
  Lines = 2
  RenderLine = 3
  LastLine = 4
  MaxLine = 2
  MaxVersion = 2
  MaxCalls = 2
  Ops = {"SetVCount", "SetEnabled", "Reset", "DoSavestate", "SetThreaded", "SetRenderer3D", "Wakeup"}
INVARIANTS
  LinesAreCurrent
  IdenticalIsDrawn
  ThreadMatchesFlag
PROPERTIES
  RenderStateProtected
  FramesComplete
  StopReturns
CHECK_DEADLOCK FALSE
