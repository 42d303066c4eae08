SPECIFICATION Spec
CONSTANTS
  Instances = {i1}
  UI = UI
  None = None
  MaxCalls = 3
  Ops = {"Hotkeys", "PowerOff", "Focus", "FrameStep"}
PROPERTIES
  CallsReturn
