SPECIFICATION Spec
CONSTANTS
  Instances = {h, c}
  Hosts = {h}
  None = None
  Size = 8
  Lens = {2}
  MaxFrames = 3
  Ops = {}
INVARIANTS FramesIntact
PROPERTIES FramesInOrder RepliesAreCurrent FramesArrive
CHECK_DEADLOCK FALSE
