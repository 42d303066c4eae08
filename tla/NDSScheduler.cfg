SPECIFICATION Spec
CONSTANTS
  LCD = 0
  SPU = 1
  RTC = 3
  DisplayFIFO = 4
  ROMTransfer = 5
  Events = {0, 1, 3, 4, 5}
  Periodic = {0, 1, 3, 4}
  CPUEvents = {5}
  Chained <- MCChained
  Periods <- MCPeriods
  Delay <- MCDelay
  RTCClock = 7
  RTCRate = 2
  MaxIter = 2
  Margin = 1
  FrameCycles = 6
  LastLine = 1
  ClockRatio = 2
  MaxCost = 5
  MaxTime = 7
INVARIANTS
  EventsInFuture
  LatenessBound
  CPUsInStep
  RTCKeepsTime
  BackIsBounded
PROPERTIES
  TimeNeverRunsBack
