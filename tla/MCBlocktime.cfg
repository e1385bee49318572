SPECIFICATION Spec
CONSTANTS
  Second = 3
  Interval = 2
  Default = 3
  Times <- MCTimes
  Delay = 1
  MaxCalls = 2
  QueueCap = 2
INVARIANTS ReadsBack GetrplyNotLate
PROPERTIES SendKeepsTime GetrplyNotEarly
