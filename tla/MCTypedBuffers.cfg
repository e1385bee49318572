SPECIFICATION Spec
CONSTANTS
  Addrs = {1, 2, 3}
  Null = Null
  TpMem = 2
  TypeOff = 1
  min_size = 1
  default_size <- Defaults
  ReqSize = 5
  Sizes = {3, 8}
  Lens = {2, 7}
  MaxUsed = 9
  Shrinks = FALSE
  VoidAfterData = FALSE
INVARIANTS SlotFollows WithinBlock NothingLost
PROPERTY PutReturns
