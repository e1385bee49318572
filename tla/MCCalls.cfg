\* Three descriptors for four calls: the sequence wraps.
CONSTANTS
  SeqMax = 4
  MaxCalls = 1
  QueueCap = 2
  MaxIssued = 4
  LargeReplies = FALSE
SPECIFICATION FairSpec
INVARIANTS TypeOK AtMostOnce NoReplyLost DescriptorKept
PROPERTIES RightCall GetrplyReturns
