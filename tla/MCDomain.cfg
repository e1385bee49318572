CONSTANTS
  Rqaddr <- Shared
  c1 = c1  c2 = c2  adm = adm  none = none
  Clients = {c1}
  MaxAccessers = 1
  MaxForks = 2
  Scenarios <- Runs
SPECIFICATION FairSpec
INVARIANTS OneReceiver OneQueue Recorded OwnReplyQueue
PROPERTY CommandEnds
CHECK_DEADLOCK FALSE
