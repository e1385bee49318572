\* One transaction over three groups.
CONSTANTS
  g0 = 1
  Groups = {1, 2, 3}
  TableSize = 1
  Scenarios <- Everything
SPECIFICATION FairSpec
PROPERTY CommitReturns
\* The transaction table fills up, and an exception ends the process.
CHECK_DEADLOCK FALSE
