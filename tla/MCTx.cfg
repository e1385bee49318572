\* Up to three transactions, chained, nested and set aside.
CONSTANTS
  g0 = 1
  Groups = {1, 2}
  TableSize = 3
  Scenarios <- Several
SPECIFICATION Spec
INVARIANTS TypeOK Atomic NothingLeft StateMeaning
\* The transaction table fills up, and an exception ends the process.
CHECK_DEADLOCK FALSE
