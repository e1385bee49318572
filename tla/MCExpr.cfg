SPECIFICATION Spec
CONSTANTS
  Alphabets <- Words
  Leaf <- Operands
  Buffers <- Records
  Texts <- Strings
  Atol <- Numeric
  Matching <- Prefixes
INVARIANTS TreeAgrees PrintParses ValueAgrees
CHECK_DEADLOCK FALSE
