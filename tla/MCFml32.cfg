SPECIFICATION Spec
CONSTANTS
  b1 = b1
  b2 = b2
  NoBuf = NoBuf
  Bufs = {b1, b2}
  Fields = {1, 2, 3}
  FldType <- Types
  Values = {0, 1}
  Sizes = {0, 1, 2, 4}
  min_size = 1
  MaxOcc = 2
  Erasable = {2, 3}
  MaxExcess = 1
  Misread <- Cut
  Unreadable <- Stuck
INVARIANTS IndexSound LookupAgrees StoreAgrees CombineAgrees
PROPERTY Refines
