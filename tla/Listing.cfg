\* Four ids, pages of one to three rows, and writes between any two looks.
SPECIFICATION Spec
CONSTANTS
  None = None
  MaxId = 4
  RawLimit <- SomeLimits
  DefaultListLimit = 2
  MaxListLimit = 3
INVARIANTS TypeOK NoRowTwice NothingMissed
\* The walk ends, and the writes may have used up every id.
CHECK_DEADLOCK FALSE
