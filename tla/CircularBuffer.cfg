CONSTANTS
  x = x
  y = y
  z = z
  N = 3
  Item <- MCItem
  Default = none
  Garbage = garbage
SPECIFICATION Spec
INVARIANTS TypeOK ReadsOnlyWritten ScanMissesOnlySlotZero
PROPERTY WindowSpec
