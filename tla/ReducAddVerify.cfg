SPECIFICATION Spec
CONSTANTS
  NaN = NaN
  MinusZero = MinusZero
  ReducSize = 4
  TileGroup = 2
  Lanes = {0, 1}
  Input <- MCInput
  FoundInC <- AllZero
  MaxLaunches = 2
INVARIANTS Verify
CHECK_DEADLOCK FALSE
