SPECIFICATION FairSpec
CONSTANTS
  NaN = NaN
  MinusZero = MinusZero
  ReducSize = 4
  TileGroup = 2
  Lanes = {0, 1}
  Input <- MCInput
  FoundInC <- MCFound
  MaxLaunches = 2
INVARIANTS TypeOK EveryGroupAdds LossIsEarlyShares
PROPERTIES AddsAtomically LaunchesEnd
CHECK_DEADLOCK FALSE
