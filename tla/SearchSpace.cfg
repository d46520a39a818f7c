SPECIFICATION FairSpec
CONSTANTS
  Unset = Unset
  ParamSpecs <- MCSpecs
  MaxParams = 3
  Garbage <- OnlyFalse
INVARIANTS TypeOK WalkInv ValueFollowsIndex BestWasVisited
PROPERTIES EnumeratesSpace SearchEnds
