SPECIFICATION FairSpec
CONSTANTS
  N = 2
  L = 2
  LoopCnt = 1
  Bits = 4
  Depth = 2
  CountMod = 4
  FoundCounts = {0}
  FoundWords <- MCClear
  Races = {"zero"}
PROPERTIES FetchEnds
CHECK_DEADLOCK FALSE
