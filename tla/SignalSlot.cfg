SPECIFICATION FairSpec
CONSTANTS
  N = 3
  L = 3
  LoopCnt = 1
  Bits = 4
  Depth = 2
  CountMod = 4
  FoundCounts = {0, 3}
  FoundWords <- MCFound
  Races = {"permute"}
INVARIANTS TypeOK CountIsActive WordsApart EndsAfterWork FlagsAreFetched FetchedIsSentOrFound
PROPERTIES FetchEnds
CHECK_DEADLOCK FALSE
