SPECIFICATION FairSpec
CONSTANTS
  ProblemSpaces <- MCProblems
  SolutionSpaces <- MCSolutions
  SrcTypes <- MCSrcTypes
  Verdicts = {"SUCCESS", "FAIL"}
  ToolsMayFail = TRUE
  Times = {1, 2}
  RepeatTime = 2
  NoComb = NoComb
  NoFile = NoFile
  Unset = Unset
  Old = Old
INVARIANTS TypeOK TimesOfLoaded BestIsLeast RecordIsFastest EachCombOnce VerifiesThisProblem
  HeldAccounted
PROPERTIES RunEnds
CHECK_DEADLOCK FALSE
