SPECIFICATION Spec
CONSTANTS
  ProblemSpaces <- MCProblems
  SolutionSpaces <- MCSolutions
  SrcTypes <- GasOnly
  Verdicts = {"SUCCESS"}
  ToolsMayFail = TRUE
  Times = {1, 2}
  RepeatTime = 1
  NoComb = NoComb
  NoFile = NoFile
  Unset = Unset
  Old = Old
INVARIANTS MeasuresCurrent
CHECK_DEADLOCK FALSE
