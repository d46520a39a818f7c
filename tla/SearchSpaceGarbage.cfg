SPECIFICATION Spec
CONSTANTS
  Unset = Unset
  ParamSpecs <- ExplicitSpecs
  MaxParams = 3
  Garbage <- AnyBool
INVARIANTS FinishedMeansAll
