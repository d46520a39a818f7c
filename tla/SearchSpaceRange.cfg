SPECIFICATION Spec
CONSTANTS
  Unset = Unset
  ParamSpecs <- RangeSpecs
  MaxParams = 1
  Garbage <- OnlyFalse
PROPERTIES NewCombination
