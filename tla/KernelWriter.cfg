SPECIFICATION Spec
CONSTANTS
  MaxSgpr = 8
  MaxVgpr = 4
  Requests <- MCRequests
  LdsSizes <- MCLds
  MaxOps = 5
INVARIANTS TypeOK Disjoint Marked StaysInFile DefaultsInPlace Reproduced HeaderCovers LdsExact DryRunDecides
CHECK_DEADLOCK FALSE
