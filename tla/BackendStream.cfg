SPECIFICATION FairSpec
CONSTANTS
  Engines = {"OCL", "HSA"}
  DeletesCode = {"OCL"}
  Iters = {1, 2, 3}
  QueueSize = 2
  MaxDispatches = 3
  Garbage = Garbage
INVARIANTS TypeOK CopiesResult RunsAccounted
PROPERTIES ClientEnds DispatchIsCall
CHECK_DEADLOCK FALSE
