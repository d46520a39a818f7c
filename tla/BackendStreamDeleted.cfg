SPECIFICATION Spec
CONSTANTS
  Engines = {"OCL", "HSA"}
  DeletesCode = {"OCL", "HSA"}
  Iters = {1}
  QueueSize = 2
  MaxDispatches = 1
  Garbage = Garbage
INVARIANTS CopiesResult
CHECK_DEADLOCK FALSE
