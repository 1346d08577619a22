SPECIFICATION Spec
CONSTANTS
  Modes = {"compress", "uncompress"}
  record_size = 3
  PipeSize = 3
  Sizes = {0, 2, 3, 5, 7}
  MaxOutput = 5
  Faults = {"open", "exec", "signal", "exit", "read", "write", "early"}
INVARIANTS Reported EndsWell
PROPERTY AllEnd

CHECK_DEADLOCK FALSE
