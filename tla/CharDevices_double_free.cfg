SPECIFICATION Spec
CONSTANTS
  MmapProc = {m1}
  IoctlProc = {}
CHECK_DEADLOCK FALSE
INVARIANT BufferFreedOnce
