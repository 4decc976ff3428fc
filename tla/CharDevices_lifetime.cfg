\* Two processes running mmap.c and two running ioctl.c.
SPECIFICATION FairSpec
CONSTANTS
  MmapProc = {m1, m2}
  IoctlProc = {i1, i2}
CHECK_DEADLOCK FALSE
INVARIANTS
  MajorFollowsDriver
  
PROPERTIES
  ProcessesEnd
