\* The five nodes of the code, on both kinds of kernel.
SPECIFICATION FairSpec
CONSTANT element = 5
CHECK_DEADLOCK FALSE
INVARIANTS
  ListWellFormed
  LockReleasedOnce
  ReadersPrint
  NoUseAfterFree
PROPERTIES
  DeletedNodeFreed
