\* Five threads, as in the code; the module may stay loaded or be gone for ever.
SPECIFICATION FairSpec
CONSTANT ELEMENTS = 5
CHECK_DEADLOCK FALSE
INVARIANTS
  NoThreadAfterUnload
  StopsLiveThread
  FreedAfterStop
PROPERTIES
  UnloadTerminates
