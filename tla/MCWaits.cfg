\* The module stays loaded, or is gone: the system really stops.
SPECIFICATION OneSpec
CHECK_DEADLOCK FALSE
INVARIANTS
  NoLostWakeup
  MessagesOrdered
  GlobalNoLostWakeup
  HandlerOwnsData
PROPERTIES
  AwaitSpec
  AwaitSafe
  AwaitEnds
  ThreadExits
  StartTerminates
