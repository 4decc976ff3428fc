CONSTANTS
  PAGES = 10
  NODES = 5
  Task = {t1, t2, t3}
  InitTask = init_task
SPECIFICATION Spec
CHECK_DEADLOCK FALSE
INVARIANTS SectionUndisturbed ContextBalanced MemoryReturned
  NothingOnStack PrintsLiveNodes HandlersHaveText WalkCorrect
PROPERTIES CodeReturns
