SPECIFICATION GlobalSpec
CHECK_DEADLOCK FALSE
INVARIANT WaitQueueAlive
