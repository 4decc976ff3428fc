SPECIFICATION Spec
CONSTANT element = 5
CHECK_DEADLOCK FALSE
INVARIANT NoReaderPending
