\* Two complete batches of two and a spare node; no symmetry, because liveness is
\* checked.
SPECIFICATION FairSpec
CONSTANTS
  n1 = n1  n2 = n2  n3 = n3  n4 = n4  n5 = n5
  NULL = NULL
  Node <- Nodes5
  N = 2
CHECK_DEADLOCK FALSE
INVARIANTS
  TypeOK
  ListMatchesArray
  FlushPrintsBatch
  NoFaultOnceReady
  QuietAfterUnload
PROPERTIES
  InterruptServed
  UnloadTerminates
