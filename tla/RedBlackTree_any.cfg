\* Five nodes with any values from 1 to 5, searched for a value below, among and
\* above them.
SPECIFICATION FairSpec
CONSTANTS
  element = 5
  Arrays <- AnyOrder
  Keys = {0, 2, 5, 6}
CHECK_DEADLOCK FALSE
INVARIANTS
  SearchTree
  SearchCorrect
  PrintsAscending
PROPERTIES
  Terminates
