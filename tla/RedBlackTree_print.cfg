\* The array and the value searched for in the code.
SPECIFICATION Spec
CONSTANTS
  element = 14
  Arrays <- Hundreds
  Keys = {200}
CHECK_DEADLOCK FALSE
INVARIANT PrintsAll
