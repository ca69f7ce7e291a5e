\* Three asynchronous requests and an unload of the driver.
CONSTANTS
  Works = {w1, w2, w3}
  AllocFails = TRUE
SPECIFICATION Spec
INVARIANTS ContInLoadedModule ContOnce
PROPERTY ContCalled
CHECK_DEADLOCK FALSE
