SPECIFICATION Spec
CONSTANTS
  Width = 3
  MaxDevices = 3
INVARIANT NoAssertionFails
CHECK_DEADLOCK FALSE
