SPECIFICATION Spec
CONSTANTS
  LastStatus = 2
  Resolution = 2
  ReadsFail = TRUE
  MaxTime = 3
  MaxWrites = 3
INVARIANTS
  KeyAgesOrdered
  DurationWithinLifetime
PROPERTIES
  CleanRebootLosesNothing
  RestartLosesAtMostOneTransition
