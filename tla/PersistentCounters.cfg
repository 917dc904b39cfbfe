SPECIFICATION Spec
CONSTANTS
  Resolution = 2
  SaveInterval = 3
  ErasesFail = FALSE
  MaxTime = 7
INVARIANTS
  LifetimeNeverAhead
  LifetimeLossBounded
  UptimeSinceServedCut
