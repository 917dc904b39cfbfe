SPECIFICATION Spec
CONSTANTS
  Sensors = {s1}
  RomCodes = {r1}
  Resolutions = {9, 12}
  PowerOn = 12
  CommitFails = TRUE
  Nothing = Nothing
  Erased = Erased
INVARIANT ErasedIsDeassigned
