SPECIFICATION Spec
CONSTANTS
  Sensors = {s1, s2}
  RomCodes = {r1, r2}
  Resolutions = {9, 12}
  PowerOn = 12
  CommitFails = FALSE
  Nothing = Nothing
  Erased = Erased
INVARIANTS
  ConfiguredIsStored
  AnsweredIsKept
  ResolutionApplied
  ErasedIsDeassigned
