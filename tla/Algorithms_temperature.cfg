SPECIFICATION Spec
CONSTANTS
  TimeModulus = 8
  NumberMax = 2
  MaxLength = 5
  Bytes <- MCBytes
  Raws <- MCRaws
INVARIANT TemperatureIsMeasured
CHECK_DEADLOCK FALSE
