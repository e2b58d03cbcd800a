CONSTANTS
  Values = {0, 1}
  MaxElements = 3
  GrowElements = 1
  PartialCrcLimitDiv = 3
  MaxCrcLength = 3
SPECIFICATION Spec
CONSTRAINT CrcBound
PROPERTY RecoveredContentIsPersisted
