CONSTANTS
  Values = {0, 1}
  MaxElements = 4
  GrowElements = 2
  PartialCrcLimitDiv = 3
  MaxCrcLength = 4
SPECIFICATION RecoverySpec
PROPERTY RecoveredContentIsPersisted
CONSTRAINT CrcBound
