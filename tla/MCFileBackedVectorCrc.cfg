CONSTANTS
  Values = {0, 1}
  MaxElements = 6
  GrowElements = 3
  PartialCrcLimitDiv = 3
  MaxCrcLength = 6
SPECIFICATION OpenSpec
INVARIANT TypeOK
INVARIANT IncrementalCrcSound
CONSTRAINT CrcBound
