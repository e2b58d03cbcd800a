CONSTANTS
  TermIds = {1, 2}
  MaxHits = 9
  OffsetBits = 2

SPECIFICATION Spec

INVARIANT TypeOK
PROPERTY AbsSpec
