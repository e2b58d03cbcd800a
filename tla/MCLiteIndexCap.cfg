CONSTANTS
  Terms <- CapTerms
  Queries <- CapQueries
  DocIds = {0, 1}
  Sections = {2, 3}
  Masks <- CapMasks
  MaxHits = 3
  MaxTerms = 2

SPECIFICATION Spec

INVARIANT ChainsWellFormed
INVARIANT OkHitsVisible
PROPERTY AbsSpec
