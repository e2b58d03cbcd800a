CONSTANTS
  Terms <- QueryTerms
  Queries <- MergeQueries
  DocIds = {0, 1}
  Sections = {2, 3}
  Masks <- QueryMasks
  MaxHits = 3
  MaxTerms = 2
SPECIFICATION Spec
INVARIANT TypeOK
INVARIANT IteratorMatchesQuery
