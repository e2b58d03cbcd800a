CONSTANTS
  Terms <- QueryTerms
  Queries <- QueryQueries
  DocIds = {0, 1}
  Sections = {2, 3}
  Masks <- QueryMasks
  MaxHits = 2
  MaxTerms = 2


SPECIFICATION Spec

INVARIANT ExactQueryExcludesPrefixHits
