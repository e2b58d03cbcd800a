CONSTANTS
  Terms <- PersistTerms
  Queries = {}
  DocIds = {0, 1}
  Sections = {2}
  Masks = {}
  MaxHits = 2
  MaxTerms = 2
  Corrupt <- PersistCorrupt

SPECIFICATION Spec

INVARIANT TypeOK
