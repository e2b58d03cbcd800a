CONSTANTS
  Terms <- ProcTerms
  Queries = {}
  DocIds = {0, 1, 2, 3}
  Sections = {0, 1}
  Masks = {}
  MaxHits = 4
  MaxTerms = 2
  Documents <- ProcDocuments
  SectionMatch <- ProcSectionMatch
  Lower <- ProcLower
  MaxTokens = 2
  MaxTokenLength = 2
  Behaviors = {"kReturnError", "kSuppressError"}

SPECIFICATION Spec

INVARIANT TypeOK
INVARIANT HitsUnique
PROPERTY IndexedTokensExact
