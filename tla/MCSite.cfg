SPECIFICATION SiteSpec
CONSTANTS
  s = s
  a = a
  b = b
  x = x
  Slash = s
  Index = x
  Chars <- MCBytes
  Patterns <- MCPatterns
  Paths <- MCPaths
  Sites <- MCSites
  Trees <- MCTrees
  Fresh = 9
  MaxChanges = 2
  MaxRoutes = 3
INVARIANTS
  SiteTypeOK
  SearchExact
  EntriesJudged
  AnswerExplained
