SPECIFICATION Spec
CONSTANTS
  s = s
  a = a
  b = b
  Slash = s
  Chars <- MCChars
  Patterns <- MCPatterns
  Paths <- MCPaths
  MaxRoutes = 2
INVARIANTS
  PrefixServed
