SPECIFICATION Spec
CONSTANTS
  Names <- MCNames
  PublicSuffix <- MCPublicSuffix
  V4 <- MCV4
  V6 <- MCV6
  Nets <- MCNets
  Ports <- MCPorts
  Paths <- MCPaths
  Regexes <- MCRegexes
  MaxRules = 1
INVARIANT RegisteredDomain
CHECK_DEADLOCK FALSE
