SPECIFICATION Spec
CONSTANTS
  Width = 4
  TopWidth = 1
  MarkerWidth = 1
  new = new
  office = office
  g1 = g1
  g2 = g2
  s1 = s1
  s2 = s2
  r1 = r1
  r2 = r2
  r3 = r3
  lan = lan
  host = host
  news = news
  broken = broken
  h1 = h1
  desk = desk
  guest = guest
  page = page
  odd = odd
  mgr = mgr
  Nothing = Nothing
  NewAcl = new
  AclId <- MCAclId
  GroupId <- MCGroupId
  SourceId <- MCSourceId
  RuleId <- MCRuleId
  Address <- MCAddress
  Match <- MCMatch
  Action <- MCAction
  Seed <- MCSeed
  FkModes <- MCFkModes
  MaxVersions = 3
  HelperId <- MCHelperId
  Client <- MCClient
  Target <- MCTarget
  Malformed <- MCMalformed
  CacheObject <- MCCacheObject
  Parses <- MCAddress
  Covers <- MCCovers
  Prefix <- MCPrefix
  Hits <- MCHits
  Compiles <- MCCompiles
PROPERTY NeverPanics
