SPECIFICATION PagesSpec
CONSTANTS
  new = new
  office = office
  g1 = g1
  r1 = r1
  r2 = r2
  news = news
  allow = allow
  ignore = ignore
  i1 = i1
  i2 = i2
  NewAcl = new
  AclId <- MCAclId
  GroupId <- MCGroupId
  SourceId <- NoSourceId
  RuleId <- MCRuleId
  Address <- NoAddress
  Match <- MCMatch
  Action <- MCAction
  Seed <- EmptyDB
  FkModes <- Bare
  Slot <- MCSlot
SYMMETRY Symmetry
CONSTRAINT Apart
INVARIANTS TypeOK OneAclPerRule PageTypeOK
PROPERTIES  ActsOnOwnRules
