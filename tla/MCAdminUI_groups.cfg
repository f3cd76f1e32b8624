SPECIFICATION Spec
CONSTANTS
  new = new
  office = office
  g1 = g1
  g2 = g2
  s1 = s1
  s2 = s2
  r1 = r1
  r2 = r2
  lan = lan
  host = host
  news = news
  w1 = w1
  w2 = w2
  Nobody = Nobody
  NewAcl = new
  AclId <- OneAcl
  GroupId <- OneGroup
  SourceId <- TwoSources
  RuleId <- OneRule
  Address <- MCAddress
  Match <- MCMatch
  Action <- MCAction
  Seed <- NoRuleSeed
  Worker <- TwoWorkers
  MaxIdle = 1
  Handlers <- GroupHandlers
SYMMETRY WorkerSymmetry
PROPERTIES Atomic OkMeansDone DanglingFromBare RefusalExplained
