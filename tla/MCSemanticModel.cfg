CONSTANTS
  e1 = e1  e2 = e2  r1 = r1  r2 = r2  m1 = m1  m2 = m2  a1 = a1  c1 = c1  c2 = c2
  base = base  edit = edit  tmpl = tmpl  f1 = f1  f2 = f2  Absent = Absent  NoRels = NoRels
  Entities = {e1, e2}
  Rels = {r1, r2}
  Metrics = {m1, m2}
  Aliases = {a1}
  Defs = {base, edit, tmpl, c1, c2}
  MetricDefs <- MCMetricDefs
  Targets = {f1, f2}
  Base <- MCBase
  Candidates = {c1, c2}
  Cand <- MCCand
  Posted = {"pending"}
  Templates <- MCTemplates
  Imports <- MCImports
  EntityEdits <- MCEntityEdits
  RelEdits <- MCRelEdits
  MetricEdits <- MCMetricEdits
  AliasEdits <- MCAliasEdits
  VersionKeep = 2
  MaxRequests = 3
  MaxFailures = 1
  MaxCrashes = 1
SPECIFICATION SSpec
CHECK_DEADLOCK FALSE
INVARIANTS STypeOK RegistryIsMerged
PROPERTIES VersionsAreMerged AppliedInFull RolledBack DecisionsKept LockReleased
