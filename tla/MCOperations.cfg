SPECIFICATION MCSpec
CONSTANTS
  KWorkers = {1, 2}
  Cases = {case}
  Manuals = {}
  Versions = {v1, v2}
  V1 = v1
  Causes = {x, y}
  NoCause = none
  Texts = {text1}
  CaseText = text1
  Sizes = {420}
  Size420 = 420
  Backend = "vector"
  Records = {r}
  MaxKCalls = 4
  MaxKDeaths = 1
  MWorkers = {1, 2}
  Models = {m1, m2}
  NoModel = none
  Slots = {s}
  HistoryKept = 2
  MaxMCalls = 5
  MaxMDeaths = 1
  CoWorkers = {1, 2}
  Items = {i}
  People = {p, q}
  Nobody = nobody
  Channels = {"in_app", "email"}
  Policies = {policy1}
  Handovers = {h}
  Orders = {o}
  MaxNow = 2
  MaxCoCalls = 3
  MaxCoDeaths = 1
  EWorkers = {1, 2}
  Tenants = {t1, t2}
  DefaultTenant = t1
  Orgs = {o1}
  Sites = {"s1", "s2"}
  Nowhere = nowhere
  Assets = {"a1", "a2"}
  Subjects = {u}
  Operations = {"read"}
  Scopes <- MCScopes
  AutoProvision = TRUE
  CompliancePolicies = {policy}
  LegacyRows <- MCLegacyRows
  MaxDay = 2
  MaxECalls = 3
  MaxEDeaths = 1
  OWorkers = {1, 2}
  Unlocked = 0
  Sessions = {wizard1, wizard2}
  Names = {n}
  Builtins = {builtin}
  Customs = {custom}
  Contents <- MCContents
  MaxOCalls = 5
  MaxODeaths = 1
INVARIANTS TypesOK LearnedFromConfirmed GraphOnlyApproved PromotedIsSearchable ClosedWasResolved DeployedWereApproved HistoryExplainsRoles ResponsibilityTraced EscalationWarranted AcceptedHasAck HistoryExplainsOrder FilterAgreesWithCheck DeniedIsViolation SavedIsKept ConnectedIsBound
CHECK_DEADLOCK FALSE
