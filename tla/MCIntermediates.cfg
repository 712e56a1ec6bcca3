SPECIFICATION QSpec
CONSTANTS
  Nothing = "none"
  Star = "*"
  Machine = "Machine"
  Energy = "energy"
  Analyst = "analyst"
  MaxHops = 4
  QWorkers = {w1, w2}
  Questions <- MCQuestions
  Contexts <- MCContexts
  SemanticModels <- MCModels
  Ontologies <- MCOntologies
  MaxCached = 1
  TTL = 0
  MaxNow = 1
  MaxQCalls = 2
  MaxQFaults = 1
INVARIANT IntermediatesRequired
SYMMETRY MCSymmetry
CHECK_DEADLOCK FALSE
