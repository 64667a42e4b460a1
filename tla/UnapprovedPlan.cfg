CONSTANTS
  h1 = h1
  h2 = h2
  w1 = w1
  w2 = w2
  p1 = p1
  p2 = p2
  None = None
  Workers = {w1, w2}
  Plans = {p1, p2}
  MaxGates = 4
  Handlers = {h1, h2}
  HumanDecisions = {"APPROVE", "MODIFY", "REJECT", "CLARIFY"}
  MaxRevisions = 1
  Risky = {w2}
  PlanWorkers <- MCPlanWorkers
  MaxCrashes = 0
SPECIFICATION Spec
INVARIANT ExecutedPlanApproved
CHECK_DEADLOCK FALSE
