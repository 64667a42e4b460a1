CONSTANTS
  h1 = h1
  h2 = h2
  w1 = w1
  w2 = w2
  p1 = p1
  p2 = p2
  None = None
  Workers = {w1}
  Plans = {p1, p2}
  MaxGates = 3
  Handlers = {h1, h2}
  HumanDecisions = {"APPROVE", "MODIFY", "REJECT", "CLARIFY"}
  MaxRevisions = 1
  Risky = {w1}
  PlanWorkers <- MCOneWorker
  MaxCrashes = 1
SPECIFICATION Spec
SYMMETRY MCSymmetry
INVARIANTS WorkNeedsGateA CompletedIsApproved RiskyNeedsGateC RevisionBound
PROPERTY KeepsContract
CHECK_DEADLOCK FALSE
