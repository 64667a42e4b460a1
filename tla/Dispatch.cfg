CONSTANTS
  Workers = {1, 2, 3}
  MaxDependencies = 2
SPECIFICATION FairSpec
INVARIANTS TypeOK DependenciesFirst NoNeedlessWait VerdictIsRight
PROPERTY PlanningEnds
CHECK_DEADLOCK FALSE
