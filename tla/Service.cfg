CONSTANTS
  i1 = i1
  i2 = i2
  k1 = k1
  k2 = k2
  plain = plain
  forking = forking
  None = None
  Calls = {c1, c2}
  Requests <- MCRequests
  Spawning = {forking}
  KillpgMayFail = TRUE
SPECIFICATION FairSpec
INVARIANTS TypeOK RunsOnce AnswerIsRecorded ResultIsHonest OnlyPipesBlock
PROPERTIES CallsEnd KeepsRecords
CHECK_DEADLOCK FALSE
