CONSTANTS
  None = None
  Calls = {c1, c2, c3}
SPECIFICATION Spec
INVARIANTS SubmittedOnce ReturnedIsEvidence SubmittedIsTraceable SuccessIsReal
PROPERTY KeepsPromise
CHECK_DEADLOCK FALSE
