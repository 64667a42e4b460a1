CONSTANTS
  None = None
  Calls = {c1}
SPECIFICATION Spec
INVARIANT LeaseIsListed
CHECK_DEADLOCK FALSE
