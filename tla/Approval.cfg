\* Two processes, two gates and two verdicts; both repositories.
CONSTANTS
  Engines = {e1, e2}
  Gates = {g1, g2}
  Verdicts = {approve, reject}
  None = None
SPECIFICATION Spec
INVARIANTS Restorable AnswersAreKept MemoryIsBacked
PROPERTIES KeepsLedger
