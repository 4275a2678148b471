SPECIFICATION Spec
CONSTANTS
  Writers = {w1, w2}
  Payloads <- SomeEvents
  Nil = nil
  MaxId = 3
  CanEdit = TRUE
SYMMETRY WriterSymmetry
INVARIANTS
  PrevIsEarlier
  IntactUnlessRaced
  EditDetected
CHECK_DEADLOCK FALSE
