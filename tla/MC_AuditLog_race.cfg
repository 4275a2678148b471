SPECIFICATION Spec
CONSTANTS
  Writers = {w1, w2}
  Payloads <- TwoEvents
  Nil = nil
  MaxId = 3
  CanEdit = FALSE
INVARIANT IntactWhenUnedited
CHECK_DEADLOCK FALSE
