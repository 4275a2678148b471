SPECIFICATION Spec
CONSTANTS
  Deals = {d1}
  Requests = {r1, r2}
  NumMilestones = 2
  MaxPings = 2
  Mortal = {}
INVARIANT PingedAtMostOnce
