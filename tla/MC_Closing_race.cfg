SPECIFICATION FairSpec
CONSTANTS
  Deals = {d1}
  Requests = {r1, r2}
  NumMilestones = 4
  MaxPings = 1
  Mortal = {r2}
INVARIANTS
  CanonicalOrder
  SimulatedWasPinged
  AuditMatchesRow
  QuiescentAudited
PROPERTIES
  TrackerSpec
  NeverDeadEnds
