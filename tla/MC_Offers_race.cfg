SPECIFICATION FairSpec
CONSTANTS
  Offers = {o1}
  Requests = {r1, r2}
  Terms <- AllTerms
  Counters = {0, 3, 5}
  Mortal = {r2}
INVARIANTS
  AmountAuthorized
  ContractAuthorized
  QueuedHasMetric
  EscalatedWhenQuiescent
PROPERTIES
  LifecycleSpec
  SignatureAnswered
