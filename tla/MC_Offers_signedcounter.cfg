SPECIFICATION Spec
CONSTANTS
  Offers = {o1}
  Requests = {r1}
  Terms <- OneSeller
  Counters = {5}
  Mortal = {}
PROPERTY AcceptedAwaitsBroker
