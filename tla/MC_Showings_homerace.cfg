SPECIFICATION Spec
CONSTANTS
  Homes = {h1}
  Brokers = {b1}
  Appts = {a1, a2}
  Requests = {r1, r2}
  StartTimes = {3}
  SlotLength = 2
  DayLength = 12
  DayOpen = 3
  DayClose = 9
  HorizonDays = 2
  MaxSlots = 4
  NoBroker = none
  Buttons = {"confirm", "decline", "complete"}
  Mortal = {}
  MaxLost = 0
INVARIANT HomeExclusive
