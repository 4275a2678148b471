SPECIFICATION Spec
CONSTANTS
  Homes = {h1, h2}
  Brokers = {b1}
  Appts = {a1, a2}
  Requests = {r1, r2}
  StartTimes = {4}
  SlotLength = 2
  DayLength = 8
  DayOpen = 1
  DayClose = 7
  HorizonDays = 1
  MaxSlots = 2
  NoBroker = none
  Buttons = {"confirm", "decline"}
  Mortal = {r1, r2}
  MaxLost = 1
SYMMETRY Symmetric
INVARIANTS
  ExclusiveUnlessOvertaken
  StatusAudited
  OfferedSlotsBookable
