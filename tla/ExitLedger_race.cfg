\* The owner leaves the account alone: does a stop that stays hit always sell?
SPECIFICATION XFairSpec
CONSTANTS
  a1 = a1
  a2 = a2
  s1 = s1
  s2 = s2
  Agents = {a1}
  Symbols = {s1}
  Orders <- RaceOrders
  NoOrder = NoOrder
  Pods = {"pod"}
  Slots = {1}
  StartCash = 4
  StartQty <- SoloStartQty
  StartHeld <- SoloStartHeld
  Divisor = 2
  Faults = {}
  MaxCredited = 4
  Events = {"price_falls"}
PROPERTIES
  StopFires
CHECK_DEADLOCK FALSE
