\* One controller, exits, a sell of the whole position and an owner who closes positions by hand.
SPECIFICATION XFairSpec
CONSTANTS
  a1 = a1
  a2 = a2
  s1 = s1
  s2 = s2
  Agents = {a1}
  Symbols = {s1}
  Orders <- LiveOrders
  NoOrder = NoOrder
  Pods = {"pod"}
  Slots = {1}
  StartCash = 4
  StartQty <- SoloStartQty
  StartHeld <- SoloStartHeld
  Divisor = 2
  Faults = {"read_error", "submit_error"}
  MaxCredited = 4
  Events = {"manual_close", "price_falls"}
INVARIANTS
  NoExitForgotten
PROPERTIES
  StopFires
  ClosedOutsideIsCleared
CHECK_DEADLOCK FALSE
