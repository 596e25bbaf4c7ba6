\* Exits and one sell under crashes, lost replies, instant and partial fills, and an unreadable account.
SPECIFICATION XSpec
CONSTANTS
  a1 = a1
  a2 = a2
  s1 = s1
  s2 = s2
  Agents = {a1}
  Symbols = {s1}
  Orders <- SoloOrders
  NoOrder = NoOrder
  Pods = {"pod"}
  Slots = {1}
  StartCash = 4
  StartQty <- SoloStartQty
  StartHeld <- SoloStartHeld
  Divisor = 2
  Faults = {"crash", "lost_reply", "instant_fill", "cancel", "partial_cancel", "part_reply", "db_error"}
  MaxCredited = 4
  Events = {"manual_close", "positions_unreadable", "price_falls"}
INVARIANTS
  ExitTypeOK
PROPERTIES
  ExitsImplementFillBook
CHECK_DEADLOCK FALSE
