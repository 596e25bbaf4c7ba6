\* One controller, one agent, every fault.
SPECIFICATION Spec
CONSTANTS
  a1 = a1
  a2 = a2
  s1 = s1
  s2 = s2
  Agents = {a1}
  Symbols = {s1, s2}
  Orders <- SoloOrders
  NoOrder = NoOrder
  Pods = {"pod"}
  Slots = {1, 2}
  StartCash = 4
  StartQty <- SoloStartQty
  StartHeld <- MCStartHeld
  Divisor = 2
  Faults = {"crash", "submit_error", "lost_reply", "instant_fill", "cancel", "partial_cancel", "part_reply", "late_reply", "read_error", "db_error"}
INVARIANTS
  IInv
  BookedIsReal
  WrittenAhead
PROPERTIES
  ImplementsFillBook
CHECK_DEADLOCK FALSE
