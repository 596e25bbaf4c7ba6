\* A calm controller: do two agents ever share a symbol?
SPECIFICATION Spec
CONSTANTS
  a1 = a1
  a2 = a2
  s1 = s1
  s2 = s2
  Agents = {a1, a2}
  Symbols = {s1, s2}
  Orders <- RivalOrders
  NoOrder = NoOrder
  Pods = {"pod"}
  Slots = {1, 2}
  StartCash = 4
  StartQty <- MCStartQty
  StartHeld <- MCStartHeld
  Divisor = 2
  Faults = {}
INVARIANTS
  OneAgentPerSymbol
CHECK_DEADLOCK FALSE
