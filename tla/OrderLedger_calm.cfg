\* One controller, no crash, no lost reply: the broker fills orders in its reply or later, may
\* report a part as a fill, cancel with a part filled, refuse and be unreadable.
SPECIFICATION FairSpec
CONSTANTS
  a1 = a1
  a2 = a2
  s1 = s1
  s2 = s2
  Agents = {a1, a2}
  Symbols = {s1, s2}
  Orders <- MCOrders
  NoOrder = NoOrder
  Pods = {"pod"}
  Slots = {1, 2}
  StartCash = 4
  StartQty <- MCStartQty
  StartHeld <- MCStartHeld
  Divisor = 2
  Faults = {"submit_error", "cancel", "read_error", "instant_fill", "partial_cancel", "part_reply"}
INVARIANTS
  TypeOK
  OneBuyInFlight
  CashMatchesBroker
  PositionsMatchBroker
PROPERTIES
  EveryFillBooked
CHECK_DEADLOCK FALSE
