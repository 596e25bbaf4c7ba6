\* Nothing fails or overlaps: is a culled agent's balance ever lost?
SPECIFICATION Spec
CONSTANTS
  Names = {"n1", "n2", "n3"}
  StartCash = 8
  PodCount = 2
  MinCapital = 4
  MaxCapital = 8
  Floor = 1
  Amounts = {4}
  Prices = {1}
  MaxInjections = 0
  MaxTrades = 2
  MaxMoves = 1
  MaxCrashes = 0
  Environments <- CalmOnly
INVARIANTS
  CullReturnsBalance
CHECK_DEADLOCK FALSE
