\* Nothing fails or overlaps: does an agent that crosses the ceiling get a sibling?
SPECIFICATION FairSpec
CONSTANTS
  Names = {"n1", "n2", "n3"}
  StartCash = 8
  PodCount = 2
  MinCapital = 4
  MaxCapital = 8
  Floor = 1
  Amounts = {4}
  Prices = {8}
  MaxInjections = 0
  MaxTrades = 2
  MaxMoves = 1
  MaxCrashes = 0
  Environments <- CalmOnly
PROPERTIES
  CeilingSpawnsSibling
CHECK_DEADLOCK FALSE
