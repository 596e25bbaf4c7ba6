\* Nothing overlaps or fails, or jobs overlap, or the controller crashes and calls fail.
SPECIFICATION Spec
CONSTANTS
  Names = {"n1", "n2", "n3"}
  StartCash = 8
  PodCount = 2
  MinCapital = 4
  MaxCapital = 8
  Floor = 1
  Amounts = {2, 4}
  Prices = {1, 6}
  MaxInjections = 1
  MaxTrades = 2
  MaxMoves = 2
  MaxCrashes = 1
  Environments <- CalmOrFaults
INVARIANTS
  CapitalTypeOK
  CalmBalanced
  PodsMatchRows
PROPERTIES
  SeededOnce
CHECK_DEADLOCK FALSE
