\* Coins, stocks and fractional stocks, with and without the trailing stop.
SPECIFICATION FairSpec
CONSTANTS
  Lot = 2
  MaxPositionPct = 50
  MaxDailyLossPct = 10
  DayTradeLimit = 2
  DayTradeBalance = 1000
  RiskOn = 70
  RiskOff = 40
  NeutralPct = 50
  Prices = {6, 7, 10}
  Quantities = {3}
  Stops = {0, 10, 30}
  Scores = {30, 50, 80}
  StartCash = 48
  StopPct = 30
  CryptoStopPct = 40
  TakePct = 20
  CryptoTakePct = 30
  LockTrigger = 4
  LockPct = 20
  MaxOrders = 2
  MaxDrifts = 1
INVARIANTS
  StopTypeOK
  Solvent
PROPERTIES
  StopNeverFalls
  ExitsOffThePeak
  StopIsTaken
  LockOutlivesPrices
CHECK_DEADLOCK FALSE
