\* The command poll, the screening, or the replay.
SPECIFICATION MCSpec
CONSTANTS
  MaxUpdates = 3
  MaxFaults = 2
  Agents = {"a1", "a2"}
  Stocks = {"x", "y"}
  Coins = {"c"}
  Findings <- MCFindings
  Lookback = 2
  MinAppearances = 2
  TopN = 2
  Scenes <- MCScenes
  Lot = 1
  MaxPositionPct = 90
  MaxDailyLossPct = 10
  DayTradeLimit = 3
  DayTradeBalance = 0
  RiskOn = 70
  RiskOff = 40
  NeutralPct = 50
  Universe = {"BTC", "ETH"}
  Anchor = "BTC"
  Bars <- MCBars
  Histories <- MCHistories
  MinBars = 2
  LongAvg = 3
  LongLag = 1
  ShortAvg = 2
  ShortLag = 1
  MomentumLag = 2
  TrendWindow = 3
  StopPct = 25
  InitialCash = 100
  MaxDays = 4
INVARIANTS
  SavedWasHandled
  OncePerRun
  NoBlip
  CacheOfLastScreen
  NeverLater
  LogTellsTheMoney
  DrawdownIsWorst
  ScoreFollowsPrice
PROPERTIES
  CommandsAnswered
CHECK_DEADLOCK FALSE
