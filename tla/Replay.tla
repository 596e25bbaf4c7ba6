------------------------------- MODULE Replay -------------------------------
(***************************************************************************)
(* The backtester: engine.Backtest.run replays days of history through the *)
(* regime score, the momentum ranking, the sizing of risk.py and a trailing*)
(* stop of its own on daily bars; report.summarize adds up the result.     *)
(*                                                                         *)
(* Beside the replay's position runs the one a live agent would have: it   *)
(* sees the prices of the day in their order, high first or low first, and *)
(* its stop trails them as app.compute_stop has it (profit lock aside).    *)
(*                                                                         *)
(* A bar's prices are whole numbers; money counts hundredths of them, since*)
(* a stop is a per cent of a price.  The coins' order in the universe      *)
(* decides between equal changes: here any of the best may come first.     *)
(***************************************************************************)
EXTENDS RiskGate, Sequences, FiniteSetsExt, SequencesExt

CONSTANTS
  Universe, Anchor,
  Bars,                 \* [symbol -> its possible bars of a day]
  Histories,            \* the closes before the first day: [symbol -> sequence]
  MinBars,              \* bars of the anchor a score needs (60)
  LongAvg, LongLag,     \* the long average and how far back it is compared (200, 20)
  ShortAvg, ShortLag,   \* the short one (50, 10)
  MomentumLag,          \* days of the momentum component (20)
  TrendWindow,          \* trend_window_days
  StopPct,              \* crypto_stop_loss_pct
  InitialCash,
  MaxDays               \* bound on the days replayed

ASSUME ReplayAssumption ==
  /\ IsFiniteSet(Universe) /\ Anchor \in Universe
  /\ \A s \in Universe : Bars[s] \subseteq
       {b \in [close : Nat \ {0}, high : Nat, low : Nat \ {0}] :
          b.low <= b.close /\ b.close <= b.high}
  /\ Histories \subseteq [Universe -> Seq(Nat \ {0})]
  /\ {MinBars, LongAvg, ShortAvg, TrendWindow} \subseteq Nat \ {0}
  /\ {LongLag, ShortLag, MomentumLag, InitialCash, MaxDays} \subseteq Nat
  /\ StopPct \in 1 .. 100

VARIABLES
  filter,     \* regime_filter_enabled
  closes,     \* price_data up to today: the closes of each symbol, oldest first
  cash,
  position,   \* the open position, or none
  live,       \* the position a live agent would have in its place
  curve,      \* equity_curve
  trades      \* trade_log, the sells

replayVars == <<filter, closes, cash, position, live, curve, trades>>

Flat == [symbol |-> Anchor, qty |-> 0, entry |-> 0, hwm |-> 0]
NoLive == [hwm |-> 0, fired |-> FALSE]
NoRow == [close |-> 0, high |-> 0, low |-> 0]

-----------------------------------------------------------------------------
(* market_regime.score_from_closes                                         *)

LastOf(c, n) == SubSeq(c, Len(c) - n + 1, Len(c))
Before(c, n) == SubSeq(c, 1, Len(c) - n)
SumOf(c) == FoldSeq(+, 0, c)

\* num / den, a half to the even neighbour: Python's round
RoundEven(num, den) ==
  LET down == num \div den
      twice == 2 * (num - down * den)
  IN  IF twice > den \/ (twice = den /\ down % 2 = 1) THEN down + 1 ELSE down

\* Mutant of Rising: the comparison is the wrong way round.
RisingBackwards(c, avg, lag) ==
  Len(c) >= avg + lag /\ SumOf(LastOf(c, avg)) < SumOf(LastOf(Before(c, lag), avg))

\* is the average of the last avg closes above what it was lag closes ago?
Rising(c, avg, lag) ==
  Len(c) >= avg + lag /\ SumOf(LastOf(c, avg)) > SumOf(LastOf(Before(c, lag), avg))

Above(c, avg) == Len(c) >= avg /\ Last(c) * avg > SumOf(LastOf(c, avg))

ScoreVsAverage(c, avg, lag) ==
  IF Len(c) < avg THEN 12
  ELSE CASE Above(c, avg) /\ Rising(c, avg, lag) -> 25
         [] Above(c, avg) /\ ~Rising(c, avg, lag) -> 12
         [] ~Above(c, avg) /\ Rising(c, avg, lag) -> 8
         [] OTHER -> 0

Breadth(history) ==
  LET rated == {s \in Universe : Len(history[s]) >= ShortAvg}
      above == {s \in rated : Above(history[s], ShortAvg)}
  IN  IF rated = {} THEN 12 ELSE RoundEven(25 * Cardinality(above), Cardinality(rated))

Momentum(c) ==
  IF Len(c) <= MomentumLag THEN 12
  ELSE LET then == c[Len(c) - MomentumLag]
           change == (Last(c) - then) * 100
       IN  IF change > 10 * then THEN 25 ELSE IF change > 0 THEN 18
           ELSE IF change > -10 * then THEN 8 ELSE 0

Score(history) ==
  LET c == history[Anchor] IN
  IF Len(c) < MinBars THEN 50
  ELSE ScoreVsAverage(c, LongAvg, LongLag) + ScoreVsAverage(c, ShortAvg, ShortLag)
       + Breadth(history) + Momentum(c)

-----------------------------------------------------------------------------
(* major_coins.rank_by_momentum and strategy.decide: the coins with a row  *)
(* today and two closes in the window, and the best of them.               *)

Window(c) == LastOf(c, Min({TrendWindow, Len(c)}))

BestOf(row, history) ==
  LET ranked == {s \in Universe : row[s] # NoRow /\ Len(Window(history[s])) >= 2}
      first(s) == Head(Window(history[s]))
  IN  {s \in ranked : \A r \in ranked :
         row[s].close * first(r) >= row[r].close * first(s)}

-----------------------------------------------------------------------------
(* The steps of a day.                                                     *)

\* Mutant of Peak: yesterday's peak.
PeakBefore(pos, bar) == pos.hwm

\* the day's high counts before its low is compared with the stop
Peak(pos, bar) == IF bar.high > pos.hwm THEN bar.high ELSE pos.hwm

Trigger(hwm) == hwm * (100 - StopPct)

StopHit(pos, bar) ==
  pos.qty > 0 /\ bar # NoRow /\ bar.low * 100 <= Trigger(Peak(pos, bar))

\* at the trigger, even when the whole day lay below it
FillPrice(pos, bar) == Trigger(Peak(pos, bar))

Sale(pos, bar) ==
  [entry |-> pos.entry, qty |-> pos.qty,
   pnl |-> (FillPrice(pos, bar) - 100 * pos.entry) * pos.qty]

(* The prices a live agent's exit passes see in a day, and its stop.       *)
Paths(bar) == {<<bar.high, bar.low, bar.close>>, <<bar.low, bar.high, bar.close>>}

Tick(l, p) ==
  LET hwm == IF p > l.hwm THEN p ELSE l.hwm IN
  [hwm |-> hwm, fired |-> l.fired \/ p * 100 <= Trigger(hwm)]

Trailed(l, path) == Tick(Tick(Tick(l, path[1]), path[2]), path[3])

Opened(s, q, price) == [symbol |-> s, qty |-> q, entry |-> price, hwm |-> price]

Equity(c, pos, row) == c + 100 * pos.qty * row[pos.symbol].close

(* 1. The exit of an open position, or its new peak.                       *)

\* Mutant of Kept: the position that was sold is kept.
KeptSold(bar) ==
  IF position.qty > 0 /\ bar # NoRow
  THEN [position EXCEPT !.hwm = Peak(position, bar)] ELSE position

Kept(bar) ==
  IF StopHit(position, bar) THEN Flat
  ELSE IF position.qty > 0 /\ bar # NoRow
    THEN [position EXCEPT !.hwm = Peak(position, bar)] ELSE position

Money(bar) ==
  IF StopHit(position, bar) THEN cash + position.qty * FillPrice(position, bar) ELSE cash

Sells(bar) ==
  trades' = IF StopHit(position, bar) THEN Append(trades, Sale(position, bar)) ELSE trades

DailyPnl(bar) == IF StopHit(position, bar) THEN Sale(position, bar).pnl ELSE 0

(* 2. The regime; 3. without a position, and if the regime allows it, the  *)
(* purchase of the best coin for the largest position allowed: whether the *)
(* daily-loss check is reached depends on how the float of its cost was    *)
(* rounded.                                                                *)
Size(money, score, price) == Nearest(Budget(money, score), price * 1000000)

Buys(row, bar, history, score) ==
  /\ Kept(bar).qty = 0 /\ Exposure(score) > 0 /\ Money(bar) > 0
  /\ \E s \in BestOf(row, history), resized \in BOOLEAN :
       LET size == Size(Money(bar), score, row[s].close) IN
       /\ size > 0
       /\ resized \/ ~LossHalted(DailyPnl(bar), Money(bar))
       /\ position' = Opened(s, size, row[s].close)
       /\ cash' = Money(bar) - 100 * size * row[s].close
       /\ live' = [hwm |-> row[s].close, fired |-> FALSE]

Stays(row, bar, history, score) ==
  /\ \/ Kept(bar).qty > 0 \/ Exposure(score) = 0 \/ Money(bar) <= 0
     \/ LossHalted(DailyPnl(bar), Money(bar))
     \/ BestOf(row, history) = {}
     \/ \E s \in BestOf(row, history) : Size(Money(bar), score, row[s].close) = 0
  /\ position' = Kept(bar) /\ cash' = Money(bar)
  /\ \E path \in Paths(bar) :
       live' = IF position.qty = 0 THEN NoLive
               ELSE IF bar = NoRow THEN live ELSE Trailed(live, path)

(* 4. The equity, in which a position without a row today counts nothing.  *)
Day ==
  /\ Len(curve) < MaxDays
  /\ \E row \in [Universe -> UNION {Bars[s] : s \in Universe} \union {NoRow}] :
     /\ \A s \in Universe : row[s] \in Bars[s] \union {NoRow}
     /\ \E s \in Universe : row[s] # NoRow
     /\ LET bar == row[position.symbol]
            known == [s \in Universe |-> IF row[s] = NoRow THEN closes[s]
                                        ELSE Append(closes[s], row[s].close)]
            today == [s \in Universe |-> IF row[s] = NoRow THEN <<>> ELSE known[s]]
            score == IF filter THEN Score(today) ELSE RiskOn
        IN  /\ closes' = known
            /\ Sells(bar)
            /\ Buys(row, bar, known, score) \/ Stays(row, bar, known, score)
            /\ curve' = Append(curve, Equity(cash', position', row))
  /\ UNCHANGED filter

ReplayInit ==
  /\ filter \in BOOLEAN
  /\ closes \in Histories
  /\ cash = 100 * InitialCash
  /\ position = Flat /\ live = NoLive
  /\ curve = <<>> /\ trades = <<>>

ReplaySpec == ReplayInit /\ [][Day]_replayVars

-----------------------------------------------------------------------------
(* report.summarize, in hundredths of a per cent: the worst fall from the  *)
(* peak so far.                                                            *)

Fall(peak, equity) == IF peak = 0 THEN 0 ELSE ((peak - equity) * 10000) \div peak

\* Mutant of Summarized: falls are measured from the money put in.
SummarizedFlat(c) ==
  FoldLeft(LAMBDA x, eq : [x EXCEPT !.worst = Max({@, Fall(x.peak, eq)})],
           [peak |-> 100 * InitialCash, worst |-> 0], c)

Summarized(c) ==
  FoldLeft(LAMBDA x, eq : LET peak == IF eq > x.peak THEN eq ELSE x.peak IN
             [peak |-> peak, worst |-> Max({x.worst, Fall(peak, eq)})],
           [peak |-> 100 * InitialCash, worst |-> 0], c)

-----------------------------------------------------------------------------
(* The daily bars stand in for the live stop, which is checked every       *)
(* minute: when the live stop has fired, in whatever order the day's prices*)
(* came, the replay too is out of the position by the end of that day.     *)
NeverLater == live.fired => position.qty = 0

(* The two halves of the report tell one story: its return is taken from   *)
(* the money, its win rate and averages from the log of the sales, and the *)
(* money in hand with what the open position cost is the money put in and  *)
(* the profits of the log, over any number of positions.                   *)
LogTellsTheMoney ==
  cash + 100 * position.qty * position.entry =
    100 * InitialCash + SumOf([i \in DOMAIN trades |-> trades[i].pnl])

(* The drawdown of the report is the worst fall between any two points of  *)
(* the curve, the money put in being the first.                            *)
DrawdownIsWorst ==
  LET points == <<100 * InitialCash>> \o curve IN
  Summarized(curve).worst =
    Max({0} \union UNION {{Fall(points[i], points[j]) : j \in i + 1 .. Len(points)} :
                           i \in DOMAIN points})

(* The score is a brake that eases with the price: had the anchor closed   *)
(* higher today, it would be no lower.  It stays within 0 and 100.         *)
ScoreFollowsPrice ==
  closes[Anchor] # <<>> =>
    \A b \in Bars[Anchor] :
      LET other == [closes EXCEPT ![Anchor] = Append(Front(@), b.close)] IN
      b.close > Last(closes[Anchor]) =>
        0 <= Score(closes) /\ Score(closes) <= Score(other) /\ Score(other) <= 100
=============================================================================
