---------------------------- MODULE ReplayProofs ----------------------------
(***************************************************************************)
(* What holds of the backtester for every history of bars.                 *)
(*                                                                         *)
(* Its stop: the replay is out of a position no later than a live agent.   *)
(* That rests on how the two peaks are related while a position is open:   *)
(* the replay's is at or above the live agent's (Holding).  Nothing about  *)
(* the regime's score is needed: whatever it lets through, a purchase      *)
(* starts both peaks at its own price.                                     *)
(*                                                                         *)
(* Its log: each sale moves the money in hand and the log's profits alike. *)
(*                                                                         *)
(* Its score: each of the four parts eases when the last close rises.      *)
(*                                                                         *)
(* Its report: what the one pass over the curve has added up after n days  *)
(* tells the peak and the worst fall of the first n points (Tells), since  *)
(* no fall is larger from a lower peak as long as no equity is negative.   *)
(***************************************************************************)
EXTENDS Replay, SequenceTheorems, SumProofs

Positions == [symbol : Universe, qty : Nat, entry : Nat, hwm : Nat]
Watches == [hwm : Nat, fired : BOOLEAN]
Sales == [entry : Nat, qty : Nat, pnl : Int]

Holding ==
  position.qty > 0 =>
    /\ live.hwm <= position.hwm
    /\ ~live.fired

ReplayInv ==
  /\ cash \in Int
  /\ position \in Positions
  /\ live \in Watches
  /\ trades \in Seq(Sales)
  /\ Holding

LEMMA StopRange == StopPct \in Int /\ 0 < StopPct /\ StopPct <= 100
BY ReplayAssumption

(* A higher peak never has a lower trigger.                                *)
LEMMA TriggerRises ==
  ASSUME NEW m \in Nat, NEW n \in Nat, m <= n
  PROVE  Trigger(m) \in Int /\ Trigger(n) \in Int /\ Trigger(m) <= Trigger(n)
<1>1. PICK d \in Nat : n = m + d
  <2>1. n - m \in Nat /\ n = m + (n - m) OBVIOUS
  <2> QED BY <2>1
<1>2. PICK k \in Nat : k = 100 - StopPct
  <2>1. 100 - StopPct \in Nat BY StopRange
  <2> QED BY <2>1
<1>3. n * k = m * k + d * k BY <1>1
<1>4. d * k >= 0 OBVIOUS
<1> QED BY <1>2, <1>3, <1>4 DEF Trigger

(* One price of the day: the live peak stays below any bound of both, and  *)
(* the live stop fires only where the day's low would have.                *)
LEMMA TickBelow ==
  ASSUME NEW l \in Watches, NEW p \in Nat, NEW h \in Nat, NEW low \in Nat,
         l.hwm <= h, low <= p, p <= h
  PROVE  /\ Tick(l, p) \in Watches
         /\ Tick(l, p).hwm <= h
         /\ Tick(l, p).fired => l.fired \/ low * 100 <= Trigger(h)
<1> DEFINE hwm == IF p > l.hwm THEN p ELSE l.hwm
<1>1. l.hwm \in Nat /\ l.fired \in BOOLEAN BY DEF Watches
<1>2. hwm \in Nat /\ hwm <= h BY <1>1
<1>3. Trigger(hwm) \in Int /\ Trigger(h) \in Int /\ Trigger(hwm) <= Trigger(h)
  BY <1>2, TriggerRises
<1>4. Tick(l, p) = [hwm |-> hwm, fired |-> l.fired \/ p * 100 <= Trigger(hwm)]
  BY DEF Tick
<1> HIDE DEF hwm
<1>5. p * 100 <= Trigger(hwm) => low * 100 <= Trigger(h) BY <1>3
<1> QED BY <1>1, <1>2, <1>4, <1>5 DEF Watches

LEMMA TrailedBelow ==
  ASSUME NEW l \in Watches, NEW h \in Nat, NEW low \in Nat, l.hwm <= h,
         NEW p1 \in Nat, NEW p2 \in Nat, NEW p3 \in Nat,
         low <= p1, p1 <= h, low <= p2, p2 <= h, low <= p3, p3 <= h
  PROVE  /\ Trailed(l, <<p1, p2, p3>>) \in Watches
         /\ Trailed(l, <<p1, p2, p3>>).hwm <= h
         /\ Trailed(l, <<p1, p2, p3>>).fired => l.fired \/ low * 100 <= Trigger(h)
<1> DEFINE l1 == Tick(l, p1)
           l2 == Tick(l1, p2)
           l3 == Tick(l2, p3)
<1>1. l1 \in Watches /\ l1.hwm <= h /\ (l1.fired => l.fired \/ low * 100 <= Trigger(h))
  BY TickBelow
<1> HIDE DEF l1
<1>2. l2 \in Watches /\ l2.hwm <= h /\ (l2.fired => l1.fired \/ low * 100 <= Trigger(h))
  BY <1>1, TickBelow
<1> HIDE DEF l2
<1>3. l3 \in Watches /\ l3.hwm <= h /\ (l3.fired => l2.fired \/ low * 100 <= Trigger(h))
  BY <1>2, TickBelow
<1>4. Trailed(l, <<p1, p2, p3>>) = l3 BY DEF Trailed, l1, l2
<1> HIDE DEF l3
<1> QED BY <1>1, <1>2, <1>3, <1>4

LEMMA SaleShape ==
  ASSUME NEW pos \in Positions, NEW bar, Peak(pos, bar) \in Nat
  PROVE  Sale(pos, bar) \in Sales
<1>1. PICK e \in Nat, q \in Nat : e = pos.entry /\ q = pos.qty BY DEF Positions
<1>2. PICK fill \in Int : fill = FillPrice(pos, bar) BY TriggerRises DEF FillPrice
<1>3. (fill - 100 * e) * q \in Int OBVIOUS
<1>4. Sale(pos, bar) = [entry |-> e, qty |-> q, pnl |-> (fill - 100 * e) * q]
  BY <1>1, <1>2 DEF Sale
<1> QED BY <1>3, <1>4 DEF Sales

(* What is bought is a whole number of fractions.                          *)
LEMMA SizeWhole ==
  ASSUME NEW m \in Int, NEW score, NEW c \in Nat \ {0}
  PROVE  Size(m, score, c) \in Int
<1>1. Exposure(score) \in Int BY GateAssumption DEF Exposure
<1>2. MaxPositionPct \in Int BY GateAssumption
<1>3. PICK b \in Int : b = Budget(m, score) BY <1>1, <1>2 DEF Budget
<1>4. PICK d \in Nat \ {0} : d = c * 1000000 OBVIOUS
<1> QED BY <1>3, <1>4 DEF Nearest, Size

-----------------------------------------------------------------------------
LEMMA ReplayInitial == ReplayInit => ReplayInv
<1> SUFFICES ASSUME ReplayInit PROVE ReplayInv OBVIOUS
<1>1. cash \in Int BY ReplayAssumption DEF ReplayInit
<1>2. position \in Positions /\ position.qty = 0
  BY ReplayAssumption DEF ReplayInit, Flat, Positions
<1>3. live \in Watches BY DEF ReplayInit, NoLive, Watches
<1>4. trades = <<>> BY DEF ReplayInit
<1> QED BY <1>1, <1>2, <1>3, <1>4 DEF ReplayInv, Holding

(* A bar of the day, when there is one.                                    *)
LEMMA BarShape ==
  ASSUME NEW s \in Universe, NEW b \in Bars[s]
  PROVE  /\ b.close \in Nat \ {0} /\ b.high \in Nat /\ b.low \in Nat \ {0}
         /\ b.low <= b.close /\ b.close <= b.high
BY ReplayAssumption

(* A stop that is hit was hit by a real bar.                               *)
LEMMA HitShape ==
  ASSUME ReplayInv, NEW bar \in Bars[position.symbol] \union {NoRow}, StopHit(position, bar)
  PROVE  /\ position.qty > 0 /\ bar \in Bars[position.symbol]
         /\ Peak(position, bar) \in Nat
<1>1. position.qty > 0 /\ bar \in Bars[position.symbol] BY DEF StopHit
<1>2. bar.high \in Nat BY <1>1, BarShape DEF ReplayInv, Positions
<1> QED BY <1>1, <1>2 DEF Peak, ReplayInv, Holding, Positions

LEMMA MoneyInt ==
  ASSUME ReplayInv, NEW bar \in Bars[position.symbol] \union {NoRow}
  PROVE  Money(bar) \in Int
<1>1. CASE ~StopHit(position, bar) BY <1>1 DEF Money, ReplayInv
<1>2. CASE StopHit(position, bar)
  <2>1. PICK f \in Int : f = FillPrice(position, bar)
    BY <1>2, HitShape, TriggerRises DEF FillPrice
  <2>2. position.qty \in Int /\ cash \in Int BY DEF ReplayInv, Positions
  <2> QED BY <1>2, <2>1, <2>2 DEF Money
<1> QED BY <1>1, <1>2

LEMMA SellsTyped ==
  ASSUME ReplayInv, NEW bar \in Bars[position.symbol] \union {NoRow}, Sells(bar)
  PROVE  trades' \in Seq(Sales)
<1>1. CASE ~StopHit(position, bar) BY <1>1 DEF Sells, ReplayInv
<1>2. CASE StopHit(position, bar)
  <2>1. PICK t \in Sales : t = Sale(position, bar)
    BY <1>2, HitShape, SaleShape DEF ReplayInv
  <2>2. trades' = Append(trades, t) BY <1>2, <2>1 DEF Sells
  <2> QED BY <2>1, <2>2 DEF ReplayInv
<1> QED BY <1>1, <1>2

(* A purchase starts both peaks at its own price.                          *)
LEMMA BuysKeeps ==
  ASSUME ReplayInv, NEW row, NEW bar \in Bars[position.symbol] \union {NoRow},
         NEW history, NEW score, \A s \in Universe : row[s] \in Bars[s] \union {NoRow},
         Buys(row, bar, history, score)
  PROVE  cash' \in Int /\ position' \in Positions /\ live' \in Watches /\ Holding'
<1>1. PICK s \in Universe :
        /\ row[s] # NoRow
        /\ Size(Money(bar), score, row[s].close) > 0
        /\ position' = Opened(s, Size(Money(bar), score, row[s].close), row[s].close)
        /\ cash' = Money(bar) - 100 * Size(Money(bar), score, row[s].close) * row[s].close
        /\ live' = [hwm |-> row[s].close, fired |-> FALSE]
  BY DEF Buys, BestOf
<1>2. PICK c \in Nat \ {0} : c = row[s].close BY <1>1, BarShape
<1>3. PICK q \in Nat : q = Size(Money(bar), score, c)
  BY <1>1, <1>2, MoneyInt, SizeWhole
<1>4. cash' \in Int BY <1>1, <1>2, <1>3, MoneyInt
<1>5. position' = [symbol |-> s, qty |-> q, entry |-> c, hwm |-> c]
  BY <1>1, <1>2, <1>3 DEF Opened
<1> QED BY <1>1, <1>2, <1>4, <1>5 DEF Positions, Watches, Holding

(* A position that is kept through the day was not stopped by its low, so  *)
(* the live stop cannot have been either.                                  *)
LEMMA StaysKeeps ==
  ASSUME ReplayInv, NEW row, NEW bar \in Bars[position.symbol] \union {NoRow},
         NEW history, NEW score, Stays(row, bar, history, score)
  PROVE  cash' \in Int /\ position' \in Positions /\ live' \in Watches /\ Holding'
<1>1. cash' \in Int /\ position' = Kept(bar) BY MoneyInt DEF Stays
<1>2. Flat \in Positions /\ Flat.qty = 0 BY ReplayAssumption DEF Flat, Positions
<1>3. CASE position.qty = 0
  <2>1. position' = position BY <1>1, <1>3 DEF Kept, StopHit
  <2>2. live' = NoLive BY <1>3 DEF Stays
  <2> QED BY <1>1, <1>3, <2>1, <2>2 DEF NoLive, Watches, Holding, ReplayInv
<1>4. CASE position.qty > 0 /\ bar = NoRow
  <2>1. position' = position BY <1>1, <1>4 DEF Kept, StopHit
  <2>2. live' = live BY <1>4 DEF Stays
  <2> QED BY <1>1, <2>1, <2>2 DEF ReplayInv, Holding
<1>5. CASE position.qty > 0 /\ bar # NoRow
  <2>1. bar \in Bars[position.symbol] BY <1>5
  <2>2. /\ bar.close \in Nat /\ bar.high \in Nat /\ bar.low \in Nat
        /\ bar.low <= bar.close /\ bar.close <= bar.high
    BY <2>1, BarShape DEF ReplayInv, Positions
  <2>3. PICK h \in Nat : h = Peak(position, bar)
    BY <2>2 DEF Peak, ReplayInv, Positions
  <2>4. bar.high <= h /\ position.hwm <= h /\ position.hwm \in Nat
    BY <2>2, <2>3 DEF Peak, ReplayInv, Positions
  <2>5. live \in Watches /\ live.hwm <= h /\ ~live.fired /\ live.hwm \in Nat
    BY <1>5, <2>4 DEF ReplayInv, Holding, Watches
  <2>6. /\ live' \in Watches /\ live'.hwm <= h
        /\ live'.fired => bar.low * 100 <= Trigger(h)
    <3>1. PICK path \in Paths(bar) : live' = Trailed(live, path) BY <1>5 DEF Stays
    <3>2. PICK c \in Nat, high \in Nat, low \in Nat :
            c = bar.close /\ high = bar.high /\ low = bar.low
      BY <2>2
    <3>3. /\ low <= c /\ c <= h /\ low <= h /\ low <= high /\ high <= h
          /\ low <= low /\ live \in Watches /\ live.hwm <= h
      BY <2>2, <2>4, <2>5, <3>2
    <3>4. /\ Trailed(live, <<high, low, c>>) \in Watches
          /\ Trailed(live, <<high, low, c>>).hwm <= h
          /\ Trailed(live, <<high, low, c>>).fired => live.fired \/ low * 100 <= Trigger(h)
      BY <2>5, <3>3, TrailedBelow
    <3>5. /\ Trailed(live, <<low, high, c>>) \in Watches
          /\ Trailed(live, <<low, high, c>>).hwm <= h
          /\ Trailed(live, <<low, high, c>>).fired => live.fired \/ low * 100 <= Trigger(h)
      BY <2>5, <3>3, TrailedBelow
    <3>6. path = <<high, low, c>> \/ path = <<low, high, c>> BY <3>2 DEF Paths
    <3> QED BY <2>5, <3>1, <3>2, <3>4, <3>5, <3>6
  <2>7. CASE StopHit(position, bar)
    <3>1. position' = Flat BY <1>1, <2>7 DEF Kept
    <3> QED BY <1>1, <1>2, <2>6, <3>1 DEF Holding
  <2>8. CASE ~StopHit(position, bar)
    <3>1. position' = [position EXCEPT !.hwm = h] BY <1>1, <1>5, <2>3, <2>8 DEF Kept
    <3>2. ~(bar.low * 100 <= Trigger(h)) BY <1>5, <2>3, <2>8 DEF StopHit
    <3>3. position' \in Positions /\ position'.hwm = h
      BY <3>1 DEF ReplayInv, Positions
    <3> QED BY <1>1, <2>6, <3>2, <3>3 DEF Holding
  <2> QED BY <2>7, <2>8
<1> QED BY <1>3, <1>4, <1>5 DEF ReplayInv, Positions

LEMMA DayKeeps == ASSUME ReplayInv, Day PROVE ReplayInv'
<1>0. PICK row \in [Universe -> UNION {Bars[s] : s \in Universe} \union {NoRow}] :
        /\ \A s \in Universe : row[s] \in Bars[s] \union {NoRow}
        /\ Sells(row[position.symbol])
        /\ \E history, score :
             \/ Buys(row, row[position.symbol], history, score)
             \/ Stays(row, row[position.symbol], history, score)
  BY DEF Day
<1>1. PICK history, score :
        \/ Buys(row, row[position.symbol], history, score)
        \/ Stays(row, row[position.symbol], history, score)
  BY <1>0
<1>2. row[position.symbol] \in Bars[position.symbol] \union {NoRow}
  BY <1>0 DEF ReplayInv, Positions
<1>3. trades' \in Seq(Sales) BY <1>0, <1>2, SellsTyped
<1>4. cash' \in Int /\ position' \in Positions /\ live' \in Watches /\ Holding'
  BY <1>0, <1>1, <1>2, BuysKeeps, StaysKeeps
<1> QED BY <1>3, <1>4 DEF ReplayInv

LEMMA ReplayInvariant == ReplaySpec => []ReplayInv
<1>1. ReplayInv /\ [Day]_replayVars => ReplayInv'
  <2>1. ASSUME ReplayInv, UNCHANGED replayVars PROVE ReplayInv'
    BY <2>1 DEF ReplayInv, replayVars, Holding
  <2> QED BY <2>1, DayKeeps
<1> QED BY ReplayInitial, <1>1, PTL DEF ReplaySpec

(* Whatever the bars, and in whatever order each day's prices came: when   *)
(* the live stop has fired, the replay is out of the position by the end   *)
(* of that day.                                                            *)
THEOREM ReplayExitsNoLater == ReplaySpec => []NeverLater
<1>1. ReplayInv => NeverLater BY DEF ReplayInv, Positions, Holding, NeverLater
<1> QED BY <1>1, ReplayInvariant, PTL

-----------------------------------------------------------------------------
(* The log and the money.                                                  *)

PnlsOf(t) == [i \in DOMAIN t |-> t[i].pnl]

LogInv ==
  /\ ReplayInv
  /\ cash + 100 * position.qty * position.entry = 100 * InitialCash + SumOf(PnlsOf(trades))

LEMMA SumIsTotal ==
  ASSUME NEW c
  PROVE  SumOf(c) = Total(c, DOMAIN c)
BY DEF SumOf, FoldSeq, FoldFunction, FoldFunctionOnSet, Total, MapThenSumSet, MapThenFoldSet

LEMMA LogGrows ==
  ASSUME NEW t \in Seq(Sales), NEW s \in Sales
  PROVE  /\ SumOf(PnlsOf(t)) \in Int
         /\ SumOf(PnlsOf(Append(t, s))) = SumOf(PnlsOf(t)) + s.pnl
<1> DEFINE old == PnlsOf(t)
           new == PnlsOf(Append(t, s))
<1>1. PICK n \in Nat : n = Len(t) OBVIOUS
<1>2. DOMAIN old = 1 .. n /\ \A i \in 1 .. n : old[i] = t[i].pnl /\ t[i] \in Sales
  BY <1>1 DEF PnlsOf
<1>3. /\ DOMAIN new = 1 .. n + 1 /\ new[n + 1] = s.pnl
      /\ \A i \in 1 .. n : new[i] = t[i].pnl
  BY <1>1 DEF PnlsOf
<1>4. s.pnl \in Int BY DEF Sales
<1>5. \A i \in 1 .. n : old[i] \in Int /\ new[i] = old[i] BY <1>2, <1>3 DEF Sales
<1> HIDE DEF old, new
<1>6. IsFiniteSet(1 .. n) /\ IsFiniteSet(1 .. n + 1) BY FS_Interval
<1>7. Ints(old, 1 .. n) /\ Ints(new, 1 .. n + 1) BY <1>3, <1>4, <1>5 DEF Ints
<1>8. n + 1 \in 1 .. n + 1 /\ (1 .. n + 1) \ {n + 1} = 1 .. n OBVIOUS
<1>9. Total(new, 1 .. n + 1) = new[n + 1] + Total(new, 1 .. n)
  BY <1>6, <1>7, <1>8, TotalStep
<1>10. Total(new, 1 .. n) = Total(old, 1 .. n) BY <1>5, <1>6, TotalSame
<1>11. Total(old, 1 .. n) \in Int BY <1>6, <1>7, TotalInt
<1>12. SumOf(old) = Total(old, 1 .. n) /\ SumOf(new) = Total(new, 1 .. n + 1)
  BY <1>2, <1>3, SumIsTotal
<1> QED BY <1>3, <1>4, <1>9, <1>10, <1>11, <1>12 DEF old, new

(* What the exit of the day does to the two: nothing, or the same.         *)
LEMMA ExitBalances ==
  ASSUME LogInv, NEW bar \in Bars[position.symbol] \union {NoRow}, Sells(bar)
  PROVE  /\ Kept(bar).qty \in Nat /\ Kept(bar).entry \in Nat
         /\ SumOf(PnlsOf(trades')) \in Int
         /\ Money(bar) + 100 * Kept(bar).qty * Kept(bar).entry
              = 100 * InitialCash + SumOf(PnlsOf(trades'))
<1>0. PICK c \in Int, e \in Nat, q \in Nat, i \in Nat, p \in Int :
        /\ c = cash /\ e = position.entry /\ q = position.qty
        /\ i = InitialCash /\ p = SumOf(PnlsOf(trades))
  <2>1. InitialCash \in Nat BY ReplayAssumption
  <2>2. Sales # {}
    <3>1. [entry |-> 0, qty |-> 0, pnl |-> 0] \in Sales BY DEF Sales
    <3> QED BY <3>1
  <2>3. SumOf(PnlsOf(trades)) \in Int BY <2>2, LogGrows DEF LogInv, ReplayInv
  <2> QED BY <2>1, <2>3 DEF LogInv, ReplayInv, Positions
<1>1. c + 100 * q * e = 100 * i + p BY <1>0 DEF LogInv
<1>2. CASE ~StopHit(position, bar)
  <2>1. trades' = trades /\ Money(bar) = c BY <1>0, <1>2 DEF Sells, Money
  <2>2. Kept(bar).qty = q /\ Kept(bar).entry = e
    BY <1>0, <1>2 DEF Kept, LogInv, ReplayInv, Positions
  <2> QED BY <1>0, <1>1, <2>1, <2>2
<1>3. CASE StopHit(position, bar)
  <2>1. PICK f \in Int : f = FillPrice(position, bar)
    BY <1>3, HitShape, TriggerRises DEF FillPrice, LogInv
  <2>2. PICK s \in Sales : s = Sale(position, bar)
    BY <1>3, HitShape, SaleShape DEF LogInv, ReplayInv
  <2>3. s.pnl = (f - 100 * e) * q BY <1>0, <2>1, <2>2 DEF Sale
  <2>4. trades' = Append(trades, s) BY <1>3, <2>2 DEF Sells
  <2>5. SumOf(PnlsOf(trades')) = p + s.pnl BY <1>0, <2>4, LogGrows DEF LogInv, ReplayInv
  <2>6. Money(bar) = c + q * f BY <1>0, <1>3, <2>1 DEF Money
  <2>7. Kept(bar).qty = 0 /\ Kept(bar).entry = 0 BY <1>3 DEF Kept, Flat
  <2>8. (f - 100 * e) * q = q * f - 100 * q * e OBVIOUS
  <2>9. PICK x \in Int, y \in Int : x = q * f /\ y = 100 * q * e OBVIOUS
  <2>10. c + x = 100 * i + (p + (x - y)) BY <1>1, <2>9
  <2>11. SumOf(PnlsOf(trades')) = p + (x - y) BY <2>3, <2>5, <2>8, <2>9
  <2> QED BY <1>0, <2>6, <2>7, <2>9, <2>10, <2>11
<1> QED BY <1>2, <1>3

LEMMA LogKeeps == ASSUME LogInv, Day PROVE LogInv'
<1>1. ReplayInv' BY DayKeeps DEF LogInv
<1>2. PICK row \in [Universe -> UNION {Bars[s] : s \in Universe} \union {NoRow}] :
        /\ \A s \in Universe : row[s] \in Bars[s] \union {NoRow}
        /\ Sells(row[position.symbol])
        /\ \E history, score :
             \/ Buys(row, row[position.symbol], history, score)
             \/ Stays(row, row[position.symbol], history, score)
  BY DEF Day
<1>3. PICK history, score :
        \/ Buys(row, row[position.symbol], history, score)
        \/ Stays(row, row[position.symbol], history, score)
  BY <1>2
<1>4. PICK bar \in Bars[position.symbol] \union {NoRow} : bar = row[position.symbol]
  BY <1>2 DEF LogInv, ReplayInv, Positions
<1>5. PICK q \in Nat, e \in Nat, p \in Int, m \in Int, i \in Nat :
        /\ q = Kept(bar).qty /\ e = Kept(bar).entry
        /\ p = SumOf(PnlsOf(trades')) /\ m = Money(bar) /\ i = InitialCash
        /\ m + 100 * q * e = 100 * i + p
  <2>1. InitialCash \in Nat BY ReplayAssumption
  <2>2. Money(bar) \in Int BY MoneyInt DEF LogInv
  <2>3. Sells(bar) BY <1>2, <1>4
  <2>4. /\ Kept(bar).qty \in Nat /\ Kept(bar).entry \in Nat
        /\ SumOf(PnlsOf(trades')) \in Int
        /\ Money(bar) + 100 * Kept(bar).qty * Kept(bar).entry
             = 100 * InitialCash + SumOf(PnlsOf(trades'))
    BY <2>3, ExitBalances
  <2> QED BY <2>1, <2>2, <2>4
<1>6. CASE Stays(row, bar, history, score)
  <2>1. position' = Kept(bar) /\ cash' = Money(bar) BY <1>6 DEF Stays
  <2> QED BY <1>1, <1>5, <2>1 DEF LogInv
<1>7. CASE Buys(row, bar, history, score)
  <2>1. PICK s \in Universe :
          /\ row[s] # NoRow
          /\ Size(Money(bar), score, row[s].close) > 0
          /\ position' = Opened(s, Size(Money(bar), score, row[s].close), row[s].close)
          /\ cash' = Money(bar) - 100 * Size(Money(bar), score, row[s].close) * row[s].close
    BY <1>7 DEF Buys, BestOf
  <2>2. PICK c \in Nat \ {0} : c = row[s].close BY <1>2, <2>1, BarShape
  <2>3. PICK z \in Int : z = Size(m, score, c) BY <1>5, <2>2, SizeWhole
  <2>4. cash' = m - 100 * z * c BY <1>5, <2>1, <2>2, <2>3
  <2>5. position'.qty = z /\ position'.entry = c
    BY <1>5, <2>1, <2>2, <2>3 DEF Opened
  <2>6. q = 0 BY <1>5, <1>7 DEF Buys
  <2>7. m = 100 * i + p BY <1>5, <2>6
  <2>8. PICK y \in Int : y = 100 * z * c OBVIOUS
  <2>9. (m - y) + y = 100 * i + p BY <2>7
  <2> QED BY <1>1, <1>5, <2>4, <2>5, <2>8, <2>9 DEF LogInv
<1> QED BY <1>3, <1>4, <1>6, <1>7

(* Whatever the bars and however many positions were opened and stopped:   *)
(* the money in hand, with what the open position cost, is the money put in*)
(* and the profits the log reports.                                        *)
THEOREM ReplayLogTellsTheMoney == ReplaySpec => []LogTellsTheMoney
<1>1. ReplayInit => LogInv
  <2> SUFFICES ASSUME ReplayInit PROVE LogInv OBVIOUS
  <2>1. InitialCash \in Nat BY ReplayAssumption
  <2>2. trades = <<>> /\ cash = 100 * InitialCash /\ position.qty = 0 /\ position.entry = 0
    BY DEF ReplayInit, Flat
  <2>3. DOMAIN PnlsOf(trades) = {} BY <2>2 DEF PnlsOf
  <2>4. SumOf(PnlsOf(trades)) = 0 BY <2>3, SumIsTotal, TotalEmpty
  <2> QED BY <2>1, <2>2, <2>4, ReplayInitial DEF LogInv
<1>2. LogInv /\ [Day]_replayVars => LogInv'
  <2>1. ASSUME LogInv, UNCHANGED replayVars PROVE LogInv'
    BY <2>1 DEF LogInv, ReplayInv, replayVars, Holding
  <2> QED BY <2>1, LogKeeps
<1>3. LogInv => LogTellsTheMoney BY DEF LogInv, LogTellsTheMoney, PnlsOf
<1> QED BY <1>1, <1>2, <1>3, PTL DEF ReplaySpec

-----------------------------------------------------------------------------
(* The score.                                                              *)

Quotes == Nat \ {0}

LEMMA LastOfShape ==
  ASSUME NEW c \in Seq(Quotes), NEW n \in 1 .. Len(c)
  PROVE  /\ LastOf(c, n) \in Seq(Quotes)
         /\ DOMAIN LastOf(c, n) = 1 .. n
         /\ \A i \in 1 .. n : LastOf(c, n)[i] = c[Len(c) - n + i]
<1>1. PICK k \in Nat : k = Len(c) OBVIOUS
<1>2. PICK m \in Int : m = k - n + 1 BY <1>1
<1>3. \A i \in m .. k : c[i] \in Quotes BY <1>1, <1>2
<1>4. LastOf(c, n) = SubSeq(c, m, k) BY <1>1, <1>2 DEF LastOf
<1>5. /\ SubSeq(c, m, k) \in Seq(Quotes)
      /\ Len(SubSeq(c, m, k)) = IF m <= k THEN k - m + 1 ELSE 0
      /\ \A i \in 1 .. k - m + 1 : SubSeq(c, m, k)[i] = c[m + i - 1]
  BY <1>3, SubSeqProperties
<1>6. n \in 1 .. k /\ m <= k /\ k - m + 1 = n BY <1>1, <1>2
<1>7. Len(LastOf(c, n)) = n BY <1>4, <1>5, <1>6
<1>8. ASSUME NEW i \in 1 .. n PROVE LastOf(c, n)[i] = c[Len(c) - n + i]
  <2>1. m + i - 1 = k - n + i BY <1>2
  <2> QED BY <1>1, <1>4, <1>5, <1>6, <2>1
<1>9. LastOf(c, n) \in Seq(Quotes) BY <1>4, <1>5
<1>10. DOMAIN LastOf(c, n) = 1 .. n BY <1>7, <1>9, LenProperties
<1> QED BY <1>8, <1>9, <1>10

(* The last close is replaced by another.                                  *)
Moved(c, v) == Append(Front(c), v)

LEMMA MovedShape ==
  ASSUME NEW c \in Seq(Quotes), c # <<>>, NEW v \in Quotes
  PROVE  /\ Moved(c, v) \in Seq(Quotes) /\ Len(Moved(c, v)) = Len(c)
         /\ Len(c) \in Nat \ {0} /\ Last(c) \in Quotes /\ Last(c) = c[Len(c)]
         /\ Last(Moved(c, v)) = v
         /\ Moved(c, v)[Len(c)] = v
         /\ \A i \in 1 .. Len(c) - 1 : Moved(c, v)[i] = c[i]
<1>1. PICK k \in Nat \ {0} : k = Len(c) OBVIOUS
<1>2. \A i \in 1 .. k - 1 : c[i] \in Quotes BY <1>1
<1>3. k - 1 \in Int /\ 1 \in Int OBVIOUS
<1>4. /\ SubSeq(c, 1, k - 1) \in Seq(Quotes)
      /\ Len(SubSeq(c, 1, k - 1)) = IF 1 <= k - 1 THEN (k - 1) - 1 + 1 ELSE 0
      /\ \A i \in 1 .. (k - 1) - 1 + 1 : SubSeq(c, 1, k - 1)[i] = c[1 + i - 1]
  BY <1>2, <1>3, SubSeqProperties
<1>5. Front(c) = SubSeq(c, 1, k - 1) BY <1>1 DEF Front
<1>6. PICK f \in Seq(Quotes) : f = Front(c) BY <1>4, <1>5
<1>7. Len(f) = k - 1 BY <1>4, <1>5, <1>6
<1>8. \A i \in 1 .. k - 1 : f[i] = c[i]
  <2> SUFFICES ASSUME NEW i \in 1 .. k - 1 PROVE f[i] = c[i] OBVIOUS
  <2>1. (k - 1) - 1 + 1 = k - 1 /\ 1 + i - 1 = i OBVIOUS
  <2> QED BY <1>4, <1>5, <1>6, <2>1
<1>9. Moved(c, v) = Append(f, v) BY <1>6 DEF Moved
<1>10. /\ Append(f, v) \in Seq(Quotes) /\ Len(Append(f, v)) = k /\ Append(f, v)[k] = v
       /\ \A i \in 1 .. k - 1 : Append(f, v)[i] = f[i]
  BY <1>7
<1>11. Last(c) = c[k] /\ c[k] \in Quotes BY <1>1 DEF Last
<1>12. Last(Moved(c, v)) = v BY <1>9, <1>10 DEF Last
<1> QED BY <1>1, <1>8, <1>9, <1>10, <1>11, <1>12

\* g is f but for one value
Replaces(g, f, D, x, v) ==
  /\ IsFiniteSet(D) /\ x \in D /\ v \in Int /\ Ints(f, D)
  /\ g[x] = v /\ \A i \in D \ {x} : g[i] = f[i]

LEMMA LastTerm ==
  ASSUME NEW D, NEW x, NEW f, NEW g, NEW v, Replaces(g, f, D, x, v)
  PROVE  Total(f, D) \in Int /\ f[x] \in Int /\ Total(g, D) = Total(f, D) - f[x] + v
BY TotalChange DEF Replaces, Ints

LEMMA SumMoved ==
  ASSUME NEW c \in Seq(Quotes), c # <<>>, NEW v \in Quotes, NEW n \in 1 .. Len(c)
  PROVE  /\ SumOf(LastOf(c, n)) \in Int
         /\ SumOf(LastOf(Moved(c, v), n)) = SumOf(LastOf(c, n)) - Last(c) + v
<1> DEFINE old == LastOf(c, n)
           new == LastOf(Moved(c, v), n)
           D == 1 .. n
<1>a. Len(c) \in Nat \ {0} /\ Last(c) = c[Len(c)] BY MovedShape
<1>b. n \in Nat \ {0} /\ n <= Len(c) /\ v \in Int BY <1>a DEF Quotes
<1>1. /\ Len(c) \in Nat \ {0} /\ n \in Nat \ {0} /\ n <= Len(c) /\ v \in Int
      /\ Last(c) = c[Len(c)]
  BY <1>a, <1>b
<1>2. /\ DOMAIN old = D /\ old \in Seq(Quotes)
      /\ \A i \in D : old[i] = c[Len(c) - n + i]
  BY LastOfShape
<1>3. /\ Moved(c, v) \in Seq(Quotes) /\ Len(Moved(c, v)) = Len(c)
      /\ Moved(c, v)[Len(c)] = v
      /\ \A i \in 1 .. Len(c) - 1 : Moved(c, v)[i] = c[i]
  BY MovedShape
<1>4. /\ DOMAIN new = D
      /\ \A i \in D : new[i] = Moved(c, v)[Len(c) - n + i]
  <2>1. PICK d \in Seq(Quotes) : d = Moved(c, v) BY <1>3
  <2>2. Len(d) = Len(c) /\ n \in 1 .. Len(d) BY <1>3, <2>1
  <2>3. DOMAIN LastOf(d, n) = 1 .. n /\ \A i \in 1 .. n : LastOf(d, n)[i] = d[Len(d) - n + i]
    BY <2>2, LastOfShape
  <2> QED BY <2>1, <2>2, <2>3
<1>5. new[n] = v
  <2>1. n \in D /\ Len(c) - n + n = Len(c) BY <1>1
  <2> QED BY <1>3, <1>4, <2>1
<1>6. old[n] = Last(c)
  <2>1. n \in D /\ Len(c) - n + n = Len(c) BY <1>1
  <2> QED BY <1>1, <1>2, <2>1
<1>7. ASSUME NEW i \in D \ {n} PROVE new[i] = old[i]
  <2>1. i \in D /\ Len(c) - n + i \in 1 .. Len(c) - 1 BY <1>1
  <2> HIDE DEF new, old, D
  <2> QED BY <1>2, <1>3, <1>4, <2>1
<1>8. IsFiniteSet(D) /\ n \in D /\ v \in Int BY <1>1, FS_Interval
<1>9. Ints(old, D)
  <2> HIDE DEF old, D
  <2>1. \A i \in D : old[i] \in Int BY <1>2 DEF Quotes
  <2> QED BY <2>1 DEF Ints
<1> HIDE DEF new, old, D
<1>10. Total(new, D) = Total(old, D) - old[n] + v /\ Total(old, D) \in Int
   
  <2>1. Replaces(new, old, D, n, v) BY <1>5, <1>7, <1>8, <1>9 DEF Replaces
  <2> QED BY <2>1, LastTerm
<1>11. SumOf(old) = Total(old, D) /\ SumOf(new) = Total(new, D) BY <1>2, <1>4, SumIsTotal
<1> QED BY <1>6, <1>10, <1>11 DEF new, old

(* What the score is made of eases with the last close.                    *)

LEMMA ReplayRanges ==
  /\ MinBars \in Nat \ {0} /\ LongAvg \in Nat \ {0} /\ ShortAvg \in Nat \ {0}
  /\ LongLag \in Nat /\ ShortLag \in Nat /\ MomentumLag \in Nat
  /\ TrendWindow \in Nat \ {0} /\ InitialCash \in Nat /\ MaxDays \in Nat
BY ReplayAssumption

LEMMA AboveRises ==
  ASSUME NEW c \in Seq(Quotes), c # <<>>, NEW v \in Quotes, Last(c) < v,
         NEW avg \in Nat \ {0}, Above(c, avg)
  PROVE  Above(Moved(c, v), avg)
<1>1. Len(c) \in Nat \ {0} /\ Len(Moved(c, v)) = Len(c) /\ Last(Moved(c, v)) = v
  BY MovedShape
<1>2. PICK x \in Int : x = Last(c) BY MovedShape DEF Quotes
<1>3. Len(c) >= avg /\ x * avg > SumOf(LastOf(c, avg)) BY <1>2 DEF Above
<1>4. avg \in 1 .. Len(c) BY <1>1, <1>3
<1>5. PICK s \in Int : s = SumOf(LastOf(c, avg)) BY <1>4, SumMoved
<1>6. SumOf(LastOf(Moved(c, v), avg)) = s - x + v BY <1>2, <1>4, <1>5, SumMoved
<1>7. PICK d \in Nat \ {0} : v = x + d
  <2>1. v \in Int /\ v - x \in Nat \ {0} /\ v = x + (v - x) BY <1>2 DEF Quotes
  <2> QED BY <2>1
<1>8. v * avg = x * avg + d * avg BY <1>2, <1>7
<1>9. d * 1 <= d * avg /\ d * avg \in Nat BY ProductRises
<1>10. PICK xa \in Int : xa = x * avg BY <1>2
<1>11. PICK da \in Int : da = d * avg BY <1>9
<1>12. v * avg > s - x + v
  <2>1. xa > s BY <1>3, <1>5, <1>10
  <2>2. v * avg = xa + da /\ d <= da BY <1>8, <1>9, <1>10, <1>11
  <2> QED BY <1>7, <2>1, <2>2
<1> QED BY <1>1, <1>3, <1>6, <1>12 DEF Above

LEMMA BeforeSame ==
  ASSUME NEW c \in Seq(Quotes), NEW v \in Quotes,
         NEW lag \in Nat \ {0}, lag < Len(c)
  PROVE  Before(Moved(c, v), lag) = Before(c, lag)
<1>0. c # <<>> OBVIOUS
<1>1. PICK k \in Nat \ {0} : k = Len(c) BY <1>0
<1>2. PICK e \in Seq(Quotes) : e = Moved(c, v) BY <1>0, MovedShape
<1>3. Len(e) = k /\ \A i \in 1 .. k - 1 : e[i] = c[i]
  <2>1. /\ Len(Moved(c, v)) = Len(c)
        /\ \A i \in 1 .. Len(c) - 1 : Moved(c, v)[i] = c[i]
    BY <1>0, MovedShape
  <2> QED BY <1>1, <1>2, <2>1
<1>4. PICK m \in Nat : m = k - lag
  <2>1. k - lag \in Nat BY <1>1
  <2> QED BY <2>1
<1>5. m <= k - 1 BY <1>1, <1>4
<1>6. \A i \in 1 .. m : c[i] \in Quotes BY <1>1, <1>5
<1>7. \A i \in 1 .. m : e[i] \in Quotes BY <1>3, <1>5
<1>8. m - 1 + 1 = m /\ 1 \in Int /\ m \in Int /\ \A i \in 1 .. m : 1 + i - 1 = i BY <1>4
<1>9. PICK a \in Seq(Quotes) : a = SubSeq(c, 1, m) BY <1>6, <1>8, SubSeqProperties
<1>10. Len(a) = m /\ \A i \in 1 .. m : a[i] = c[i]
  <2>1. /\ Len(SubSeq(c, 1, m)) = IF 1 <= m THEN m - 1 + 1 ELSE 0
        /\ \A i \in 1 .. m - 1 + 1 : SubSeq(c, 1, m)[i] = c[1 + i - 1]
    BY <1>6, <1>8, SubSeqProperties
  <2> QED BY <1>8, <1>9, <2>1
<1>11. PICK b \in Seq(Quotes) : b = SubSeq(e, 1, m) BY <1>7, <1>8, SubSeqProperties
<1>12. Len(b) = m /\ \A i \in 1 .. m : b[i] = e[i]
  <2>1. /\ Len(SubSeq(e, 1, m)) = IF 1 <= m THEN m - 1 + 1 ELSE 0
        /\ \A i \in 1 .. m - 1 + 1 : SubSeq(e, 1, m)[i] = e[1 + i - 1]
    BY <1>7, <1>8, SubSeqProperties
  <2> QED BY <1>8, <1>11, <2>1
<1>13. ASSUME NEW i \in 1 .. Len(b) PROVE b[i] = a[i]
  <2>1. i \in 1 .. m /\ i \in 1 .. k - 1 BY <1>5, <1>12
  <2> QED BY <1>3, <1>10, <1>12, <2>1
<1>14. Len(b) = Len(a) BY <1>10, <1>12
<1>15. b = a BY <1>13, <1>14, SeqEqual
<1> QED BY <1>1, <1>2, <1>3, <1>4, <1>9, <1>11, <1>15 DEF Before

LEMMA BeforeShape ==
  ASSUME NEW c \in Seq(Quotes), NEW lag \in Nat, lag <= Len(c)
  PROVE  Before(c, lag) \in Seq(Quotes) /\ Len(Before(c, lag)) = Len(c) - lag
<1>1. PICK m \in Nat : m = Len(c) - lag OBVIOUS
<1>2. \A i \in 1 .. m : c[i] \in Quotes BY <1>1
<1>3. 1 \in Int /\ m \in Int /\ m - 1 + 1 = m OBVIOUS
<1>4. /\ SubSeq(c, 1, m) \in Seq(Quotes)
      /\ Len(SubSeq(c, 1, m)) = IF 1 <= m THEN m - 1 + 1 ELSE 0
  BY <1>2, <1>3, SubSeqProperties
<1> QED BY <1>1, <1>3, <1>4 DEF Before

LEMMA RisingRises ==
  ASSUME NEW c \in Seq(Quotes), c # <<>>, NEW v \in Quotes, Last(c) < v,
         NEW avg \in Nat \ {0}, NEW lag \in Nat, Rising(c, avg, lag)
  PROVE  Rising(Moved(c, v), avg, lag)
<1>1. Len(c) \in Nat \ {0} /\ Len(Moved(c, v)) = Len(c) BY MovedShape
<1>2. PICK x \in Int : x = Last(c) /\ x < v
  <2>1. Last(c) \in Int BY MovedShape DEF Quotes
  <2> QED BY <2>1
<1>3. /\ Len(c) >= avg + lag
      /\ SumOf(LastOf(c, avg)) > SumOf(LastOf(Before(c, lag), avg))
  BY DEF Rising
<1>4. avg \in 1 .. Len(c) BY <1>1, <1>3
<1>5. PICK s \in Int : s = SumOf(LastOf(c, avg)) BY <1>4, SumMoved
<1>6. SumOf(LastOf(Moved(c, v), avg)) = s - x + v BY <1>2, <1>4, <1>5, SumMoved
<1>7. lag # 0
  <2> SUFFICES ASSUME lag = 0 PROVE FALSE OBVIOUS
  <2>1. Before(c, lag) = c
    <3>1. Len(c) - lag = Len(c) /\ SubSeq(c, 1, Len(c)) = c BY <1>1, SubSeqFull
    <3> QED BY <3>1 DEF Before
  <2> QED BY <1>3, <1>5, <2>1
<1>8. Before(Moved(c, v), lag) = Before(c, lag) BY <1>1, <1>3, <1>7, BeforeSame
<1>9. SumOf(LastOf(Before(c, lag), avg)) \in Int
  <2>1. PICK h \in Seq(Quotes) : h = Before(c, lag) /\ Len(h) = Len(c) - lag
    BY <1>1, <1>3, BeforeShape
  <2>2. avg \in 1 .. Len(h) /\ h # <<>> BY <1>1, <1>3, <2>1
  <2>3. SumOf(LastOf(h, avg)) \in Int BY <2>2, SumMoved
  <2> QED BY <2>1, <2>3
<1>10. v \in Int BY DEF Quotes
<1> QED BY <1>1, <1>2, <1>3, <1>5, <1>6, <1>8, <1>9, <1>10 DEF Rising

(* Whether the close is above its average depends on the last close alone: *)
(* so does the length of what is averaged.                                 *)
LEMMA VsAverageRises ==
  ASSUME NEW c \in Seq(Quotes), c # <<>>, NEW v \in Quotes, Last(c) < v,
         NEW avg \in Nat \ {0}, NEW lag \in Nat
  PROVE  /\ ScoreVsAverage(c, avg, lag) \in 0 .. 25
         /\ ScoreVsAverage(Moved(c, v), avg, lag) \in 0 .. 25
         /\ ScoreVsAverage(c, avg, lag) <= ScoreVsAverage(Moved(c, v), avg, lag)
<1>1. Len(Moved(c, v)) = Len(c) BY MovedShape
<1>2. Above(c, avg) => Above(Moved(c, v), avg) BY AboveRises
<1>3. Rising(c, avg, lag) => Rising(Moved(c, v), avg, lag) BY RisingRises
<1>4. PICK x : x = ScoreVsAverage(c, avg, lag) OBVIOUS
<1>5. PICK y : y = ScoreVsAverage(Moved(c, v), avg, lag) OBVIOUS
<1>6. x = IF Len(c) < avg THEN 12
          ELSE IF Above(c, avg) THEN IF Rising(c, avg, lag) THEN 25 ELSE 12
          ELSE IF Rising(c, avg, lag) THEN 8 ELSE 0
  BY <1>4 DEF ScoreVsAverage
<1>7. y = IF Len(c) < avg THEN 12
          ELSE IF Above(Moved(c, v), avg) THEN IF Rising(Moved(c, v), avg, lag) THEN 25 ELSE 12
          ELSE IF Rising(Moved(c, v), avg, lag) THEN 8 ELSE 0
  BY <1>1, <1>5 DEF ScoreVsAverage
<1>8. x \in 0 .. 25 /\ y \in 0 .. 25 /\ x <= y
  BY <1>2, <1>3, <1>6, <1>7
<1> QED BY <1>4, <1>5, <1>8

LEMMA MomentumRises ==
  ASSUME NEW c \in Seq(Quotes), c # <<>>, NEW v \in Quotes, Last(c) < v
  PROVE  /\ Momentum(c) \in 0 .. 25 /\ Momentum(Moved(c, v)) \in 0 .. 25
         /\ Momentum(c) <= Momentum(Moved(c, v))
<1>1. Len(c) \in Nat \ {0} /\ Len(Moved(c, v)) = Len(c) /\ Last(Moved(c, v)) = v
  BY MovedShape
<1>2. PICK x \in Int : x = Last(c) /\ x < v
  <2>1. Last(c) \in Int BY MovedShape DEF Quotes
  <2> QED BY <2>1
<1>3. v \in Int BY DEF Quotes
<1>4. MomentumLag \in Nat BY ReplayRanges
<1>5. CASE Len(c) <= MomentumLag BY <1>1, <1>5 DEF Momentum
<1>6. CASE Len(c) > MomentumLag
  <2>1. PICK i \in 1 .. Len(c) : i = Len(c) - MomentumLag
    <3>1. Len(c) - MomentumLag \in 1 .. Len(c) BY <1>1, <1>4, <1>6
    <3> QED BY <3>1
  <2>2. PICK t \in Nat \ {0} : t = c[i] BY <2>1 DEF Quotes
  <2>3. PICK u \in Nat \ {0} : u = Moved(c, v)[i]
    <3>1. Moved(c, v) \in Seq(Quotes) BY MovedShape
    <3> QED BY <1>1, <2>1, <3>1 DEF Quotes
  <2>4. (i = Len(c) /\ t = x /\ u = v) \/ u = t
    <3>1. /\ Last(c) = c[Len(c)] /\ Moved(c, v)[Len(c)] = v
          /\ \A j \in 1 .. Len(c) - 1 : Moved(c, v)[j] = c[j]
      BY MovedShape
    <3>2. i = Len(c) \/ i \in 1 .. Len(c) - 1 BY <1>1, <2>1
    <3> QED BY <1>2, <2>2, <2>3, <3>1, <3>2
  <2>5. PICK a \in Int : a = (x - t) * 100 BY <2>2
  <2>6. PICK b \in Int : b = (v - u) * 100 BY <1>3, <2>3
  <2>7. Momentum(c) = IF a > 10 * t THEN 25 ELSE IF a > 0 THEN 18
                      ELSE IF a > -10 * t THEN 8 ELSE 0
    <3>1. ~(Len(c) <= MomentumLag) BY <1>1, <1>4, <1>6
    <3>2. c[Len(c) - MomentumLag] = t BY <2>1, <2>2
    <3>3. Momentum(c) = LET change == (x - t) * 100 IN
             IF change > 10 * t THEN 25 ELSE IF change > 0 THEN 18
             ELSE IF change > -10 * t THEN 8 ELSE 0
      BY <1>2, <3>1, <3>2 DEF Momentum
    <3> QED BY <2>5, <3>3
  <2>8. Momentum(Moved(c, v)) = IF b > 10 * u THEN 25 ELSE IF b > 0 THEN 18
                      ELSE IF b > -10 * u THEN 8 ELSE 0
    <3>1. ~(Len(Moved(c, v)) <= MomentumLag) BY <1>1, <1>4, <1>6
    <3>2. Moved(c, v)[Len(Moved(c, v)) - MomentumLag] = u BY <1>1, <2>1, <2>3
    <3>3. Momentum(Moved(c, v)) = LET change == (v - u) * 100 IN
             IF change > 10 * u THEN 25 ELSE IF change > 0 THEN 18
             ELSE IF change > -10 * u THEN 8 ELSE 0
      BY <1>1, <3>1, <3>2 DEF Momentum
    <3> QED BY <2>6, <3>3
  <2>9. (a = 0 /\ b = 0) \/ (u = t /\ a <= b)
    BY <1>2, <1>3, <2>4, <2>5, <2>6
  <2> QED BY <2>7, <2>8, <2>9
<1> QED BY <1>1, <1>4, <1>5, <1>6

(* Rounding half to even keeps the order.                                  *)
LEMMA RoundEvenRises ==
  ASSUME NEW m \in Nat, NEW n \in Nat, m <= n, NEW den \in Nat \ {0}
  PROVE  /\ RoundEven(m, den) \in Nat /\ RoundEven(n, den) \in Nat
         /\ RoundEven(m, den) <= RoundEven(n, den)
<1>1. PICK a \in Nat : a = m \div den BY DivBounds
<1>2. PICK b \in Nat : b = n \div den BY DivBounds
<1>3. PICK x \in Int : x = a * den OBVIOUS
<1>4. PICK y \in Int : y = b * den OBVIOUS
<1>5. PICK p \in Int : p = 2 * (m - x) BY <1>3
<1>6. PICK q \in Int : q = 2 * (n - y) BY <1>4
<1>7. RoundEven(m, den) = IF p > den \/ (p = den /\ a % 2 = 1) THEN a + 1 ELSE a
  BY <1>1, <1>3, <1>5 DEF RoundEven
<1>8. RoundEven(n, den) = IF q > den \/ (q = den /\ b % 2 = 1) THEN b + 1 ELSE b
  BY <1>2, <1>4, <1>6 DEF RoundEven
<1>9. a <= b
  <2>1. den * a <= m /\ n < den * b + den BY <1>1, <1>2, DivBounds
  <2>2. den * (b + 1) = den * b + den /\ b + 1 \in Nat OBVIOUS
  <2>3. den * a \in Nat /\ den * b \in Nat OBVIOUS
  <2>4. den * a < den * (b + 1) BY <2>1, <2>2, <2>3
  <2>5. a < b + 1 BY <2>2, <2>4, FactorBelow
  <2> QED BY <2>5
<1>10. CASE a = b
  <2>1. x = y /\ p <= q BY <1>3, <1>4, <1>5, <1>6, <1>10
  <2> QED BY <1>7, <1>8, <1>10, <2>1
<1>11. CASE a < b
  <2>1. a + 1 <= b BY <1>11
  <2> QED BY <1>7, <1>8, <2>1
<1> QED BY <1>9, <1>10, <1>11

LEMMA RoundEvenWhole ==
  ASSUME NEW den \in Nat \ {0}
  PROVE  RoundEven(25 * den, den) = 25
<1>1. PICK n \in Nat : n = 25 * den OBVIOUS
<1>2. n \div den = 25
  <2>1. PICK k \in Nat : k = n \div den BY DivBounds
  <2>2. den * k <= n /\ n < den * k + den BY <2>1, DivBounds
  <2>3. den * k \in Nat /\ den * (k + 1) = den * k + den OBVIOUS
  <2>4. den * 25 = n BY <1>1
  <2>5. ~(k < 25)
    <3> SUFFICES ASSUME k < 25 PROVE FALSE OBVIOUS
    <3>1. den * (k + 1) <= den * 25 BY ProductRises
    <3> QED BY <2>2, <2>3, <2>4, <3>1
  <2>6. ~(26 <= k)
    <3> SUFFICES ASSUME 26 <= k PROVE FALSE OBVIOUS
    <3>1. den * 26 <= den * k BY ProductRises
    <3> QED BY <2>2, <2>3, <2>4, <3>1
  <2> QED BY <2>1, <2>5, <2>6
<1>3. 2 * (n - 25 * den) = 0 BY <1>1
<1> QED BY <1>1, <1>2, <1>3 DEF RoundEven

(* The averages of the other symbols stay as they are.                     *)
LEMMA BreadthRises ==
  ASSUME NEW h \in [Universe -> Seq(Quotes)], h[Anchor] # <<>>,
         NEW v \in Quotes, Last(h[Anchor]) < v,
         NEW g \in [Universe -> Seq(Quotes)], g[Anchor] = Moved(h[Anchor], v),
         \A s \in Universe \ {Anchor} : g[s] = h[s]
  PROVE  Breadth(h) \in 0 .. 25 /\ Breadth(g) \in 0 .. 25 /\ Breadth(h) <= Breadth(g)
<1> DEFINE rated == {s \in Universe : Len(h[s]) >= ShortAvg}
           low == {s \in rated : Above(h[s], ShortAvg)}
           high == {s \in rated : Above(g[s], ShortAvg)}
<1>1. Anchor \in Universe /\ IsFiniteSet(Universe) BY ReplayAssumption
<1>2. \A s \in Universe : Len(g[s]) = Len(h[s])
  <2>1. Len(g[Anchor]) = Len(h[Anchor]) BY <1>1, MovedShape
  <2> QED BY <2>1
<1>3. rated = {s \in Universe : Len(g[s]) >= ShortAvg} BY <1>2
<1>4. low \subseteq high
  <2>1. h[Anchor] \in Seq(Quotes) BY <1>1
  <2>2. Above(h[Anchor], ShortAvg) => Above(g[Anchor], ShortAvg)
    BY <2>1, AboveRises, ReplayRanges
  <2> QED BY <2>2
<1>5. high \subseteq rated /\ rated \subseteq Universe OBVIOUS
<1>6. Breadth(h) = IF rated = {} THEN 12 ELSE RoundEven(25 * Cardinality(low), Cardinality(rated))
  BY DEF Breadth
<1>7. Breadth(g) = IF rated = {} THEN 12 ELSE RoundEven(25 * Cardinality(high), Cardinality(rated))
  BY <1>3 DEF Breadth
<1> HIDE DEF rated, low, high
<1>8. CASE rated = {} BY <1>6, <1>7, <1>8
<1>9. CASE rated # {}
  <2>1. IsFiniteSet(rated) /\ IsFiniteSet(high) /\ IsFiniteSet(low)
    BY <1>1, <1>4, <1>5, FS_Subset
  <2>2. /\ Cardinality(low) <= Cardinality(high) /\ Cardinality(high) <= Cardinality(rated)
    BY <1>4, <1>5, <2>1, FS_Subset
  <2>3. PICK k \in Nat : k = Cardinality(low) BY <2>1, FS_CardinalityType
  <2>4. PICK m \in Nat : m = Cardinality(high) BY <2>1, FS_CardinalityType
  <2>5. PICK n \in Nat \ {0} : n = Cardinality(rated)
    BY <1>9, <2>1, FS_CardinalityType, FS_EmptySet
  <2>6. k <= m /\ m <= n BY <2>2, <2>3, <2>4, <2>5
  <2>7. PICK k1 \in Nat, m1 \in Nat, n1 \in Nat :
          /\ k1 = 25 * k /\ m1 = 25 * m /\ n1 = 25 * n
          /\ k1 <= m1 /\ m1 <= n1
    BY <2>6
  <2>8. RoundEven(n1, n) = 25 BY <2>7, RoundEvenWhole
  <2>9. /\ RoundEven(k1, n) \in Nat /\ RoundEven(m1, n) \in Nat
        /\ RoundEven(k1, n) <= RoundEven(m1, n)
    BY <2>7, RoundEvenRises
  <2>10. RoundEven(m1, n) <= RoundEven(n1, n) BY <2>7, RoundEvenRises
  <2>11. Breadth(h) = RoundEven(k1, n) /\ Breadth(g) = RoundEven(m1, n)
    BY <1>6, <1>7, <1>9, <2>3, <2>4, <2>5, <2>7
  <2>12. PICK a \in Nat : a = Breadth(h) /\ a = RoundEven(k1, n) BY <2>9, <2>11
  <2>13. PICK b \in Nat : b = Breadth(g) /\ b = RoundEven(m1, n) BY <2>9, <2>11
  <2>14. a <= b BY <2>9, <2>12, <2>13
  <2>15. b <= 25 BY <2>8, <2>10, <2>13
  <2>16. a \in 0 .. 25 /\ b \in 0 .. 25 BY <2>14, <2>15
  <2> QED BY <2>12, <2>13, <2>14, <2>16
<1> QED BY <1>8, <1>9

Eased(x, y) == x \in 0 .. 25 /\ y \in 0 .. 25 /\ x <= y

LEMMA EasedParts ==
  ASSUME NEW a, NEW b, NEW k, NEW l, NEW m, NEW n, NEW p, NEW q,
         Eased(a, b), Eased(k, l), Eased(m, n), Eased(p, q)
  PROVE  0 <= a + k + m + p /\ a + k + m + p <= b + l + n + q /\ b + l + n + q <= 100
BY DEF Eased

LEMMA ScoreRises ==
  ASSUME NEW h \in [Universe -> Seq(Quotes)], h[Anchor] # <<>>,
         NEW v \in Quotes, Last(h[Anchor]) < v,
         NEW g \in [Universe -> Seq(Quotes)], g[Anchor] = Moved(h[Anchor], v),
         \A s \in Universe \ {Anchor} : g[s] = h[s]
  PROVE  0 <= Score(h) /\ Score(h) <= Score(g) /\ Score(g) <= 100
<1>0. Anchor \in Universe BY ReplayAssumption
<1>1. PICK c \in Seq(Quotes) : c = h[Anchor] BY <1>0
<1>2. PICK d : d = Moved(c, v) OBVIOUS
<1>3. c # <<>> /\ Last(c) < v /\ g[Anchor] = d /\ Len(d) = Len(c)
  <2>1. c # <<>> /\ Last(c) < v BY <1>1
  <2>2. Len(Moved(c, v)) = Len(c) BY <2>1, MovedShape
  <2> QED BY <1>1, <1>2, <2>1, <2>2
<1>4. PICK a, b : /\ a = ScoreVsAverage(c, LongAvg, LongLag)
                  /\ b = ScoreVsAverage(d, LongAvg, LongLag) /\ Eased(a, b)
  BY <1>2, <1>3, VsAverageRises, ReplayRanges DEF Eased
<1>5. PICK k, l : /\ k = ScoreVsAverage(c, ShortAvg, ShortLag)
                  /\ l = ScoreVsAverage(d, ShortAvg, ShortLag) /\ Eased(k, l)
  BY <1>2, <1>3, VsAverageRises, ReplayRanges DEF Eased
<1>6. PICK m, n : m = Breadth(h) /\ n = Breadth(g) /\ Eased(m, n)
  BY BreadthRises DEF Eased
<1>7. PICK p, q : p = Momentum(c) /\ q = Momentum(d) /\ Eased(p, q)
  BY <1>2, <1>3, MomentumRises DEF Eased
<1>8. Score(h) = IF Len(c) < MinBars THEN 50 ELSE a + k + m + p
  BY <1>1, <1>4, <1>5, <1>6, <1>7 DEF Score
<1>9. Score(g) = IF Len(c) < MinBars THEN 50 ELSE b + l + n + q
  BY <1>3, <1>4, <1>5, <1>6, <1>7 DEF Score
<1>10. 0 <= a + k + m + p /\ a + k + m + p <= b + l + n + q /\ b + l + n + q <= 100
  BY <1>4, <1>5, <1>6, <1>7, EasedParts
<1>11. CASE Len(c) < MinBars BY <1>8, <1>9, <1>11
<1>12. CASE ~(Len(c) < MinBars) BY <1>8, <1>9, <1>10, <1>12
<1> QED BY <1>11, <1>12

(* The closes of every symbol are prices.                                  *)
ClosesTyped == closes \in [Universe -> Seq(Quotes)]

LEMMA ClosesStay == ClosesTyped /\ [Day]_replayVars => ClosesTyped'
<1> SUFFICES ASSUME ClosesTyped, [Day]_replayVars PROVE ClosesTyped' OBVIOUS
<1>1. CASE UNCHANGED replayVars BY <1>1 DEF ClosesTyped, replayVars
<1>2. CASE Day
  <2>1. PICK row \in [Universe -> UNION {Bars[s] : s \in Universe} \union {NoRow}] :
          /\ \A s \in Universe : row[s] \in Bars[s] \union {NoRow}
          /\ closes' = [s \in Universe |-> IF row[s] = NoRow THEN closes[s]
                                           ELSE Append(closes[s], row[s].close)]
    BY <1>2 DEF Day
  <2>2. ASSUME NEW s \in Universe PROVE closes'[s] \in Seq(Quotes)
    <3>1. CASE row[s] = NoRow BY <2>1, <3>1 DEF ClosesTyped
    <3>2. CASE row[s] # NoRow
      <4>1. PICK v \in Quotes : v = row[s].close BY <2>1, <3>2, BarShape DEF Quotes
      <4>2. closes'[s] = Append(closes[s], v) BY <2>1, <3>2, <4>1
      <4> QED BY <4>2 DEF ClosesTyped
    <3> QED BY <3>1, <3>2
  <2>3. closes' = [s \in Universe |-> closes'[s]] BY <2>1
  <2> QED BY <2>2, <2>3 DEF ClosesTyped
<1> QED BY <1>1, <1>2

(* Whatever the history: had the anchor closed higher today, the score     *)
(* would be no lower, and it stays within 0 and 100.                       *)
THEOREM ScoreEasesWithPrice == ReplaySpec => []ScoreFollowsPrice
<1>1. ReplayInit => ClosesTyped BY ReplayAssumption DEF ReplayInit, ClosesTyped, Quotes
<1>2. ClosesTyped => ScoreFollowsPrice
  <2> SUFFICES ASSUME ClosesTyped, closes[Anchor] # <<>>, NEW b \in Bars[Anchor],
                      b.close > Last(closes[Anchor])
               PROVE  LET other == [closes EXCEPT ![Anchor] = Append(Front(@), b.close)] IN
                      0 <= Score(closes) /\ Score(closes) <= Score(other) /\ Score(other) <= 100
    BY DEF ScoreFollowsPrice
  <2>1. Anchor \in Universe BY ReplayAssumption
  <2>2. PICK v \in Quotes : v = b.close BY <2>1, BarShape DEF Quotes
  <2>3. closes[Anchor] \in Seq(Quotes) BY <2>1 DEF ClosesTyped
  <2>4. Last(closes[Anchor]) < v
    <3>1. Last(closes[Anchor]) \in Int BY <2>2, <2>3, MovedShape DEF Quotes
    <3>2. v \in Int BY DEF Quotes
    <3> QED BY <2>2, <3>1, <3>2
  <2>5. PICK g : g = [closes EXCEPT ![Anchor] = Append(Front(@), b.close)] OBVIOUS
  <2>6. g[Anchor] = Moved(closes[Anchor], v) /\ \A s \in Universe \ {Anchor} : g[s] = closes[s]
    BY <2>1, <2>2, <2>5 DEF ClosesTyped, Moved
  <2>7. Moved(closes[Anchor], v) \in Seq(Quotes) BY <2>3, MovedShape
  <2>8. g \in [Universe -> Seq(Quotes)]
    <3>1. \A s \in Universe : g[s] \in Seq(Quotes) BY <2>6, <2>7 DEF ClosesTyped
    <3>2. g = [s \in Universe |-> g[s]] BY <2>5 DEF ClosesTyped
    <3> QED BY <3>1, <3>2
  <2>9. 0 <= Score(closes) /\ Score(closes) <= Score(g) /\ Score(g) <= 100
    BY <2>4, <2>6, <2>8, ScoreRises DEF ClosesTyped
  <2> QED BY <2>5, <2>9
<1> QED BY <1>1, <1>2, ClosesStay, PTL DEF ReplaySpec

-----------------------------------------------------------------------------
(* The report's drawdown.                                                  *)

Invested == [peak |-> 100 * InitialCash, worst |-> 0]

Worse(x, eq) ==
  LET peak == IF eq > x.peak THEN eq ELSE x.peak IN
  [peak |-> peak, worst |-> Max({x.worst, Fall(peak, eq)})]

\* The function FoldLeft computes with: it takes the last of what is left.
IsRun(g, c) ==
  g = [s \in SUBSET DOMAIN c |->
         IF s = {} THEN Invested ELSE Worse(g[s \ {Max(s)}], c[Max(s)])]

LEMMA SummarizedRun ==
  ASSUME NEW c
  PROVE  Summarized(c) = (CHOOSE g : IsRun(g, c))[DOMAIN c]
BY DEF Summarized, FoldLeft, MapThenFoldSet, IsRun, Invested, Worse

LEMMA MaxOfFinite ==
  ASSUME NEW s, s # {}, NEW n \in Nat, s \subseteq 1 .. n
  PROVE  Max(s) \in s
<1> DEFINE N == {k \in Nat : k <= n => (\E x \in s : x > k) \/ \E x \in s : \A y \in s : x >= y}
<1>1. 0 \in N
  <2>1. PICK x \in s : TRUE OBVIOUS
  <2>2. x > 0 BY <2>1
  <2> QED BY <2>2
<1>2. ASSUME NEW k \in N PROVE k + 1 \in N
  <2>1. k \in Nat OBVIOUS
  <2>2. SUFFICES ASSUME k + 1 <= n, ~\E x \in s : x > k + 1
                 PROVE \E x \in s : \A y \in s : x >= y
    BY <2>1
  <2>3. \A y \in s : y \in Int /\ y <= k + 1 BY <2>1, <2>2
  <2>4. CASE k + 1 \in s BY <2>3, <2>4
  <2>5. CASE k + 1 \notin s
    <3>1. \A y \in s : y <= k BY <2>1, <2>3, <2>5
    <3>2. k <= n BY <2>1, <2>2
    <3>3. ~\E x \in s : x > k BY <2>1, <2>3, <3>1
    <3> QED BY <3>2, <3>3
  <2> QED BY <2>4, <2>5
<1>3. n \in N
  <2> HIDE DEF N
  <2>1. N \in SUBSET Nat BY DEF N
  <2> QED BY <1>1, <1>2, <2>1, Induction
<1>4. \E x \in s : \A y \in s : x >= y BY <1>3
<1> QED BY <1>4 DEF Max

LEMMA MaxOfInterval ==
  ASSUME NEW n \in Nat \ {0}
  PROVE  Max(1 .. n) = n /\ (1 .. n) \ {n} = 1 .. n - 1
<1>1. n \in 1 .. n /\ \A y \in 1 .. n : n >= y OBVIOUS
<1>2. \A x \in 1 .. n : (\A y \in 1 .. n : x >= y) => x = n
  <2> SUFFICES ASSUME NEW x \in 1 .. n, x >= n PROVE x = n BY <1>1
  <2> QED OBVIOUS
<1>3. Max(1 .. n) = n BY <1>1, <1>2 DEF Max
<1> QED BY <1>3

LEMMA RunExists ==
  ASSUME NEW c \in Seq(Nat)
  PROVE  \E g : IsRun(g, c)
<1> DEFINE D == DOMAIN c
           Next(g) == [s \in SUBSET D |->
                         IF s = {} THEN Invested ELSE Worse(g[s \ {Max(s)}], c[Max(s)])]
           Right(g, n) == /\ g = [s \in SUBSET D |-> g[s]]
                          /\ \A s \in SUBSET D : Cardinality(s) <= n => g[s] = Next(g)[s]
           N == {n \in Nat : \E g : Right(g, n)}
<1>a. D = 1 .. Len(c) /\ Len(c) \in Nat OBVIOUS
<1>b. IsFiniteSet(D) BY <1>a, FS_Interval
<1>0. \A s \in SUBSET D : IsFiniteSet(s) /\ Cardinality(s) \in Nat
  <2> HIDE DEF D
  <2> QED BY <1>b, FS_Subset, FS_CardinalityType
<1>1. 0 \in N
  <2> DEFINE g == [s \in SUBSET D |-> Invested]
  <2>1. ASSUME NEW s \in SUBSET D, Cardinality(s) <= 0 PROVE g[s] = Next(g)[s]
    <3>1. s = {}
      <4> HIDE DEF D
      <4> QED BY <1>0, <2>1, FS_EmptySet
    <3> QED BY <3>1
  <2>2. g = [s \in SUBSET D |-> g[s]] OBVIOUS
  <2> HIDE DEF Next, g
  <2> QED BY <2>1, <2>2
<1>2. ASSUME NEW n \in N PROVE n + 1 \in N
  <2>1. n \in Nat OBVIOUS
  <2>2. PICK g : Right(g, n) OBVIOUS
  <2> DEFINE h == Next(g)
  <2>3. ASSUME NEW s \in SUBSET D, Cardinality(s) <= n PROVE h[s] = g[s]
    BY <2>2, <2>3
  <2>4. ASSUME NEW s \in SUBSET D, Cardinality(s) <= n + 1 PROVE h[s] = Next(h)[s]
    <3>1. CASE s = {} BY <3>1
    <3>2. CASE s # {}
      <4>1. Max(s) \in s
        <5> HIDE DEF D
        <5> QED BY <1>a, <3>2, MaxOfFinite
      <4>2. PICK t \in SUBSET D : t = s \ {Max(s)} OBVIOUS
      <4>3. Cardinality(t) = Cardinality(s) - 1
        <5> HIDE DEF D
        <5> QED BY <1>0, <4>1, <4>2, FS_RemoveElement
      <4>4. Cardinality(t) <= n BY <1>0, <2>1, <2>4, <4>3
      <4>5. h[t] = g[t] BY <2>3, <4>4
      <4>6. h[s] = Worse(g[t], c[Max(s)]) BY <3>2, <4>2
      <4>7. Next(h)[s] = Worse(h[t], c[Max(s)])
        <5> HIDE DEF h
        <5> QED BY <3>2, <4>2
      <4> QED BY <4>5, <4>6, <4>7
    <3> QED BY <3>1, <3>2
  <2>5. h = [s \in SUBSET D |-> h[s]] OBVIOUS
  <2> HIDE DEF h, Next
  <2>6. Right(h, n + 1) BY <2>4, <2>5
  <2>7. n + 1 \in Nat /\ \E u : Right(u, n + 1)
    <3> HIDE DEF Right
    <3> QED BY <2>1, <2>6
  <2> QED BY <2>7
<1>3. N = Nat
  <2> HIDE DEF Right
  <2>1. N \in SUBSET Nat OBVIOUS
  <2> HIDE DEF N
  <2> QED BY <1>1, <1>2, <2>1, Induction
<1>4. Cardinality(D) \in Nat BY <1>0
<1>5. PICK g : Right(g, Cardinality(D))
  <2> HIDE DEF Right, D
  <2> QED BY <1>3, <1>4
<1>6. ASSUME NEW s \in SUBSET D PROVE g[s] = Next(g)[s]
  <2>1. Cardinality(s) <= Cardinality(D)
    <3> HIDE DEF D
    <3> QED BY <1>b, FS_Subset
  <2> QED BY <1>5, <2>1
<1>7. g = Next(g)
  <2>1. g = [s \in SUBSET D |-> g[s]] BY <1>5
  <2>2. Next(g) = [s \in SUBSET D |-> Next(g)[s]] OBVIOUS
  <2> HIDE DEF Next
  <2> QED BY <1>6, <2>1, <2>2
<1> QED BY <1>7 DEF IsRun

(* What the report has added up after n days.                              *)
LEMMA RunSteps ==
  ASSUME NEW c \in Seq(Nat)
  PROVE  \E g : /\ Summarized(c) = g[1 .. Len(c)]
                /\ g[1 .. 0] = Invested
                /\ \A n \in 1 .. Len(c) : g[1 .. n] = Worse(g[1 .. n - 1], c[n])
<1>1. PICK g : g = CHOOSE h : IsRun(h, c) OBVIOUS
<1>2. IsRun(g, c) BY <1>1, RunExists
<1>3. DOMAIN c = 1 .. Len(c) /\ Len(c) \in Nat OBVIOUS
<1>4. Summarized(c) = g[1 .. Len(c)] BY <1>1, <1>3, SummarizedRun
<1>5. 1 .. 0 = {} OBVIOUS
<1>6. g[1 .. 0] = Invested BY <1>2, <1>5 DEF IsRun
<1>7. ASSUME NEW n \in 1 .. Len(c) PROVE g[1 .. n] = Worse(g[1 .. n - 1], c[n])
  <2>1. PICK s \in SUBSET DOMAIN c : s = 1 .. n BY <1>3
  <2>2. n \in Nat \ {0} BY <1>3
  <2>3. Max(s) = n /\ s \ {n} = 1 .. n - 1 BY <2>1, <2>2, MaxOfInterval
  <2>4. s # {} BY <2>1, <2>2
  <2>5. g[s] = Worse(g[s \ {Max(s)}], c[Max(s)]) BY <1>2, <2>4 DEF IsRun
  <2> QED BY <2>1, <2>3, <2>5
<1> QED BY <1>4, <1>6, <1>7

LEMMA MaxOfPair ==
  ASSUME NEW a \in Int, NEW b \in Int
  PROVE  Max({a, b}) = IF a >= b THEN a ELSE b
<1> DEFINE S == {a, b}
           m == IF a >= b THEN a ELSE b
<1>1. m \in S /\ \A y \in S : m >= y OBVIOUS
<1>2. \A x \in S : (\A y \in S : x >= y) => x = m OBVIOUS
<1>3. Max(S) = CHOOSE x \in S : \A y \in S : x >= y BY DEF Max
<1> QED BY <1>1, <1>2, <1>3

(* The same equity is no smaller a fall from a higher peak.                *)
LEMMA FallRises ==
  ASSUME NEW e \in Nat, NEW a \in Nat, NEW b \in Nat, a <= b, e <= b
  PROVE  /\ Fall(a, e) \in Int /\ Fall(b, e) \in Nat
         /\ Fall(a, e) <= Fall(b, e)
<1>1. CASE b = 0 BY <1>1 DEF Fall
<1>2. CASE b # 0
  <2>1. PICK n \in Nat : n = (b - e) * 10000
    <3>1. b - e \in Nat OBVIOUS
    <3> QED BY <3>1
  <2>2. PICK q \in Nat : q = n \div b /\ n < b * q + b BY <1>2, DivBounds
  <2>3. Fall(b, e) = q BY <1>2, <2>1, <2>2 DEF Fall
  <2>4. CASE a = 0 BY <2>3, <2>4 DEF Fall
  <2>5. CASE a # 0 /\ a < e
    <3>1. PICK k \in Int : k = (a - e) * 10000 /\ k < 0 BY <2>5
    <3>2. Fall(a, e) = k \div a BY <2>5, <3>1 DEF Fall
    <3>3. k \div a \in Int /\ k \div a <= 0 BY <2>5, <3>1
    <3> QED BY <2>3, <3>2, <3>3
  <2>6. CASE a # 0 /\ e <= a
    <3>1. PICK k \in Nat : k = (a - e) * 10000
      <4>1. a - e \in Nat BY <2>6
      <4> QED BY <4>1
    <3>2. PICK p \in Nat : p = k \div a /\ a * p <= k BY <2>6, DivBounds
    <3>3. Fall(a, e) = p BY <2>6, <3>1, <3>2 DEF Fall
    <3>4. p <= 10000
      <4>1. k <= a * 10000 BY <2>6, <3>1
      <4>2. a * 10001 = a * 10000 + a OBVIOUS
      <4>3. a * p < a * 10001
        <5>1. a * p \in Nat OBVIOUS
        <5> QED BY <2>6, <3>2, <4>1, <4>2, <5>1
      <4>4. p < 10001 BY <2>6, <4>3, FactorBelow
      <4> QED BY <4>4
    <3>5. PICK d \in Nat : b = a + d
      <4>1. b - a \in Nat /\ b = a + (b - a) OBVIOUS
      <4> QED BY <4>1
    <3>6. d * p \in Nat /\ d * p <= d * 10000 BY <3>4, ProductRises
    <3>7. PICK x \in Nat, y \in Nat : x = a * p /\ y = d * p BY <3>6
    <3>8. b * p = x + y BY <3>5, <3>7
    <3>9. n = k + d * 10000 BY <2>1, <3>1, <3>5
    <3>10. b * p <= n BY <3>2, <3>6, <3>7, <3>8, <3>9
    <3>11. b * p < b * (q + 1)
      <4>1. b * (q + 1) = b * q + b OBVIOUS
      <4>2. b * p \in Nat /\ b * q \in Nat OBVIOUS
      <4> QED BY <2>2, <3>10, <4>1, <4>2
    <3>12. p < q + 1 BY <1>2, <3>11, FactorBelow
    <3> QED BY <2>3, <3>3, <3>12
  <2> QED BY <2>4, <2>5, <2>6
<1> QED BY <1>1, <1>2

(* The points the drawdown is measured between: the money put in and the   *)
(* curve.                                                                  *)
Point(c, i) == IF i = 1 THEN 100 * InitialCash ELSE c[i - 1]

\* x has the peak of the first n points and the worst fall between two of them.
Tells(x, c, n) ==
  /\ x.peak \in Nat /\ \E i \in 1 .. n : x.peak = Point(c, i)
  /\ \A i \in 1 .. n : Point(c, i) <= x.peak
  /\ x.worst \in Nat
  /\ \A j \in 1 .. n : \A i \in 1 .. j - 1 : Fall(Point(c, i), Point(c, j)) <= x.worst
  /\ x.worst = 0 \/ \E j \in 1 .. n : \E i \in 1 .. j - 1 : x.worst = Fall(Point(c, i), Point(c, j))

LEMMA PointNat ==
  ASSUME NEW c \in Seq(Nat), NEW i \in 1 .. Len(c) + 1
  PROVE  Point(c, i) \in Nat
<1>1. InitialCash \in Nat BY ReplayAssumption
<1>2. CASE i = 1 BY <1>1, <1>2 DEF Point
<1>3. CASE i # 1
  <2>1. i - 1 \in 1 .. Len(c) BY <1>3
  <2>2. c[i - 1] \in Nat BY <2>1
  <2> QED BY <1>3, <2>2 DEF Point
<1> QED BY <1>2, <1>3

(* Another point: measuring it from the highest so far misses nothing.     *)
LEMMA WorseTells ==
  ASSUME NEW c \in Seq(Nat), NEW n \in 1 .. Len(c), NEW x, Tells(x, c, n)
  PROVE  Tells(Worse(x, c[n]), c, n + 1)
<1>0. n \in Nat \ {0} /\ n <= Len(c) /\ Len(c) \in Nat OBVIOUS
<1>1. PICK e \in Nat : e = c[n] OBVIOUS
<1>2. Point(c, n + 1) = e BY <1>0, <1>1 DEF Point
<1>3. PICK p \in Nat : p = x.peak BY DEF Tells
<1>4. PICK w \in Nat : w = x.worst BY DEF Tells
<1>5. PICK peak \in Nat : peak = IF e > p THEN e ELSE p OBVIOUS
<1>6. p <= peak /\ e <= peak /\ peak \in {e, p} BY <1>5
<1>7. Fall(peak, e) \in Nat BY <1>6, FallRises
<1>8. PICK f \in Nat : f = Fall(peak, e) BY <1>7
<1>9. PICK worst \in Nat : worst = IF w >= f THEN w ELSE f OBVIOUS
<1>10. PICK y : y = Worse(x, c[n]) OBVIOUS
<1>11. y.peak = peak /\ y.worst = worst
  <2>1. y = [peak |-> peak, worst |-> Max({w, f})]
    BY <1>1, <1>3, <1>4, <1>5, <1>8, <1>10 DEF Worse
  <2>2. Max({w, f}) = worst BY <1>9, MaxOfPair
  <2> QED BY <2>1, <2>2
<1>12. \A i \in 1 .. n : Point(c, i) \in Nat /\ Point(c, i) <= p
  <2>1. \A i \in 1 .. n : i \in 1 .. Len(c) + 1 BY <1>0
  <2> QED BY <1>3, <2>1, PointNat DEF Tells
<1>13. \E i \in 1 .. n + 1 : peak = Point(c, i)
  <2>1. CASE e > p
    <3>1. n + 1 \in 1 .. n + 1 BY <1>0
    <3> QED BY <1>2, <1>5, <2>1, <3>1
  <2>2. CASE ~(e > p)
    <3>1. PICK i \in 1 .. n : p = Point(c, i) BY <1>3 DEF Tells
    <3>2. i \in 1 .. n + 1 BY <1>0
    <3> QED BY <1>5, <2>2, <3>1, <3>2
  <2> QED BY <2>1, <2>2
<1>14. \A i \in 1 .. n + 1 : Point(c, i) <= peak
  <2> SUFFICES ASSUME NEW i \in 1 .. n + 1 PROVE Point(c, i) <= peak OBVIOUS
  <2>1. CASE i = n + 1 BY <1>2, <1>6, <2>1
  <2>2. CASE i # n + 1
    <3>1. i \in 1 .. n BY <1>0, <2>2
    <3> QED BY <1>6, <1>12, <3>1
  <2> QED BY <2>1, <2>2
<1>15. ASSUME NEW j \in 1 .. n + 1, NEW i \in 1 .. j - 1
       PROVE  Fall(Point(c, i), Point(c, j)) <= worst
  <2>1. CASE j = n + 1
    <3>1. i \in 1 .. n BY <1>0, <2>1
    <3>2. PICK a \in Nat : a = Point(c, i) /\ a <= peak BY <1>6, <1>12, <3>1
    <3>3. Fall(a, e) \in Int /\ Fall(a, e) <= f BY <1>6, <1>8, <3>2, FallRises
    <3> QED BY <1>2, <1>9, <2>1, <3>2, <3>3
  <2>2. CASE j # n + 1
    <3>1. j \in 1 .. n BY <1>0, <2>2
    <3>2. PICK a \in Nat : a = Point(c, i) /\ a <= p
      <4>1. i \in 1 .. n BY <1>0, <3>1
      <4> QED BY <1>12, <4>1
    <3>3. PICK b \in Nat : b = Point(c, j) BY <1>12, <3>1
    <3>4. Fall(a, b) <= w BY <1>4, <3>1, <3>2, <3>3 DEF Tells
    <3>5. Fall(a, b) \in Int
      <4>1. CASE a = 0 BY <4>1 DEF Fall
      <4>2. CASE a # 0 BY <4>2 DEF Fall
      <4> QED BY <4>1, <4>2
    <3> QED BY <1>9, <3>2, <3>3, <3>4, <3>5
  <2> QED BY <2>1, <2>2
<1>16. worst = 0 \/ \E j \in 1 .. n + 1 : \E i \in 1 .. j - 1 :
                      worst = Fall(Point(c, i), Point(c, j))
  <2>1. CASE worst = w
    <3>1. CASE w = 0 BY <2>1, <3>1
    <3>2. CASE w # 0
      <4>1. PICK j \in 1 .. n : \E i \in 1 .. j - 1 : w = Fall(Point(c, i), Point(c, j))
        BY <1>4, <3>2 DEF Tells
      <4>2. j \in 1 .. n + 1 BY <1>0
      <4> QED BY <2>1, <4>1, <4>2
    <3> QED BY <3>1, <3>2
  <2>2. CASE worst = f /\ e > p
    <3>1. peak = e /\ e # 0 BY <1>5, <2>2
    <3>2. Fall(e, e) = 0
      <4>1. (e - e) * 10000 = 0 OBVIOUS
      <4>2. 0 \div e = 0 BY <3>1
      <4> QED BY <4>1, <4>2 DEF Fall
    <3> QED BY <1>8, <2>2, <3>1, <3>2
  <2>3. CASE worst = f /\ ~(e > p)
    <3>1. peak = p BY <1>5, <2>3
    <3>2. PICK i \in 1 .. n : p = Point(c, i) BY <1>3 DEF Tells
    <3>3. n + 1 \in 1 .. n + 1 /\ i \in 1 .. (n + 1) - 1 BY <1>0
    <3>4. worst = Fall(Point(c, i), Point(c, n + 1)) BY <1>2, <1>8, <2>3, <3>1, <3>2
    <3> QED BY <3>3, <3>4
  <2> QED BY <1>9, <2>1, <2>2, <2>3
<1> QED BY <1>10, <1>11, <1>13, <1>14, <1>15, <1>16 DEF Tells

LEMMA SummaryTells ==
  ASSUME NEW c \in Seq(Nat)
  PROVE  Tells(Summarized(c), c, Len(c) + 1)
<1>1. PICK g : /\ Summarized(c) = g[1 .. Len(c)]
               /\ g[1 .. 0] = Invested
               /\ \A n \in 1 .. Len(c) : g[1 .. n] = Worse(g[1 .. n - 1], c[n])
  BY RunSteps
<1> DEFINE N == {n \in Nat : n <= Len(c) => Tells(g[1 .. n], c, n + 1)}
<1>2. 0 \in N
  <2>1. Invested.peak = 100 * InitialCash /\ Invested.worst = 0 BY DEF Invested
  <2>2. Point(c, 1) = 100 * InitialCash /\ 100 * InitialCash \in Nat
    BY ReplayAssumption DEF Point
  <2>3. PICK x : x = Invested OBVIOUS
  <2>4. x.peak = Point(c, 1) /\ x.peak \in Nat /\ x.worst = 0 BY <2>1, <2>2, <2>3
  <2>5. \A i \in 1 .. 1 : i = 1 OBVIOUS
  <2>6. \A j \in 1 .. 1 : \A i \in 1 .. j - 1 : FALSE OBVIOUS
  <2>7. Tells(x, c, 1)
    <3>1. 1 \in 1 .. 1 OBVIOUS
    <3>2. \A i \in 1 .. 1 : Point(c, i) <= x.peak BY <2>4, <2>5
    <3> QED BY <2>4, <2>6, <3>1, <3>2 DEF Tells
  <2>8. Tells(g[1 .. 0], c, 0 + 1) BY <1>1, <2>3, <2>7
  <2> QED BY <2>8
<1>3. ASSUME NEW n \in N PROVE n + 1 \in N
  <2>1. n \in Nat /\ Len(c) \in Nat OBVIOUS
  <2> SUFFICES ASSUME n + 1 <= Len(c) PROVE Tells(g[1 .. n + 1], c, n + 1 + 1) BY <2>1
  <2>2. n + 1 \in 1 .. Len(c) /\ n + 1 - 1 = n BY <2>1
  <2>3. Tells(g[1 .. n], c, n + 1) BY <2>1
  <2>4. g[1 .. n + 1] = Worse(g[1 .. n], c[n + 1]) BY <1>1, <2>2
  <2> HIDE DEF N
  <2> QED BY <2>2, <2>3, <2>4, WorseTells
<1>4. N = Nat
  <2>1. N \in SUBSET Nat OBVIOUS
  <2> HIDE DEF N
  <2> QED BY <1>2, <1>3, <2>1, Induction
<1>5. Len(c) \in Nat OBVIOUS
<1> QED BY <1>1, <1>4, <1>5

(* The falls between two points, as the property names them.               *)
LEMMA WorstOfAll ==
  ASSUME NEW c \in Seq(Nat)
  PROVE  LET points == <<100 * InitialCash>> \o c IN
         Summarized(c).worst =
           Max({0} \union UNION {{Fall(points[i], points[j]) : j \in i + 1 .. Len(points)} :
                                  i \in DOMAIN points})
<1> DEFINE points == <<100 * InitialCash>> \o c
           F == {0} \union UNION {{Fall(points[i], points[j]) : j \in i + 1 .. Len(points)} :
                                  i \in DOMAIN points}
<1>1. PICK n \in Nat \ {0} : n = Len(c) + 1
  <2>1. Len(c) + 1 \in Nat \ {0} OBVIOUS
  <2> QED BY <2>1
<1>2. Len(points) = n /\ DOMAIN points = 1 .. n /\ \A i \in 1 .. n : points[i] = Point(c, i)
  <2>1. PICK a \in Seq(Nat) : a = <<100 * InitialCash>> /\ Len(a) = 1 /\ a[1] = 100 * InitialCash
    <3>1. PICK m \in Nat : m = 100 * InitialCash
      <4>1. InitialCash \in Nat BY ReplayAssumption
      <4> QED BY <4>1
    <3>2. <<m>> \in Seq(Nat) /\ Len(<<m>>) = 1 /\ <<m>>[1] = m OBVIOUS
    <3> QED BY <3>1, <3>2
  <2>2. PICK s \in Seq(Nat) : s = a \o c BY ConcatProperties
  <2>3. Len(s) = n /\ \A i \in 1 .. n : s[i] = IF i <= 1 THEN a[i] ELSE c[i - 1]
    <3>1. /\ Len(a \o c) = Len(a) + Len(c)
          /\ \A i \in 1 .. Len(a) + Len(c) :
               (a \o c)[i] = IF i <= Len(a) THEN a[i] ELSE c[i - Len(a)]
      BY ConcatProperties
    <3>2. Len(a) + Len(c) = n BY <1>1, <2>1
    <3> QED BY <2>1, <2>2, <3>1, <3>2
  <2>4. ASSUME NEW i \in 1 .. n PROVE s[i] = Point(c, i)
    <3>1. i <= 1 <=> i = 1 OBVIOUS
    <3> QED BY <2>1, <2>3, <3>1 DEF Point
  <2>5. points = s BY <2>1, <2>2
  <2> HIDE DEF points
  <2> QED BY <2>3, <2>4, <2>5
<1> HIDE DEF points
<1>3. PICK x : x = Summarized(c) OBVIOUS
<1>4. Tells(x, c, n) BY <1>1, <1>3, SummaryTells
<1>5. PICK w \in Nat : w = x.worst BY <1>4 DEF Tells
<1>6. ASSUME NEW v \in F PROVE v \in Int /\ w >= v
  <2>1. CASE v = 0 BY <2>1
  <2>2. CASE v # 0
    <3>1. PICK i \in DOMAIN points : v \in {Fall(points[i], points[j]) : j \in i + 1 .. Len(points)}
      BY <2>2
    <3>2. PICK j \in i + 1 .. Len(points) : v = Fall(points[i], points[j]) BY <3>1
    <3>3. i \in 1 .. n BY <1>2, <3>1
    <3>4. j \in 1 .. n /\ i \in 1 .. j - 1 BY <1>2, <3>2, <3>3
    <3>5. v = Fall(Point(c, i), Point(c, j)) BY <1>2, <3>2, <3>3, <3>4
    <3>6. v <= w BY <1>4, <1>5, <3>4, <3>5 DEF Tells
    <3>7. v \in Int
      <4>1. Point(c, i) \in Nat /\ Point(c, j) \in Nat BY <1>1, <3>3, <3>4, PointNat
      <4>2. PICK a \in Nat, b \in Nat : a = Point(c, i) /\ b = Point(c, j) BY <4>1
      <4>3. CASE a = 0 BY <3>5, <4>2, <4>3 DEF Fall
      <4>4. CASE a # 0 BY <3>5, <4>2, <4>4 DEF Fall
      <4> QED BY <4>3, <4>4
    <3> QED BY <3>6, <3>7
  <2> QED BY <2>1, <2>2
<1>7. w \in F
  <2>1. CASE w = 0 BY <2>1
  <2>2. CASE w # 0
    <3>1. PICK j \in 1 .. n : \E i \in 1 .. j - 1 : w = Fall(Point(c, i), Point(c, j))
      BY <1>4, <1>5, <2>2 DEF Tells
    <3>2. PICK i \in 1 .. j - 1 : w = Fall(Point(c, i), Point(c, j)) BY <3>1
    <3>3. i \in 1 .. n /\ j \in i + 1 .. n BY <3>1, <3>2
    <3>4. w = Fall(points[i], points[j]) BY <1>2, <3>1, <3>2, <3>3
    <3>5. i \in DOMAIN points /\ j \in i + 1 .. Len(points) BY <1>2, <3>3
    <3>6. w \in {Fall(points[i], points[k]) : k \in i + 1 .. Len(points)} BY <3>4, <3>5
    <3> QED BY <3>5, <3>6
  <2> QED BY <2>1, <2>2
<1> HIDE DEF F
<1>8. ASSUME NEW v \in F, \A u \in F : v >= u PROVE v = w
  <2>1. v \in Int /\ v >= w /\ w >= v BY <1>6, <1>7, <1>8
  <2> QED BY <2>1
<1>9. Max(F) = w BY <1>6, <1>7, <1>8 DEF Max
<1> QED BY <1>3, <1>5, <1>9 DEF points, F

-----------------------------------------------------------------------------
(* The money is never negative, if a position may take at most half of it: *)
(* rounding its size up adds less than another half.                       *)

LEMMA PurchaseAfforded ==
  ASSUME MaxPositionPct <= 50, NEW m \in Nat, NEW score, NEW c \in Nat \ {0},
         NEW q \in Nat \ {0}, q = Size(m, score, c)
  PROVE  100 * q * c \in Nat /\ 100 * q * c <= m
<1>1. PICK e \in Nat : e = Budget(m, score) /\ e <= 5000 * m
  <2>1. PICK p \in 0 .. 50 : p = MaxPositionPct BY GateAssumption
  <2>2. PICK x \in 0 .. 100 : x = Exposure(score)
    <3>1. Exposure(score) \in 0 .. 100 BY GateAssumption DEF Exposure
    <3> QED BY <3>1
  <2>3. m * p \in Nat /\ m * p <= m * 50 BY ProductRises
  <2>4. PICK y \in Nat : y = m * p BY <2>3
  <2>5. y * x \in Nat /\ (m * 50) * 100 \in Nat /\ y * x <= (m * 50) * 100
    BY <2>3, <2>4, ProductRises
  <2> QED BY <2>1, <2>2, <2>4, <2>5 DEF Budget
<1>2. PICK den \in Nat \ {0} : den = c * 1000000
  <2>1. c * 1000000 \in Nat \ {0} OBVIOUS
  <2> QED BY <2>1
<1>3. PICK n \in Nat : n = 2 * e + den OBVIOUS
<1>4. PICK d \in Nat \ {0} : d = 2 * den BY <1>2
<1>5. q = n \div d BY <1>1, <1>2, <1>3, <1>4 DEF Size, Nearest
<1>6. d * q <= n BY <1>5, DivBounds
<1>7. den * 1 <= den * q /\ den * q \in Nat BY ProductRises
<1>8. PICK k \in Nat : k = den * q BY <1>7
<1>9. d * q = 2 * k BY <1>4, <1>8
<1>10. k <= 2 * e BY <1>3, <1>6, <1>7, <1>8, <1>9
<1>11. PICK z \in Nat : z = c * q OBVIOUS
<1>12. k = 1000000 * z BY <1>2, <1>8, <1>11
<1>13. 100 * z <= m BY <1>1, <1>10, <1>12
<1>14. 100 * q * c = 100 * z BY <1>11
<1> QED BY <1>13, <1>14

MoneyInv == ReplayInv /\ cash \in Nat /\ curve \in Seq(Nat)

LEMMA MoneyNat ==
  ASSUME ReplayInv, cash \in Nat, NEW bar \in Bars[position.symbol] \union {NoRow}
  PROVE  Money(bar) \in Nat
<1>1. CASE ~StopHit(position, bar) BY <1>1 DEF Money
<1>2. CASE StopHit(position, bar)
  <2>1. PICK h \in Nat : h = Peak(position, bar) BY <1>2, HitShape
  <2>2. PICK k \in Nat : k = 100 - StopPct
    <3>1. 100 - StopPct \in Nat BY StopRange
    <3> QED BY <3>1
  <2>3. PICK f \in Nat : f = FillPrice(position, bar)
    <3>1. h * k \in Nat OBVIOUS
    <3> QED BY <2>1, <2>2, <3>1 DEF FillPrice, Trigger
  <2>4. PICK q \in Nat : q = position.qty BY DEF ReplayInv, Positions
  <2>5. q * f \in Nat OBVIOUS
  <2>6. Money(bar) = cash + q * f BY <1>2, <2>3, <2>4 DEF Money
  <2> QED BY <2>5, <2>6
<1> QED BY <1>1, <1>2

LEMMA CashStays ==
  ASSUME MaxPositionPct <= 50, ReplayInv, cash \in Nat,
         NEW row, NEW bar \in Bars[position.symbol] \union {NoRow}, NEW history, NEW score,
         \A s \in Universe : row[s] \in Bars[s] \union {NoRow},
         Buys(row, bar, history, score) \/ Stays(row, bar, history, score)
  PROVE  cash' \in Nat
<1>1. PICK m \in Nat : m = Money(bar) BY MoneyNat
<1>2. CASE Stays(row, bar, history, score) BY <1>1, <1>2 DEF Stays
<1>3. CASE Buys(row, bar, history, score)
  <2>1. PICK s \in Universe :
          /\ row[s] # NoRow
          /\ Size(m, score, row[s].close) > 0
          /\ cash' = m - 100 * Size(m, score, row[s].close) * row[s].close
    BY <1>1, <1>3 DEF Buys, BestOf
  <2>2. PICK c \in Nat \ {0} : c = row[s].close BY <2>1, BarShape
  <2>3. PICK q \in Nat \ {0} : q = Size(m, score, c)
    <3>1. Size(m, score, c) \in Int BY SizeWhole
    <3> QED BY <2>1, <2>2, <3>1
  <2>4. PICK z \in Nat : z = 100 * q * c /\ z <= m BY <2>3, PurchaseAfforded
  <2>5. cash' = m - z BY <2>1, <2>2, <2>3, <2>4
  <2> QED BY <2>4, <2>5
<1> QED BY <1>2, <1>3

LEMMA MoneyKeeps == ASSUME MaxPositionPct <= 50, MoneyInv, Day PROVE MoneyInv'
<1>1. ReplayInv' BY DayKeeps DEF MoneyInv
<1>2. PICK row \in [Universe -> UNION {Bars[s] : s \in Universe} \union {NoRow}] :
        /\ \A s \in Universe : row[s] \in Bars[s] \union {NoRow}
        /\ curve' = Append(curve, Equity(cash', position', row))
        /\ \E history, score :
             \/ Buys(row, row[position.symbol], history, score)
             \/ Stays(row, row[position.symbol], history, score)
  BY DEF Day
<1>3. PICK history, score :
        \/ Buys(row, row[position.symbol], history, score)
        \/ Stays(row, row[position.symbol], history, score)
  BY <1>2
<1>4. row[position.symbol] \in Bars[position.symbol] \union {NoRow}
  BY <1>2 DEF MoneyInv, ReplayInv, Positions
<1>5. cash' \in Nat BY <1>2, <1>3, <1>4, CashStays DEF MoneyInv
<1>6. position'.qty \in Nat /\ position'.symbol \in Universe BY <1>1 DEF ReplayInv, Positions
<1>7. PICK p \in Nat : p = row[position'.symbol].close
  <2>1. row[position'.symbol] \in Bars[position'.symbol] \union {NoRow} BY <1>2, <1>6
  <2>2. NoRow.close = 0 BY DEF NoRow
  <2>3. row[position'.symbol].close \in Nat BY <1>6, <2>1, <2>2, BarShape
  <2> QED BY <2>3
<1>8. PICK q \in Nat : q = position'.qty BY <1>6
<1>9. PICK z \in Nat : z = 100 * q * p
  <2>1. 100 * q * p \in Nat OBVIOUS
  <2> QED BY <2>1
<1>10. PICK m \in Nat : m = cash' BY <1>5
<1>11. PICK e \in Nat : e = Equity(cash', position', row)
  <2>1. Equity(cash', position', row) = m + z BY <1>7, <1>8, <1>9, <1>10 DEF Equity
  <2>2. m + z \in Nat OBVIOUS
  <2> QED BY <2>1, <2>2
<1>12. curve' \in Seq(Nat) BY <1>2, <1>11 DEF MoneyInv
<1> QED BY <1>1, <1>5, <1>12 DEF MoneyInv

(* Whatever the bars, while a position takes at most half of the money:    *)
(* the report's drawdown, which it adds up in one pass, is the worst fall  *)
(* between any two points of the curve.                                    *)
THEOREM ReportedDrawdownIsWorst ==
  ASSUME MaxPositionPct <= 50 PROVE ReplaySpec => []DrawdownIsWorst
<1>1. ReplayInit => MoneyInv
  <2> SUFFICES ASSUME ReplayInit PROVE MoneyInv OBVIOUS
  <2>1. InitialCash \in Nat BY ReplayAssumption
  <2>2. cash \in Nat /\ curve \in Seq(Nat) BY <2>1 DEF ReplayInit
  <2> QED BY <2>2, ReplayInitial DEF MoneyInv
<1>2. MoneyInv /\ [Day]_replayVars => MoneyInv'
  <2>1. ASSUME MoneyInv, UNCHANGED replayVars PROVE MoneyInv'
    BY <2>1 DEF MoneyInv, ReplayInv, replayVars, Holding
  <2> QED BY <2>1, MoneyKeeps
<1>3. MoneyInv => DrawdownIsWorst BY WorstOfAll DEF MoneyInv, DrawdownIsWorst
<1> QED BY <1>1, <1>2, <1>3, PTL DEF ReplaySpec
=============================================================================
