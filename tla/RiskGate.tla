------------------------------ MODULE RiskGate ------------------------------
(***************************************************************************)
(* The checks a proposal passes before it may become an order:             *)
(* market_regime.exposure_multiplier and risk.validate_proposal, as pure   *)
(* operators.                                                              *)
(*                                                                         *)
(* Quantities count the smallest fraction that can be traded, Lot of which *)
(* make a share (10^6 in the code: round(qty, 6)).  Money counts the price *)
(* of such a fraction, so that cost is quantity times price.               *)
(***************************************************************************)
EXTENDS Integers

CONSTANTS
  Lot,
  MaxPositionPct, MaxDailyLossPct,
  DayTradeLimit,       \* pdt_day_trade_limit
  DayTradeBalance,     \* ... below this balance (25000)
  RiskOn, RiskOff,     \* regime thresholds
  NeutralPct           \* regime_neutral_multiplier

ASSUME GateAssumption ==
  /\ Lot \in Nat \ {0} /\ DayTradeLimit \in Nat /\ DayTradeBalance \in Int
  /\ RiskOn \in Int /\ RiskOff \in Int
  /\ {MaxPositionPct, MaxDailyLossPct, NeutralPct} \subseteq 0 .. 100

\* num / den to the nearest unit
Nearest(num, den) == (2 * num + den) \div (2 * den)

Whole(q) == (q \div Lot) * Lot

\* exposure_multiplier, in per cent
Exposure(score) ==
  IF score >= RiskOn THEN 100 ELSE IF score >= RiskOff THEN NeutralPct ELSE 0

\* the budget for one order, times 10^4: balance * max_position_pct * multiplier
Budget(bal, score) == bal * MaxPositionPct * Exposure(score)

\* Mutant of TooLarge: the quantity is compared, not what it costs.
TooMany(p, bal) == p.side = "buy" /\ p.qty * 10000 > Budget(bal, p.score)

\* check 3.  p is a proposal [side, qty, stop, price, claimed, dip, score]
TooLarge(p, bal) == p.side = "buy" /\ p.qty * p.price * 10000 > Budget(bal, p.score)

\* ... and what it is cut down to: to the nearest fraction, or down to whole shares
Fitting(p, bal, fractions) ==
  IF fractions THEN Nearest(Budget(bal, p.score), p.price * 10000)
  ELSE Whole(Budget(bal, p.score) \div (p.price * 10000))

\* check 4
LossHalted(pnl, bal) == pnl * 100 < -bal * MaxDailyLossPct

\* check 5
DayTraded(crypto, fills, bal) == ~crypto /\ fills >= DayTradeLimit /\ bal < DayTradeBalance

\* risk.validate_proposal.  An order that is cut down is approved on the spot: only
\* one that fits goes on to the daily loss and day-trade checks, buy or sell.
Approved(p, bal, pnl, fills, crypto, fractions) ==
  /\ p.side = "buy" => p.stop > 0 /\ ~p.claimed /\ (crypto => p.dip)
  /\ \/ TooLarge(p, bal) /\ Fitting(p, bal, fractions) > 0
     \/ /\ ~TooLarge(p, bal)
        /\ ~LossHalted(pnl, bal)
        /\ ~DayTraded(crypto, fills, bal)
        /\ p.side = "buy" /\ ~fractions => Whole(p.qty) > 0

\* the quantity it approves
Sized(p, bal, fractions) ==
  IF TooLarge(p, bal) THEN Fitting(p, bal, fractions)
  ELSE IF fractions \/ p.side = "sell" THEN p.qty ELSE Whole(p.qty)
=============================================================================
