---------------------------- MODULE TrailingStop ----------------------------
(***************************************************************************)
(* One agent and one symbol: the life of a position from the proposal that *)
(* RiskGate lets through to the exit that app.enforce_exits makes, with    *)
(* the row of the positions table (db.apply_fill_to_position,              *)
(* db.update_high_water_mark, db.set_position_qty) and the stop computed   *)
(* from it (app.compute_stop).                                             *)
(*                                                                         *)
(* Orders fill at once and are booked in one step: how the booking of a    *)
(* fill interleaves with everything else is OrderLedger's and ExitLedger's.*)
(***************************************************************************)
EXTENDS RiskGate, FiniteSetsExt

CONSTANTS
  Prices, Quantities, Stops, Scores,   \* what may be quoted and proposed
  StartCash,
  StopPct, CryptoStopPct,              \* default_stop_loss_pct, crypto_stop_loss_pct
  TakePct, CryptoTakePct,
  LockTrigger, LockPct,                \* crypto_profit_lock_trigger_usd, ..._stop_pct
  MaxOrders, MaxDrifts                 \* bounds: proposals filled, quantities trued up

ASSUME StopAssumption ==
  /\ Prices \subseteq Nat \ {0} /\ Quantities \subseteq Nat \ {0}
  /\ Stops \subseteq 0 .. 100 /\ Scores \subseteq Nat
  /\ {StartCash, TakePct, CryptoTakePct, LockTrigger, MaxOrders,
     MaxDrifts} \subseteq Nat
  /\ {StopPct, CryptoStopPct, LockPct} \subseteq 1 .. 100

VARIABLES
  asset,    \* crypto?, can be traded in fractions?, trailing_stop_enabled
  price,
  bal,      \* agents.current_balance
  pnl,      \* the day's realised profit or loss: db.todays_trade_pnl
  fills,    \* fills of the last five days: db.account_day_trade_count
  row,      \* the positions row; qty 0 is no row, hwm 0 and stop 0 are NULL
  job,      \* the enforce_exits pass
  peak,     \* history: highest price the row was opened, added to or checked at
  used      \* how much of the bounds is used up

vars == <<asset, price, bal, pnl, fills, row, job, peak, used>>

NoRow == [qty |-> 0, entry |-> 0, hwm |-> 0, stop |-> 0]
\* price is the one read when the pass began, row the position it listed; same: the
\* position has not been sold since
IdleJob == [pc |-> "idle", price |-> 0, row |-> NoRow, same |-> FALSE]

Assets == {x \in [crypto : BOOLEAN, fractions : BOOLEAN, trailing : BOOLEAN] :
             x.crypto => x.fractions}

Position == [qty : Nat, entry : Nat, hwm : Nat, stop : Nat]

\* A row that is gone leaves nothing behind for the next position to start from.
Cleared == row.qty = 0 => row = NoRow

StopTypeOK ==
  /\ asset \in Assets
  /\ price \in Prices
  /\ bal \in Int /\ pnl \in Int
  /\ fills \in Nat
  /\ row \in Position /\ Cleared
  /\ job \in [pc : {"idle", "list", "mark", "decide"}, price : Nat, row : Position,
              same : BOOLEAN]
  /\ peak \in Nat
  /\ used \in [orders : 0 .. MaxOrders, drifts : 0 .. MaxDrifts]

Init ==
  /\ asset \in Assets
  /\ price \in Prices
  /\ bal = StartCash /\ pnl = 0 /\ fills = 0
  /\ row = NoRow
  /\ job = IdleJob
  /\ peak = 0
  /\ used = [orders |-> 0, drifts |-> 0]

Highest(S) == Max(S)

----------------------------------------------------------------------------
\* db.apply_fill_to_position.  avg_entry_price is rounded (NUMERIC(14,4) in the table),
\* a new row has no high_water_mark, and a row sold down to nothing is deleted.

AfterBuy(r, q, p, stop) ==
  IF r.qty = 0 THEN [r EXCEPT !.qty = q, !.entry = p, !.stop = stop]
  ELSE [r EXCEPT !.qty = @ + q, !.entry = Nearest(r.qty * r.entry + q * p, r.qty + q)]

\* Mutant of AfterSell: the row is kept when nothing is left.
AfterSellKept(r, q) == [r EXCEPT !.qty = @ - q]

AfterSell(r, q) == IF q >= r.qty THEN NoRow ELSE [r EXCEPT !.qty = @ - q]

\* a sell of quantity q at the current price
Sold(q) ==
  /\ row' = AfterSell(row, q)
  /\ bal' = bal + q * price
  /\ pnl' = pnl + q * (price - row.entry)
  /\ fills' = fills + 1

Proposals ==
  [side : {"buy", "sell"}, qty : Quantities, stop : Stops, price : {price},
   claimed : BOOLEAN, dip : BOOLEAN, score : Scores]

\* POST /propose.  A regime without exposure ends it, whichever side it is.
Propose(p) ==
  LET q == Sized(p, bal, asset.fractions) IN
  /\ used.orders < MaxOrders
  /\ used' = [used EXCEPT !.orders = @ + 1]
  /\ Exposure(p.score) > 0
  /\ Approved(p, bal, pnl, fills, asset.crypto, asset.fractions)
  /\ \/ /\ p.side = "buy"
        /\ row' = AfterBuy(row, q, price, p.stop)
        /\ bal' = bal - q * price
        /\ fills' = fills + 1
        /\ peak' = IF row.qty = 0 THEN price ELSE Highest({peak, price})
        /\ UNCHANGED <<pnl, job>>
     \/ /\ p.side = "sell" /\ q <= row.qty
        /\ Sold(q)
        /\ job' = [job EXCEPT !.same = @ /\ q < row.qty]
        /\ UNCHANGED peak
  /\ UNCHANGED <<asset, price>>

PriceMoves(p) ==
  /\ p # price
  /\ price' = p
  /\ UNCHANGED <<asset, bal, pnl, fills, row, job, peak, used>>

\* the day's losses are forgotten, and perhaps the fills of five days ago
NewDay ==
  /\ pnl' = 0
  /\ fills' \in {fills, 0}
  /\ <<pnl', fills'>> # <<pnl, fills>>
  /\ UNCHANGED <<asset, price, bal, row, job, peak, used>>

----------------------------------------------------------------------------
\* app.compute_stop

Hwm(r, p) == Highest({r.hwm, r.entry, p})

\* Mutant of Locked: the profit of now, not of the peak.
LockedNow(r, p) == asset.crypto /\ (price - r.entry) * r.qty >= LockTrigger

Locked(r, p) == asset.crypto /\ (Hwm(r, p) - r.entry) * r.qty >= LockTrigger

OwnPct(r) == IF r.stop > 0 THEN r.stop ELSE IF asset.crypto THEN CryptoStopPct ELSE StopPct

Pct(r, p) == IF asset.trailing /\ Locked(r, p) THEN LockPct ELSE OwnPct(r)

\* the stop price, times 100
StopLevel(r, p) == (IF asset.trailing THEN Hwm(r, p) ELSE r.entry) * (100 - Pct(r, p))

\* the exit rule: the stop, or without a trailing stop the take-profit too
Hit(r, p) ==
  \/ p * 100 <= StopLevel(r, p)
  \/ /\ ~asset.trailing
     /\ p * 100 >= r.entry * (100 + IF asset.crypto THEN CryptoTakePct ELSE TakePct)

----------------------------------------------------------------------------
\* app.enforce_exits

\* alpaca_client.broker_position_prices
ExitPrice ==
  /\ job.pc = "idle"
  /\ job' = [IdleJob EXCEPT !.pc = "list", !.price = price]
  /\ UNCHANGED <<asset, price, bal, pnl, fills, row, peak, used>>

\* db.list_open_positions, and _reconcile_position_qty: a coin's fees may have left the
\* broker with less than the ledger says
ExitRow ==
  /\ job.pc = "list"
  /\ \E drift \in {0, 1} :
       /\ drift = 1 => asset.crypto /\ row.qty > 1 /\ used.drifts < MaxDrifts
       /\ used' = [used EXCEPT !.drifts = @ + drift]
       /\ LET r == [row EXCEPT !.qty = @ - drift] IN
            /\ row' = r
            /\ job' = IF row.qty = 0 THEN IdleJob
                      ELSE [job EXCEPT !.row = r, !.same = TRUE,
                                       !.pc = IF asset.trailing THEN "mark" ELSE "decide"]
  /\ UNCHANGED <<asset, price, bal, pnl, fills, peak>>

\* Mutants of ExitMark: the mark is inserted where the row is gone; it follows the
\* price down too.
ExitMarkGone ==
  /\ job.pc = "mark"
  /\ row' = IF row.hwm < job.price THEN [row EXCEPT !.hwm = job.price] ELSE row
  /\ job' = [job EXCEPT !.pc = "decide"]
  /\ peak' = IF row.qty > 0 THEN Highest({peak, job.price}) ELSE peak
  /\ UNCHANGED <<asset, price, bal, pnl, fills, used>>
ExitMarkAny ==
  /\ job.pc = "mark"
  /\ row' = IF row.qty > 0 THEN [row EXCEPT !.hwm = job.price] ELSE row
  /\ job' = [job EXCEPT !.pc = "decide"]
  /\ peak' = IF row.qty > 0 THEN Highest({peak, job.price}) ELSE peak
  /\ UNCHANGED <<asset, price, bal, pnl, fills, used>>

\* db.update_high_water_mark
ExitMark ==
  /\ job.pc = "mark"
  /\ row' = IF row.qty > 0 /\ row.hwm < job.price THEN [row EXCEPT !.hwm = job.price] ELSE row
  /\ job' = [job EXCEPT !.pc = "decide"]
  /\ peak' = IF row.qty > 0 THEN Highest({peak, job.price}) ELSE peak
  /\ UNCHANGED <<asset, price, bal, pnl, fills, used>>

\* Mutant of ExitQty: coins too are sold in whole units.
ExitQtyWhole(r) == Whole(r.qty)

\* stocks are sold in whole shares: int(qty)
ExitQty(r) == IF asset.crypto THEN r.qty ELSE Whole(r.qty)

Fires == job.pc = "decide" /\ Hit(job.row, job.price)

\* the broker refuses to sell nothing, or more than there is
ExitSell ==
  /\ Fires
  /\ ExitQty(job.row) \in 1 .. row.qty
  /\ Sold(ExitQty(job.row))
  /\ job' = IdleJob
  /\ UNCHANGED <<asset, price, peak, used>>

ExitPass ==
  /\ job.pc = "decide"
  /\ ~Fires \/ ExitQty(job.row) \notin 1 .. row.qty
  /\ job' = IdleJob
  /\ UNCHANGED <<asset, price, bal, pnl, fills, row, peak, used>>

ExitStep == ExitPrice \/ ExitRow \/ ExitMark \/ ExitSell \/ ExitPass

Next ==
  \/ \E p \in Proposals : Propose(p)
  \/ \E p \in Prices : PriceMoves(p)
  \/ NewDay \/ ExitStep

Spec == Init /\ [][Next]_vars

\* the scheduler runs enforce_exits again and again
FairSpec == Spec /\ WF_vars(ExitStep)

----------------------------------------------------------------------------
\* Properties

Held == row.qty > 0
Level == StopLevel(row, row.entry)

\* No approved buy costs more than the balance: the size cap, the regime's share of it
\* and the rounding of a resized order leave the agent solvent over any run of buys.
Solvent == bal >= 0

\* "A position that keeps climbing drags its stop up behind it": while a position is
\* held its stop never moves down.  Three things may move it: buying more of it,
\* releasing the profit lock of a coin (LockOutlivesPrices says what can), and engaging
\* that lock on a coin whose own stop is tighter, which the lock replaces all the same.
LockReleased == Locked(row, row.entry) /\ ~Locked(row, row.entry)'
LockLoosens  == ~Locked(row, row.entry) /\ Locked(row, row.entry)' /\ OwnPct(row) < LockPct
StopNeverFalls ==
  [][asset.trailing /\ Held /\ row'.qty \in 1 .. row.qty /\ ~LockReleased /\ ~LockLoosens
       => Level' >= Level]_vars

\* A position is "never force-sold for winning too much": a trailing exit is made only
\* at a price that has come down from the highest the position was seen at by the
\* smaller of its stop distances, whatever was held of the symbol before.  Left out is
\* a pass whose position was sold after it was listed (job.same): it decides on a row
\* that is no more.  The price a stale pass marks counts as seen, as it does in the code.
ExitsOffThePeak ==
  [][Fires /\ asset.trailing /\ job.same /\ row'.qty < row.qty =>
       job.price * 100 <= peak * (100 - (IF OwnPct(row) < LockPct THEN OwnPct(row) ELSE LockPct))]_vars

\* A position does not stay under its stop for ever (app.enforce_exits).  A stock's is
\* sold in whole shares, so less than a share may stay.
UnderStop ==
  /\ row.qty >= IF asset.crypto THEN 1 ELSE Lot
  /\ asset.trailing /\ price * 100 <= Level
StopIsTaken == ~<>[]UnderStop

\* The profit lock of a coin is not stored: every pass recomputes it.  Even so no price
\* releases it, nor any correction of the mark: only a change of the quantity does, a
\* part given up (sold, or trued down) or shares added above the average price, which
\* moves the entry up (README, profit lock; "so it doesn't flicker in and out once
\* earned").
LockOutlivesPrices ==
  [][Held /\ asset.trailing /\ Locked(row, row.entry) /\ row'.qty = row.qty
       => Locked(row, row.entry)']_vars
=============================================================================
