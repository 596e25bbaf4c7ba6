-------------------------- MODULE TrailingStopProofs --------------------------
(***************************************************************************)
(* What holds of one position for every price path, every size of order    *)
(* and every setting of the stops: the row stays well-formed, a balance is *)
(* never overdrawn while an order may take at most half of it, the stop of *)
(* a position does not move down, and a trailing exit is made off the peak.*)
(*                                                                         *)
(* The last two rest on StopInv: what the row and the pass remember of a   *)
(* position lies below the highest price it was seen at.                   *)
(***************************************************************************)
EXTENDS TrailingStop, SumProofs

\* No stop is further away than the whole price.
Bounded == row.stop <= 100 /\ job.row.stop <= 100

Below(r, top) == r.hwm <= top /\ r.entry <= top

\* Entry and mark of the position lie below its peak, though the entry is an average
\* that is rounded at every addition.
BelowPeak == row.qty > 0 => Below(row, peak)

\* So do those the exit pass listed, as long as the position it listed has not been
\* sold: it may have been added to since, but its own stop is still the same.
Listed ==
  job.same =>
    /\ row.qty > 0 /\ job.row.stop = row.stop
    /\ Below(job.row, peak)
    /\ job.pc = "decide" /\ asset.trailing => job.price <= peak

StopInv == StopTypeOK /\ Bounded /\ BelowPeak /\ Listed

----------------------------------------------------------------------------
(* Rounding, and the higher of two prices.                                 *)

LEMMA MaxTwo ==
  ASSUME NEW a \in Int, NEW b \in Int
  PROVE  Highest({a, b}) \in {a, b} /\ Highest({a, b}) >= a /\ Highest({a, b}) >= b
<1> DEFINE S == {a, b}
<1>1. \E x \in S : \A y \in S : x >= y
  <2>1. CASE a >= b BY <2>1
  <2>2. CASE b >= a BY <2>2
  <2> QED BY <2>1, <2>2
<1>2. Highest(S) = CHOOSE x \in S : \A y \in S : x >= y BY DEF Highest, Max
<1>3. Highest(S) \in S /\ \A y \in S : Highest(S) >= y BY <1>1, <1>2
<1> QED BY <1>3

LEMMA MaxThree ==
  ASSUME NEW a \in Int, NEW b \in Int, NEW c \in Int
  PROVE  /\ Highest({a, b, c}) \in {a, b, c}
         /\ Highest({a, b, c}) >= a /\ Highest({a, b, c}) >= b /\ Highest({a, b, c}) >= c
<1> DEFINE S == {a, b, c}
<1>1. \E x \in S : \A y \in S : x >= y
  <2>1. CASE a >= b /\ a >= c BY <2>1
  <2>2. CASE b >= a /\ b >= c BY <2>2
  <2>3. CASE c >= a /\ c >= b BY <2>3
  <2> QED BY <2>1, <2>2, <2>3
<1>2. Highest(S) = CHOOSE x \in S : \A y \in S : x >= y BY DEF Highest, Max
<1>3. Highest(S) \in S /\ \A y \in S : Highest(S) >= y BY <1>1, <1>2
<1> QED BY <1>3

(* Rounding to the nearest unit is off by half a unit at most.             *)
LEMMA NearestBounds ==
  ASSUME NEW num \in Nat, NEW den \in Nat \ {0}
  PROVE  /\ Nearest(num, den) \in Nat
         /\ 2 * (den * Nearest(num, den)) <= 2 * num + den
         /\ 2 * num < 2 * (den * Nearest(num, den)) + den
<1> DEFINE n == 2 * num + den
           d == 2 * den
<1>1. n \in Nat /\ d \in Nat \ {0} OBVIOUS
<1>2. Nearest(num, den) = n \div d BY DEF Nearest
<1> HIDE DEF n, d
<1>3. n \div d \in Nat /\ d * (n \div d) <= n /\ n < d * (n \div d) + d BY <1>1, DivBounds
<1>4. PICK k \in Nat : k = Nearest(num, den) BY <1>2, <1>3
<1>5. d * k <= n /\ n < d * k + d BY <1>2, <1>3, <1>4
<1>6. d * k = 2 * (den * k) BY DEF d
<1>7. den * k \in Nat OBVIOUS
<1> QED BY <1>4, <1>5, <1>6, <1>7 DEF n, d

(* The rounded average of two prices is not above the higher one.          *)
LEMMA AverageBelow ==
  ASSUME NEW q1 \in Nat, NEW q2 \in Nat \ {0}, NEW p1 \in Nat, NEW p2 \in Nat,
         NEW top \in Nat, p1 <= top, p2 <= top
  PROVE  /\ Nearest(q1 * p1 + q2 * p2, q1 + q2) \in Nat
         /\ Nearest(q1 * p1 + q2 * p2, q1 + q2) <= top
<1> DEFINE num == q1 * p1 + q2 * p2
           den == q1 + q2
<1>1. q1 * p1 \in Nat /\ q1 * top \in Nat /\ q1 * p1 <= q1 * top BY ProductRises
<1>2. q2 * p2 \in Nat /\ q2 * top \in Nat /\ q2 * p2 <= q2 * top BY ProductRises
<1>3. num \in Nat /\ den \in Nat \ {0} BY <1>1, <1>2
<1>4. num <= den * top
  <2>1. den * top = q1 * top + q2 * top OBVIOUS
  <2> QED BY <1>1, <1>2, <2>1
<1> HIDE DEF num, den
<1>5. PICK k \in Nat : k = Nearest(num, den) BY <1>3, NearestBounds
<1>6. 2 * (den * k) <= 2 * num + den BY <1>3, <1>5, NearestBounds
<1>7. den * k \in Nat /\ den * top \in Nat BY <1>3
<1>8. den * k < den * (top + 1)
  <2>1. den * (top + 1) = den * top + den BY <1>3
  <2> QED BY <1>3, <1>4, <1>6, <1>7, <2>1
<1>9. k < top + 1 BY <1>3, <1>8, FactorBelow
<1> QED BY <1>5, <1>9 DEF num, den

(* Whole shares are no more than what there was.                           *)
LEMMA WholeBounds ==
  ASSUME NEW q \in Nat
  PROVE  Whole(q) \in Nat /\ Whole(q) <= q
<1>1. Lot \in Nat \ {0} BY GateAssumption
<1>2. q \div Lot \in Nat /\ Lot * (q \div Lot) <= q BY <1>1, DivBounds
<1>3. PICK k \in Nat : k = q \div Lot BY <1>2
<1>4. Whole(q) = k * Lot /\ k * Lot = Lot * k /\ k * Lot \in Nat BY <1>1, <1>3 DEF Whole
<1> QED BY <1>2, <1>3, <1>4

----------------------------------------------------------------------------
(* What the gate lets through.                                             *)

LEMMA Percents ==
  /\ MaxPositionPct \in 0 .. 100 /\ LockPct \in 1 .. 100
  /\ StopPct \in 1 .. 100 /\ CryptoStopPct \in 1 .. 100
  /\ LockTrigger \in Nat
BY GateAssumption, StopAssumption

LEMMA Quoted ==
  ASSUME NEW p \in Prices
  PROVE  p \in Nat \ {0}
BY StopAssumption

LEMMA ProposalTypes ==
  ASSUME NEW p \in Proposals, price \in Prices
  PROVE  /\ p.side \in {"buy", "sell"}
         /\ p.qty \in Nat \ {0} /\ p.price = price /\ p.price \in Nat \ {0}
         /\ p.stop \in 0 .. 100
BY StopAssumption DEF Proposals

LEMMA ExposureRange ==
  ASSUME NEW score
  PROVE  Exposure(score) \in 0 .. 100
BY GateAssumption DEF Exposure

(* A sell is passed on as it was proposed.                                 *)
LEMMA SizeSold ==
  ASSUME NEW p, NEW b, NEW f, p.side = "sell"
  PROVE  Sized(p, b, f) = p.qty
BY DEF Sized, TooLarge

(* An approved buy buys something, even one cut down to size.              *)
LEMMA SizeBought ==
  ASSUME price \in Prices, NEW p \in Proposals, p.side = "buy", NEW b \in Int,
         NEW l, NEW n, NEW c, NEW f \in BOOLEAN, Approved(p, b, l, n, c, f)
  PROVE  Sized(p, b, f) \in Nat \ {0}
<1>1. p.qty \in Nat \ {0} /\ p.price \in Nat \ {0} BY ProposalTypes
<1>2. CASE TooLarge(p, b)
  <2>1. Fitting(p, b, f) > 0 BY <1>2 DEF Approved
  <2>2. PICK e \in Int : e = Budget(b, p.score)
    <3>1. Exposure(p.score) \in Int BY ExposureRange
    <3>2. MaxPositionPct \in Int BY Percents
    <3> QED BY <3>1, <3>2 DEF Budget
  <2>3. PICK d \in Nat \ {0} : d = p.price * 10000
    <3>1. p.price * 10000 \in Nat \ {0} BY <1>1
    <3> QED BY <3>1
  <2>4. Fitting(p, b, f) \in Int
    <3>1. Nearest(e, d) \in Int BY DEF Nearest
    <3>2. e \div d \in Int OBVIOUS
    <3>3. Whole(e \div d) \in Int BY <3>2, GateAssumption DEF Whole
    <3> QED BY <2>2, <2>3, <3>1, <3>3 DEF Fitting
  <2> QED BY <1>2, <2>1, <2>4 DEF Sized
<1>3. CASE ~TooLarge(p, b)
  <2>1. f \/ Whole(p.qty) > 0 BY <1>3 DEF Approved
  <2>2. Whole(p.qty) \in Nat BY <1>1, WholeBounds
  <2> QED BY <1>1, <1>3, <2>1, <2>2 DEF Sized
<1> QED BY <1>2, <1>3

(* Nor does it cost more than the balance, if one order may take at most   *)
(* half of it: rounding up to the nearest fraction adds less than another  *)
(* half.                                                                   *)
LEMMA Affordable ==
  ASSUME MaxPositionPct <= 50, price \in Prices, NEW p \in Proposals, p.side = "buy",
         NEW b \in Nat, NEW l, NEW n, NEW c, NEW f \in BOOLEAN,
         Approved(p, b, l, n, c, f)
  PROVE  Sized(p, b, f) * p.price <= b
<1>1. p.qty \in Nat \ {0} /\ p.price \in Nat \ {0} BY ProposalTypes
<1>2. PICK q \in Nat \ {0} : q = Sized(p, b, f) BY SizeBought
<1>3. PICK e \in Nat : e = Budget(b, p.score) /\ e <= 5000 * b
  <2>1. PICK m \in 0 .. 50 : m = MaxPositionPct BY Percents
  <2>2. PICK x \in 0 .. 100 : x = Exposure(p.score) BY ExposureRange
  <2>3. b * m \in Nat /\ b * m <= b * 50 BY ProductRises
  <2>4. PICK y \in Nat : y = b * m BY <2>3
  <2>5. y * x \in Nat /\ (b * 50) * 100 \in Nat /\ y * x <= (b * 50) * 100
    BY <2>3, <2>4, ProductRises
  <2> QED BY <2>1, <2>2, <2>4, <2>5 DEF Budget
<1>4. PICK d \in Nat \ {0} : d = p.price * 10000
  <2>1. p.price * 10000 \in Nat \ {0} BY <1>1
  <2> QED BY <2>1
<1>5. d * q = 10000 * (q * p.price) /\ q * p.price \in Nat BY <1>1, <1>4
<1>6. d * q <= 2 * e
  <2>1. CASE TooLarge(p, b)
    <3>1. q = Fitting(p, b, f) BY <1>2, <2>1 DEF Sized
    <3>2. CASE f
      <4>1. q = Nearest(e, d) BY <1>3, <1>4, <3>1, <3>2 DEF Fitting
      <4>2. 2 * (d * q) <= 2 * e + d BY <4>1, NearestBounds
      <4>3. d * 1 <= d * q BY ProductRises
      <4>4. d * q \in Nat OBVIOUS
      <4> QED BY <4>2, <4>3, <4>4
    <3>3. CASE ~f
      <4>1. PICK k \in Nat : k = e \div d /\ d * k <= e BY DivBounds
      <4>2. q = Whole(k) BY <1>3, <1>4, <3>1, <3>3, <4>1 DEF Fitting
      <4>3. q <= k BY <4>2, WholeBounds
      <4>4. d * q <= d * k BY <4>3, ProductRises
      <4>5. d * q \in Nat /\ d * k \in Nat OBVIOUS
      <4> QED BY <4>1, <4>4, <4>5
    <3> QED BY <3>2, <3>3
  <2>2. CASE ~TooLarge(p, b)
    <3>1. p.qty * p.price * 10000 <= e
      <4>1. p.qty * p.price * 10000 \in Nat BY <1>1
      <4> QED BY <1>3, <2>2, <4>1 DEF TooLarge
    <3>2. q <= p.qty BY <1>1, <1>2, <2>2, WholeBounds DEF Sized
    <3>3. d * q <= d * p.qty BY <1>1, <3>2, ProductRises
    <3>4. d * p.qty = p.qty * p.price * 10000 BY <1>1, <1>4
    <3>5. d * q \in Nat /\ d * p.qty \in Nat BY <1>1
    <3> QED BY <3>1, <3>3, <3>4, <3>5
  <2> QED BY <2>1, <2>2
<1> QED BY <1>2, <1>3, <1>5, <1>6

----------------------------------------------------------------------------
(* What a fill makes of the row.                                           *)

LEMMA RowOpened ==
  ASSUME NEW q, NEW p, NEW stop
  PROVE  AfterBuy(NoRow, q, p, stop) = [qty |-> q, entry |-> p, hwm |-> 0, stop |-> stop]
BY DEF AfterBuy, NoRow

LEMMA RowAdded ==
  ASSUME NEW r \in Position, r.qty # 0, NEW q, NEW p, NEW stop
  PROVE  AfterBuy(r, q, p, stop)
           = [qty |-> r.qty + q, entry |-> Nearest(r.qty * r.entry + q * p, r.qty + q),
              hwm |-> r.hwm, stop |-> r.stop]
<1> DEFINE avg == Nearest(r.qty * r.entry + q * p, r.qty + q)
<1>1. AfterBuy(r, q, p, stop) = [r EXCEPT !.qty = @ + q, !.entry = avg] BY DEF AfterBuy
<1> HIDE DEF avg
<1>2. AfterBuy(r, q, p, stop)
        = [qty |-> r.qty + q, entry |-> avg, hwm |-> r.hwm, stop |-> r.stop]
  BY <1>1 DEF Position
<1> QED BY <1>2 DEF avg

LEMMA RowSold ==
  ASSUME NEW r \in Position, NEW q \in Nat \ {0}, q <= r.qty
  PROVE  /\ AfterSell(r, q) \in Position
         /\ AfterSell(r, q).qty = r.qty - q
         /\ AfterSell(r, q).stop <= r.stop
         /\ q < r.qty => /\ AfterSell(r, q).entry = r.entry
                         /\ AfterSell(r, q).hwm = r.hwm
                         /\ AfterSell(r, q).stop = r.stop
         /\ q = r.qty => AfterSell(r, q) = NoRow
<1>1. r.qty \in Nat /\ r.entry \in Nat /\ r.hwm \in Nat /\ r.stop \in Nat BY DEF Position
<1>2. CASE q = r.qty
  <2>1. AfterSell(r, q) = NoRow BY <1>1, <1>2 DEF AfterSell
  <2> QED BY <1>1, <1>2, <2>1 DEF NoRow, Position
<1>3. CASE q < r.qty
  <2>1. AfterSell(r, q) = [r EXCEPT !.qty = @ - q] BY <1>1, <1>3 DEF AfterSell
  <2>2. AfterSell(r, q)
          = [qty |-> r.qty - q, entry |-> r.entry, hwm |-> r.hwm, stop |-> r.stop]
    BY <2>1 DEF Position
  <2>3. r.qty - q \in Nat BY <1>1, <1>3
  <2> QED BY <1>1, <1>3, <2>2, <2>3 DEF Position
<1> QED BY <1>1, <1>2, <1>3

\* What the steps need of a state of the pass.
Jobs == [pc : {"idle", "list", "mark", "decide"}, price : Nat, row : Position,
         same : BOOLEAN]

LEMMA IdleJobIsOne == NoRow \in Position /\ IdleJob \in Jobs /\ ~IdleJob.same
BY DEF NoRow, Position, IdleJob, Jobs

----------------------------------------------------------------------------
(* StopInv holds at the start and every step keeps it.                     *)

LEMMA StartsWell == Init => StopInv
<1> SUFFICES ASSUME Init PROVE StopInv OBVIOUS
<1>1. StopTypeOK
  <2>1. StartCash \in Nat /\ MaxOrders \in Nat /\ MaxDrifts \in Nat /\ DayTradeLimit \in Nat
    BY StopAssumption, GateAssumption
  <2>2. row \in Position /\ job \in Jobs BY IdleJobIsOne DEF Init
  <2>3. Cleared BY DEF Init, Cleared
  <2> QED BY <2>1, <2>2, <2>3 DEF Init, StopTypeOK, Jobs
<1>2. Bounded /\ BelowPeak BY DEF Init, Bounded, BelowPeak, NoRow, IdleJob
<1>3. Listed BY IdleJobIsOne DEF Init, Listed
<1> QED BY <1>1, <1>2, <1>3 DEF StopInv

LEMMA BuyKeeps ==
  ASSUME StopInv, NEW p \in Proposals, Propose(p), p.side = "buy"
  PROVE  /\ StopInv'
         /\ row'.qty > row.qty
<1>1. /\ StopTypeOK /\ Bounded /\ BelowPeak /\ Cleared /\ Listed
      /\ bal \in Int /\ row \in Position /\ job \in Jobs /\ asset \in Assets
      /\ price \in Prices /\ price \in Nat /\ peak \in Nat
  BY Quoted DEF StopInv, StopTypeOK, Jobs
<1>2. /\ Approved(p, bal, pnl, fills, asset.crypto, asset.fractions)
      /\ row' = AfterBuy(row, Sized(p, bal, asset.fractions), price, p.stop)
      /\ bal' = bal - Sized(p, bal, asset.fractions) * price /\ fills' = fills + 1
      /\ peak' = (IF row.qty = 0 THEN price ELSE Highest({peak, price}))
      /\ used.orders < MaxOrders /\ used' = [used EXCEPT !.orders = @ + 1]
      /\ UNCHANGED <<asset, price, pnl, job>>
  BY DEF Propose
<1>3. asset.fractions \in BOOLEAN BY <1>1 DEF Assets
<1>4. PICK q \in Nat \ {0} : q = Sized(p, bal, asset.fractions)
  BY <1>1, <1>2, <1>3, SizeBought
<1>5. p.stop \in 0 .. 100 BY <1>1, ProposalTypes
<1>6. PICK top \in Nat : top = peak' /\ price <= top /\ (row.qty > 0 => peak <= top)
  BY <1>1, <1>2, MaxTwo DEF Position
<1>7. row.qty \in Nat /\ row.entry \in Nat /\ row.hwm \in Nat /\ row.stop \in Nat
  BY <1>1 DEF Position
<1>8. PICK e \in Nat, h \in Nat, s \in 0 .. 100 :
        /\ row' = [qty |-> row.qty + q, entry |-> e, hwm |-> h, stop |-> s]
        /\ e <= top /\ h <= top
        /\ row.qty > 0 => s = row.stop
  <2>1. CASE row.qty = 0
    <3>1. row = NoRow BY <1>1, <2>1 DEF Cleared
    <3>2. row' = [qty |-> q, entry |-> price, hwm |-> 0, stop |-> p.stop]
      BY <1>2, <1>4, <3>1, RowOpened
    <3>3. q = row.qty + q BY <2>1
    <3>4. price \in Nat /\ 0 \in Nat BY <1>1
    <3>5. ~(row.qty > 0) BY <2>1
    <3>6. /\ row' = [qty |-> row.qty + q, entry |-> price, hwm |-> 0, stop |-> p.stop]
          /\ price <= top /\ 0 <= top
          /\ row.qty > 0 => p.stop = row.stop
      BY <1>6, <3>2, <3>3, <3>4, <3>5
    <3> USE <3>4, <1>5
    <3> WITNESS price \in Nat, 0 \in Nat, p.stop \in 0 .. 100
    <3> QED BY <3>6
  <2>2. CASE row.qty # 0
    <3>1. row' = [qty |-> row.qty + q,
                  entry |-> Nearest(row.qty * row.entry + q * price, row.qty + q),
                  hwm |-> row.hwm, stop |-> row.stop]
      BY <1>1, <1>2, <1>4, <2>2, RowAdded
    <3>2. row.entry <= top /\ row.hwm <= top
      BY <1>1, <1>6, <1>7, <2>2 DEF BelowPeak, Below
    <3>3. PICK e \in Nat : /\ e = Nearest(row.qty * row.entry + q * price, row.qty + q)
                           /\ e <= top
      BY <1>1, <1>6, <1>7, <3>2, AverageBelow
    <3>4. row.stop \in 0 .. 100 BY <1>1, <1>7 DEF Bounded
    <3>5. row.hwm \in Nat BY <1>7
    <3> USE <3>4, <3>5
    <3> WITNESS e \in Nat, row.hwm \in Nat, row.stop \in 0 .. 100
    <3> QED BY <3>1, <3>2, <3>3
  <2> QED BY <2>1, <2>2
<1>9. row' \in Position /\ row'.qty > row.qty BY <1>7, <1>8 DEF Position
<1>10. StopTypeOK'
  <2>1. bal' \in Int
    <3>1. q * price \in Nat BY <1>1, <1>4
    <3> QED BY <1>1, <1>2, <1>4, <3>1
  <2>2. used' \in [orders : 0 .. MaxOrders, drifts : 0 .. MaxDrifts]
    BY <1>1, <1>2, StopAssumption DEF StopTypeOK
  <2>3. fills' \in Nat BY <1>1, <1>2 DEF StopTypeOK
  <2>4. Cleared' BY <1>7, <1>9 DEF Cleared, Position
  <2> QED BY <1>1, <1>2, <1>6, <1>9, <2>1, <2>2, <2>3, <2>4 DEF StopTypeOK
<1>11. Bounded' /\ BelowPeak'
  BY <1>1, <1>2, <1>6, <1>7, <1>8, <1>9 DEF Bounded, BelowPeak, Below
<1>12. Listed'
  <2> SUFFICES ASSUME job'.same PROVE Listed' BY DEF Listed
  <2>1. job.same /\ job' = job /\ asset' = asset BY <1>2
  <2>2. /\ row.qty > 0 /\ job.row.stop = row.stop /\ Below(job.row, peak)
        /\ job.pc = "decide" /\ asset.trailing => job.price <= peak
    BY <1>1, <2>1 DEF Listed
  <2>3. peak <= top BY <1>6, <2>2
  <2>4. job.row.hwm \in Nat /\ job.row.entry \in Nat /\ job.price \in Nat
    BY <1>1 DEF Jobs, Position
  <2>5. Below(job.row, peak') /\ (job.pc = "decide" /\ asset.trailing => job.price <= peak')
    BY <1>1, <1>6, <2>2, <2>3, <2>4 DEF Below
  <2>6. row'.qty > 0 /\ row'.stop = job.row.stop BY <1>4, <1>7, <1>8, <2>2
  <2> QED BY <2>1, <2>5, <2>6 DEF Listed
<1> QED BY <1>9, <1>10, <1>11, <1>12 DEF StopInv

(* A sale, the agent's or the pass's: everything but the pass itself.      *)
LEMMA SaleKeeps ==
  ASSUME StopInv, NEW q \in Nat \ {0}, q <= row.qty, Sold(q), UNCHANGED <<asset, price, peak>>,
         job' \in Jobs, used' \in [orders : 0 .. MaxOrders, drifts : 0 .. MaxDrifts],
         job'.row.stop <= 100,
         job'.same => job.same /\ q < row.qty /\ job' = [job EXCEPT !.same = TRUE]
  PROVE  /\ StopInv'
         /\ row' \in Position /\ row'.qty = row.qty - q
         /\ row'.qty > 0 => row'.entry = row.entry /\ row'.hwm = row.hwm /\ row'.stop = row.stop
<1>1. /\ StopTypeOK /\ Bounded /\ BelowPeak /\ Cleared /\ Listed
      /\ bal \in Int /\ pnl \in Int /\ row \in Position /\ job \in Jobs
      /\ price \in Prices /\ price \in Nat /\ peak \in Nat /\ row.entry \in Nat
      /\ row.qty \in Nat /\ row.stop \in Nat
  BY Quoted DEF StopInv, StopTypeOK, Jobs, Position
<1>2. /\ row' = AfterSell(row, q) /\ bal' = bal + q * price
      /\ pnl' = pnl + q * (price - row.entry) /\ fills' = fills + 1
  BY DEF Sold
<1>3. /\ row' \in Position /\ row'.qty = row.qty - q /\ row'.stop <= row.stop
      /\ q < row.qty => row'.entry = row.entry /\ row'.hwm = row.hwm /\ row'.stop = row.stop
      /\ q = row.qty => row' = NoRow
  BY <1>1, <1>2, RowSold
<1>4. /\ row'.qty \in Nat /\ row'.stop \in Nat /\ (row'.qty > 0 <=> q < row.qty)
      /\ (row'.qty = 0 <=> q = row.qty)
  BY <1>1, <1>3 DEF Position
<1>5. StopTypeOK'
  <2>1. q * price \in Int /\ q * (price - row.entry) \in Int BY <1>1
  <2>2. bal' \in Int /\ pnl' \in Int BY <1>1, <1>2, <2>1
  <2>3. fills' \in Nat BY <1>1, <1>2 DEF StopTypeOK
  <2>4. Cleared' BY <1>1, <1>3, <1>4 DEF Cleared
  <2> QED BY <1>1, <1>3, <2>2, <2>3, <2>4 DEF StopTypeOK, Jobs
<1>6. Bounded' BY <1>1, <1>3, <1>4 DEF Bounded
<1>7. BelowPeak' BY <1>1, <1>3, <1>4 DEF BelowPeak, Below
<1>8. Listed'
  <2> SUFFICES ASSUME job'.same PROVE Listed' BY DEF Listed
  <2>1. job.same /\ q < row.qty BY DEF Jobs
  <2>2. job'.row = job.row /\ job'.pc = job.pc /\ job'.price = job.price BY <1>1 DEF Jobs
  <2> QED BY <1>1, <1>3, <1>4, <2>1, <2>2 DEF Listed, Below
<1> QED BY <1>3, <1>4, <1>5, <1>6, <1>7, <1>8 DEF StopInv

LEMMA SellKeeps ==
  ASSUME StopInv, NEW p \in Proposals, Propose(p), p.side = "sell"
  PROVE  /\ StopInv'
         /\ row'.qty < row.qty
         /\ row'.qty > 0 => row'.entry = row.entry /\ row'.hwm = row.hwm /\ row'.stop = row.stop
<1>1. /\ StopTypeOK /\ price \in Prices /\ job \in Jobs /\ row.qty \in Nat /\ job.row.stop <= 100
  BY DEF StopInv, StopTypeOK, Bounded, Jobs, Position
<1>2. Sized(p, bal, asset.fractions) = p.qty BY SizeSold
<1>3. PICK q \in Nat \ {0} : q = p.qty BY <1>1, ProposalTypes
<1>4. /\ q <= row.qty /\ Sold(q) /\ UNCHANGED <<asset, price, peak>>
      /\ job' = [job EXCEPT !.same = @ /\ q < row.qty]
      /\ used.orders < MaxOrders /\ used' = [used EXCEPT !.orders = @ + 1]
  BY <1>2, <1>3 DEF Propose
<1>5. used' \in [orders : 0 .. MaxOrders, drifts : 0 .. MaxDrifts]
  BY <1>1, <1>4, StopAssumption DEF StopTypeOK
<1>6. job' = [pc |-> job.pc, price |-> job.price, row |-> job.row,
              same |-> job.same /\ q < row.qty]
  BY <1>1, <1>4 DEF Jobs
<1>7. /\ job' \in Jobs /\ job'.row = job.row
      /\ job'.same => job.same /\ q < row.qty
  BY <1>1, <1>6 DEF Jobs
<1>8. job'.same => job' = [job EXCEPT !.same = TRUE] BY <1>1, <1>6, <1>7 DEF Jobs
<1>9. /\ StopInv' /\ row'.qty = row.qty - q
      /\ row'.qty > 0 => row'.entry = row.entry /\ row'.hwm = row.hwm /\ row'.stop = row.stop
  BY <1>1, <1>4, <1>5, <1>7, <1>8, SaleKeeps
<1> QED BY <1>1, <1>9

LEMMA ExitPriceKeeps == StopInv /\ ExitPrice => StopInv'
<1> SUFFICES ASSUME StopInv, ExitPrice PROVE StopInv' OBVIOUS
<1>1. /\ StopTypeOK /\ Bounded /\ BelowPeak /\ Cleared /\ price \in Nat
      /\ UNCHANGED <<asset, price, bal, pnl, fills, row, peak, used>>
      /\ job' = [IdleJob EXCEPT !.pc = "list", !.price = price]
  BY Quoted DEF StopInv, StopTypeOK, ExitPrice
<1>2. job' = [pc |-> "list", price |-> price, row |-> NoRow, same |-> FALSE]
  BY <1>1 DEF IdleJob
<1>3. job' \in Jobs /\ job'.same = FALSE /\ job'.row = NoRow /\ NoRow.stop = 0
  <2>1. NoRow.stop = 0 BY DEF NoRow
  <2>2. NoRow \in Position BY IdleJobIsOne
  <2>3. price \in Nat BY <1>1
  <2>4. job' \in Jobs BY <1>2, <2>2, <2>3 DEF Jobs
  <2> QED BY <1>2, <2>1, <2>4
<1>4. StopTypeOK'
  <2>1. Cleared' BY <1>1 DEF Cleared
  <2> QED BY <1>1, <1>3, <2>1 DEF StopTypeOK, Jobs
<1>5. Bounded' /\ BelowPeak' BY <1>1, <1>3 DEF Bounded, BelowPeak
<1>6. Listed' BY <1>3 DEF Listed
<1> QED BY <1>4, <1>5, <1>6 DEF StopInv

LEMMA ExitRowKeeps ==
  ASSUME StopInv, ExitRow
  PROVE  /\ StopInv'
         /\ row'.qty <= row.qty /\ row'.entry = row.entry /\ row'.hwm = row.hwm
         /\ row'.stop = row.stop
<1>1. /\ StopTypeOK /\ Bounded /\ BelowPeak /\ Cleared /\ job \in Jobs /\ row \in Position
      /\ row.qty \in Nat /\ row.entry \in Nat /\ row.hwm \in Nat /\ row.stop \in Nat
      /\ peak \in Nat /\ asset \in Assets
  BY DEF StopInv, StopTypeOK, Jobs, Position
<1>2. PICK drift \in {0, 1} :
        /\ drift = 1 => asset.crypto /\ row.qty > 1 /\ used.drifts < MaxDrifts
        /\ used' = [used EXCEPT !.drifts = @ + drift]
        /\ row' = [row EXCEPT !.qty = @ - drift]
        /\ job' = IF row.qty = 0 THEN IdleJob
                  ELSE [job EXCEPT !.row = [row EXCEPT !.qty = @ - drift], !.same = TRUE,
                                   !.pc = IF asset.trailing THEN "mark" ELSE "decide"]
        /\ job.pc = "list" /\ UNCHANGED <<asset, price, bal, pnl, fills, peak>>
  BY DEF ExitRow
<1>3. row' = [qty |-> row.qty - drift, entry |-> row.entry, hwm |-> row.hwm, stop |-> row.stop]
  BY <1>1, <1>2 DEF Position
<1>4. /\ row' \in Position /\ row'.qty <= row.qty /\ (row.qty > 0 <=> row'.qty > 0)
      /\ row'.entry = row.entry /\ row'.hwm = row.hwm /\ row'.stop = row.stop
      /\ row.qty = 0 => row' = row
  <2>1. row.qty - drift \in Nat /\ row.qty - drift <= row.qty
        /\ (row.qty > 0 <=> row.qty - drift > 0)
    BY <1>1, <1>2
  <2>2. row.qty = 0 => drift = 0 BY <1>1, <1>2
  <2>3. row.qty = 0 => row' = row BY <1>1, <1>3, <2>2 DEF Position
  <2> QED BY <1>1, <1>3, <2>1, <2>3 DEF Position
<1>5. row.qty > 0 =>
        /\ job' \in Jobs /\ job'.row = row'
        /\ job'.pc = IF asset.trailing THEN "mark" ELSE "decide"
  <2> SUFFICES ASSUME row.qty > 0
               PROVE  /\ job' \in Jobs /\ job'.row = row'
                      /\ job'.pc = IF asset.trailing THEN "mark" ELSE "decide"
    OBVIOUS
  <2>1. PICK next \in {"mark", "decide"} :
          next = IF asset.trailing THEN "mark" ELSE "decide"
    OBVIOUS
  <2>2. job' = [job EXCEPT !.row = row', !.same = TRUE, !.pc = next] BY <1>2, <2>1
  <2>3. job' = [pc |-> next, price |-> job.price, row |-> row', same |-> TRUE]
    BY <1>1, <2>2 DEF Jobs
  <2> QED BY <1>1, <1>4, <2>1, <2>3 DEF Jobs
<1>6. row.qty = 0 => job' \in Jobs /\ ~job'.same /\ job'.row.stop = 0
  BY <1>2, IdleJobIsOne DEF IdleJob, NoRow
<1>7. used' \in [orders : 0 .. MaxOrders, drifts : 0 .. MaxDrifts]
  BY <1>1, <1>2, StopAssumption DEF StopTypeOK
<1>8. StopTypeOK'
  <2>1. Cleared' BY <1>1, <1>4 DEF Cleared, Position
  <2> QED BY <1>1, <1>2, <1>4, <1>5, <1>6, <1>7, <2>1 DEF StopTypeOK, Jobs
<1>9. Bounded' /\ BelowPeak'
  BY <1>1, <1>2, <1>4, <1>5, <1>6 DEF Bounded, BelowPeak, Below
<1>10. Listed' BY <1>1, <1>2, <1>4, <1>5, <1>6 DEF Listed, BelowPeak, Below
<1> QED BY <1>4, <1>8, <1>9, <1>10 DEF StopInv

LEMMA ExitMarkKeeps ==
  ASSUME StopInv, ExitMark
  PROVE  /\ StopInv'
         /\ row'.qty = row.qty /\ row'.entry = row.entry /\ row'.hwm >= row.hwm
         /\ row'.stop = row.stop
<1>1. /\ StopTypeOK /\ Bounded /\ BelowPeak /\ Cleared /\ Listed /\ job \in Jobs
      /\ row \in Position
      /\ row.qty \in Nat /\ row.entry \in Nat /\ row.hwm \in Nat /\ row.stop \in Nat
      /\ peak \in Nat /\ job.price \in Nat
  BY DEF StopInv, StopTypeOK, Jobs, Position
<1>2. /\ row' = IF row.qty > 0 /\ row.hwm < job.price THEN [row EXCEPT !.hwm = job.price]
                ELSE row
      /\ job' = [job EXCEPT !.pc = "decide"]
      /\ peak' = IF row.qty > 0 THEN Highest({peak, job.price}) ELSE peak
      /\ UNCHANGED <<asset, price, bal, pnl, fills, used>>
  BY DEF ExitMark
<1>3. /\ row' \in Position /\ row'.qty = row.qty /\ row'.entry = row.entry
      /\ row'.hwm \in {row.hwm, job.price} /\ row'.hwm >= row.hwm
      /\ row'.stop = row.stop /\ (row.qty = 0 => row' = row)
  BY <1>1, <1>2 DEF Position
<1>4. /\ peak' \in Nat /\ peak' >= peak /\ (row.qty > 0 => peak' >= job.price)
  BY <1>1, <1>2, MaxTwo
<1>5. job' = [pc |-> "decide", price |-> job.price, row |-> job.row, same |-> job.same]
  BY <1>1, <1>2 DEF Jobs
<1>6. job' \in Jobs /\ job'.row = job.row /\ job'.same = job.same /\ job'.price = job.price
  BY <1>1, <1>5 DEF Jobs
<1>7. StopTypeOK'
  <2>1. Cleared' BY <1>1, <1>3 DEF Cleared
  <2> QED BY <1>1, <1>2, <1>3, <1>4, <1>6, <2>1 DEF StopTypeOK, Jobs
<1>8. Bounded' /\ BelowPeak' BY <1>1, <1>3, <1>4, <1>6 DEF Bounded, BelowPeak, Below
<1>9. Listed'
  <2> SUFFICES ASSUME job.same PROVE Listed' BY <1>6 DEF Listed
  <2>1. row.qty > 0 /\ job.row.stop = row.stop /\ Below(job.row, peak) BY <1>1 DEF Listed
  <2>2. job.row.hwm \in Nat /\ job.row.entry \in Nat BY <1>1 DEF Jobs, Position
  <2>3. Below(job.row, peak') BY <1>1, <1>4, <2>1, <2>2 DEF Below
  <2> QED BY <1>1, <1>3, <1>4, <1>6, <2>1, <2>3 DEF Listed
<1> QED BY <1>3, <1>7, <1>8, <1>9 DEF StopInv

LEMMA ExitSellKeeps ==
  ASSUME StopInv, ExitSell
  PROVE  /\ StopInv'
         /\ row'.qty < row.qty
         /\ row'.qty > 0 => row'.entry = row.entry /\ row'.hwm = row.hwm /\ row'.stop = row.stop
<1>1. /\ StopTypeOK /\ row.qty \in Nat BY DEF StopInv, StopTypeOK, Position
<1>2. PICK q \in 1 .. row.qty : q = ExitQty(job.row) BY DEF ExitSell
<1>3. /\ Sold(q) /\ job' = IdleJob /\ UNCHANGED <<asset, price, peak, used>>
  BY <1>2 DEF ExitSell
<1>4. q \in Nat \ {0} /\ q <= row.qty BY <1>1, <1>2
<1>5. job' \in Jobs /\ ~job'.same /\ job'.row.stop <= 100
  BY <1>3, IdleJobIsOne DEF IdleJob, NoRow
<1>6. used' \in [orders : 0 .. MaxOrders, drifts : 0 .. MaxDrifts]
  BY <1>1, <1>3 DEF StopTypeOK
<1>7. UNCHANGED <<asset, price, peak>> BY <1>3
<1>8. /\ StopInv' /\ row'.qty = row.qty - q
      /\ row'.qty > 0 => row'.entry = row.entry /\ row'.hwm = row.hwm /\ row'.stop = row.stop
  BY <1>3, <1>4, <1>5, <1>6, <1>7, SaleKeeps
<1> QED BY <1>1, <1>4, <1>8

(* The rest leaves the row alone.                                          *)
LEMMA OthersKeep ==
  ASSUME StopInv, \/ \E p \in Prices : PriceMoves(p)
                  \/ NewDay \/ ExitPass \/ UNCHANGED vars
  PROVE  StopInv'
<1>1. /\ StopTypeOK /\ Bounded /\ BelowPeak /\ Cleared /\ Listed
  BY DEF StopInv, StopTypeOK
<1>2. CASE (\E p \in Prices : PriceMoves(p)) \/ NewDay \/ UNCHANGED vars
  <2>1. /\ UNCHANGED <<asset, row, job, peak, used, bal>> /\ price' \in Prices
        /\ pnl' \in Int /\ fills' \in Nat
    BY <1>1, <1>2, GateAssumption DEF PriceMoves, NewDay, vars, StopTypeOK
  <2>2. StopTypeOK' BY <1>1, <2>1 DEF StopTypeOK, Cleared
  <2>3. Bounded' /\ BelowPeak' /\ Listed'
    BY <1>1, <2>1 DEF Bounded, BelowPeak, Listed
  <2> QED BY <2>2, <2>3 DEF StopInv
<1>3. CASE ExitPass
  <2>1. UNCHANGED <<asset, price, bal, pnl, fills, row, peak, used>> /\ job' = IdleJob
    BY <1>3 DEF ExitPass
  <2>2. job' \in Jobs /\ ~job'.same /\ job'.row.stop = 0
    BY <2>1, IdleJobIsOne DEF IdleJob, NoRow
  <2>3. StopTypeOK' BY <1>1, <2>1, <2>2 DEF StopTypeOK, Jobs, Cleared
  <2>4. Bounded' /\ BelowPeak' /\ Listed'
    BY <1>1, <2>1, <2>2 DEF Bounded, BelowPeak, Listed
  <2> QED BY <2>3, <2>4 DEF StopInv
<1> QED BY <1>2, <1>3

LEMMA StepsKeep == StopInv /\ [Next]_vars => StopInv'
<1> SUFFICES ASSUME StopInv, [Next]_vars PROVE StopInv' OBVIOUS
<1>1. ASSUME NEW p \in Proposals, Propose(p) PROVE StopInv'
  <2>1. p.side = "buy" \/ p.side = "sell" BY DEF Proposals
  <2> QED BY <1>1, <2>1, BuyKeeps, SellKeeps
<1>2. CASE ExitPrice BY <1>2, ExitPriceKeeps
<1>3. CASE ExitRow BY <1>3, ExitRowKeeps
<1>4. CASE ExitMark BY <1>4, ExitMarkKeeps
<1>5. CASE ExitSell BY <1>5, ExitSellKeeps
<1>6. CASE \/ \E p \in Prices : PriceMoves(p)
           \/ NewDay \/ ExitPass \/ UNCHANGED vars
  BY <1>6, OthersKeep
<1> QED BY <1>1, <1>2, <1>3, <1>4, <1>5, <1>6 DEF Next, ExitStep

(* The row, the pass and the history keep their types, whatever the prices *)
(* and the orders: no sale takes more than there is, no average and no     *)
(* correction of the quantity leaves the naturals.                         *)
THEOREM TypesHold == Spec => []StopTypeOK
<1>1. StopInv => StopTypeOK BY DEF StopInv
<1> QED BY <1>1, StartsWell, StepsKeep, PTL DEF Spec

----------------------------------------------------------------------------
(* No run of buys overdraws the balance, for every quote and every size:   *)
(* the cap of an order is at most half of the balance (it is a quarter in  *)
(* every configuration of the repository).  Above half the rounding of a   *)
(* resized order can cost more than there is: a balance of 3, all of which *)
(* one order may take, buys 2 fractions of 2.                              *)
THEOREM StaysSolvent ==
  ASSUME MaxPositionPct <= 50
  PROVE  Spec => []Solvent
<1>1. Init => Solvent BY StopAssumption DEF Init, Solvent
<1>2. StopInv /\ Solvent /\ [Next]_vars => Solvent'
  <2> SUFFICES ASSUME StopInv, Solvent, [Next]_vars PROVE bal' >= 0 BY DEF Solvent
  <2>1. /\ bal \in Nat /\ price \in Prices /\ price \in Nat /\ asset.fractions \in BOOLEAN
        /\ row.qty \in Nat
    BY Quoted DEF StopInv, StopTypeOK, Solvent, Assets, Position
  <2>2. ASSUME NEW q \in Nat \ {0}, Sold(q) PROVE bal' >= 0
    <3>1. q * price \in Nat BY <2>1
    <3> QED BY <2>1, <2>2, <3>1 DEF Sold
  <2>3. ASSUME NEW p \in Proposals, Propose(p), p.side = "buy" PROVE bal' >= 0
    <3>1. /\ Approved(p, bal, pnl, fills, asset.crypto, asset.fractions)
          /\ bal' = bal - Sized(p, bal, asset.fractions) * price
      BY <2>3 DEF Propose
    <3>2. PICK q \in Nat \ {0} : q = Sized(p, bal, asset.fractions)
      BY <2>1, <2>3, <3>1, SizeBought
    <3>3. Sized(p, bal, asset.fractions) * p.price <= bal BY <2>1, <2>3, <3>1, Affordable
    <3>4. p.price = price BY <2>1, ProposalTypes
    <3>5. q * price \in Nat BY <2>1
    <3> QED BY <2>1, <3>1, <3>2, <3>3, <3>4, <3>5
  <2>4. ASSUME NEW p \in Proposals, Propose(p), p.side = "sell" PROVE bal' >= 0
    <3>1. p.qty \in Nat \ {0} BY <2>1, ProposalTypes
    <3>2. Sold(p.qty) BY <2>4, SizeSold DEF Propose
    <3> QED BY <2>2, <3>1, <3>2
  <2>5. ASSUME NEW p \in Proposals, Propose(p) PROVE bal' >= 0
    <3>1. p.side = "buy" \/ p.side = "sell" BY DEF Proposals
    <3> QED BY <2>3, <2>4, <2>5, <3>1
  <2>6. CASE ExitSell
    <3>1. PICK q \in 1 .. row.qty : q = ExitQty(job.row) BY <2>6 DEF ExitSell
    <3>2. q \in Nat \ {0} BY <2>1, <3>1
    <3> QED BY <2>2, <2>6, <3>1, <3>2 DEF ExitSell
  <2>7. CASE \/ \E p \in Prices : PriceMoves(p)
             \/ NewDay \/ ExitPrice \/ ExitRow \/ ExitMark \/ ExitPass \/ UNCHANGED vars
    <3>1. bal' = bal
      BY <2>7 DEF PriceMoves, NewDay, ExitPrice, ExitRow, ExitMark, ExitPass, vars
    <3> QED BY <2>1, <3>1
  <2> QED BY <2>5, <2>6, <2>7 DEF Next, ExitStep
<1> QED BY <1>1, <1>2, StartsWell, StepsKeep, PTL DEF Spec

----------------------------------------------------------------------------
(* The stop level.                                                         *)

LEMMA HwmBounds ==
  ASSUME NEW r \in Position, NEW p \in Nat
  PROVE  /\ Hwm(r, p) \in Nat /\ Hwm(r, p) \in {r.hwm, r.entry, p}
         /\ Hwm(r, p) >= r.hwm /\ Hwm(r, p) >= r.entry /\ Hwm(r, p) >= p
<1>1. r.hwm \in Nat /\ r.entry \in Nat BY DEF Position
<1>2. PICK a \in Int, b \in Int, c \in Int : a = r.hwm /\ b = r.entry /\ c = p BY <1>1
<1>3. /\ Highest({a, b, c}) \in {a, b, c}
      /\ Highest({a, b, c}) >= a /\ Highest({a, b, c}) >= b /\ Highest({a, b, c}) >= c
  BY MaxThree
<1>4. Hwm(r, p) = Highest({a, b, c}) BY <1>2 DEF Hwm
<1> QED BY <1>1, <1>2, <1>3, <1>4

LEMMA PctRange ==
  ASSUME asset \in Assets, NEW r \in Position, r.stop <= 100, NEW p
  PROVE  /\ OwnPct(r) \in 0 .. 100
         /\ r.stop > 0 => OwnPct(r) = r.stop
         /\ Pct(r, p) \in {OwnPct(r), LockPct}
<1>1. r.stop \in Nat BY DEF Position
<1>2. OwnPct(r) \in 0 .. 100 BY <1>1, Percents DEF OwnPct
<1> QED BY <1>1, <1>2 DEF OwnPct, Pct

(* A row that differs by a higher mark only keeps its lock; one with the   *)
(* same entry and no lower a mark has a stop that is no lower, unless its  *)
(* lock was released, or took the place of a tighter stop.                 *)
LEMMA LockKept ==
  ASSUME NEW r \in Position, NEW s \in Position, s.qty = r.qty, s.entry = r.entry,
         r.hwm <= s.hwm, Locked(r, r.entry)
  PROVE  Locked(s, s.entry)
<1>1. /\ r.qty \in Nat /\ r.entry \in Nat /\ r.hwm \in Nat
      /\ s.qty \in Nat /\ s.entry \in Nat /\ s.hwm \in Nat
  BY DEF Position
<1>2. PICK x \in Nat : x = Hwm(r, r.entry) /\ x >= r.entry /\ x \in {r.hwm, r.entry}
  BY <1>1, HwmBounds
<1>3. PICK y \in Nat : y = Hwm(s, s.entry) /\ y >= s.entry /\ y >= s.hwm
  BY <1>1, HwmBounds
<1>4. x <= y BY <1>1, <1>2, <1>3
<1>5. x - r.entry \in Nat /\ y - r.entry \in Nat /\ x - r.entry <= y - r.entry
  BY <1>1, <1>2, <1>3, <1>4
<1>6. /\ (x - r.entry) * r.qty \in Nat /\ (y - r.entry) * r.qty \in Nat
      /\ (x - r.entry) * r.qty <= (y - r.entry) * r.qty
  BY <1>1, <1>5, ProductRises
<1>7. asset.crypto /\ (x - r.entry) * r.qty >= LockTrigger BY <1>2 DEF Locked
<1>8. (y - r.entry) * r.qty >= LockTrigger BY <1>6, <1>7, Percents
<1>9. (y - s.entry) * s.qty >= LockTrigger BY <1>8
<1> QED BY <1>3, <1>7, <1>9 DEF Locked

LEMMA LevelRises ==
  ASSUME asset \in Assets, asset.trailing,
         NEW r \in Position, NEW s \in Position, s.entry = r.entry, s.stop = r.stop,
         r.hwm <= s.hwm, r.stop <= 100,
         Locked(r, r.entry) => Locked(s, s.entry),
         ~Locked(r, r.entry) /\ Locked(s, s.entry) => OwnPct(r) >= LockPct
  PROVE  StopLevel(r, r.entry) <= StopLevel(s, s.entry)
<1>1. /\ r.qty \in Nat /\ r.entry \in Nat /\ r.hwm \in Nat /\ r.stop \in Nat
      /\ s.qty \in Nat /\ s.entry \in Nat /\ s.hwm \in Nat /\ s.stop \in Nat
  BY DEF Position
<1>2. PICK x \in Nat : x = Hwm(r, r.entry) /\ x \in {r.hwm, r.entry}
  BY <1>1, HwmBounds
<1>3. PICK y \in Nat : y = Hwm(s, s.entry) /\ y >= s.entry /\ y >= s.hwm
  BY <1>1, HwmBounds
<1>4. x <= y BY <1>1, <1>2, <1>3
<1>5. OwnPct(s) = OwnPct(r) BY DEF OwnPct
<1>6. PICK m \in 0 .. 100 : m = Pct(r, r.entry) BY <1>1, PctRange, Percents
<1>7. PICK n \in 0 .. 100 : n = Pct(s, s.entry) BY <1>1, PctRange, Percents
<1>8. n <= m
  <2>1. LockPct \in 1 .. 100 /\ OwnPct(r) \in Int BY <1>1, Percents DEF OwnPct
  <2>2. CASE Locked(r, r.entry)
    <3>1. m = LockPct /\ n = LockPct BY <1>6, <1>7, <2>2 DEF Pct
    <3> QED BY <2>1, <3>1
  <2>3. CASE ~Locked(r, r.entry) /\ ~Locked(s, s.entry)
    <3>1. m = OwnPct(r) /\ n = OwnPct(s) BY <1>6, <1>7, <2>3 DEF Pct
    <3> QED BY <1>5, <2>1, <3>1
  <2>4. CASE ~Locked(r, r.entry) /\ Locked(s, s.entry)
    <3>1. m = OwnPct(r) /\ n = LockPct BY <1>6, <1>7, <2>4 DEF Pct
    <3> QED BY <2>1, <2>4, <3>1
  <2> QED BY <2>2, <2>3, <2>4
<1>9. 100 - m \in Nat /\ 100 - n \in Nat /\ 100 - m <= 100 - n BY <1>8
<1>10. x * (100 - m) <= y * (100 - n) BY <1>4, <1>9, ProductRises
<1> QED BY <1>2, <1>3, <1>6, <1>7, <1>10 DEF StopLevel

(* What a step may do to the row.                                          *)
LEMMA RowMoves ==
  ASSUME StopInv, [Next]_vars
  PROVE  /\ asset' = asset
         /\ \/ row'.qty > row.qty
            \/ /\ row'.qty <= row.qty
               /\ row'.qty > 0 => /\ row'.entry = row.entry /\ row'.stop = row.stop
                                  /\ row'.hwm >= row.hwm
<1> DEFINE Moves ==
      \/ row'.qty > row.qty
      \/ /\ row'.qty <= row.qty
         /\ row'.qty > 0 => /\ row'.entry = row.entry /\ row'.stop = row.stop
                            /\ row'.hwm >= row.hwm
<1>1. /\ row.qty \in Nat /\ row.hwm \in Nat /\ row'.qty \in Nat /\ row'.hwm \in Nat
  <2>1. StopInv' BY StepsKeep
  <2> QED BY <2>1 DEF StopInv, StopTypeOK, Position
<1>2. asset' = asset
  BY DEF Next, ExitStep, Propose, PriceMoves, NewDay, ExitPrice, ExitRow, ExitMark,
         ExitSell, ExitPass, vars
<1>3. ASSUME NEW p \in Proposals, Propose(p) PROVE Moves
  <2>1. p.side = "buy" \/ p.side = "sell" BY DEF Proposals
  <2>2. CASE p.side = "buy"
    <3>1. row'.qty > row.qty BY <1>3, <2>2, BuyKeeps
    <3> QED BY <3>1
  <2>3. CASE p.side = "sell" BY <1>1, <1>3, <2>3, SellKeeps
  <2> QED BY <2>1, <2>2, <2>3
<1>4. ASSUME ExitRow PROVE Moves BY <1>1, <1>4, ExitRowKeeps
<1>5. ASSUME ExitMark PROVE Moves BY <1>1, <1>5, ExitMarkKeeps
<1>6. ASSUME ExitSell PROVE Moves BY <1>1, <1>6, ExitSellKeeps
<1>7. ASSUME \/ \E p \in Prices : PriceMoves(p)
             \/ NewDay \/ ExitPrice \/ ExitPass \/ UNCHANGED vars
      PROVE  Moves
  <2>1. row' = row BY <1>7 DEF PriceMoves, NewDay, ExitPrice, ExitPass, vars
  <2> QED BY <1>1, <2>1
<1> HIDE DEF Moves
<1>8. Moves BY <1>3, <1>4, <1>5, <1>6, <1>7 DEF Next, ExitStep
<1> QED BY <1>2, <1>8 DEF Moves

(* A trailing stop never moves down while the position is only held or     *)
(* partly sold, except by the step that releases its profit lock, or that  *)
(* engages it on a position whose own stop is tighter than the lock.       *)
THEOREM StopsNeverFall == Spec => StopNeverFalls
<1> DEFINE Kept == asset.trailing /\ Held /\ row'.qty \in 1 .. row.qty
                     /\ ~LockReleased /\ ~LockLoosens => Level' >= Level
<1>1. StopInv /\ [Next]_vars => [Kept]_vars
  <2> SUFFICES ASSUME StopInv, [Next]_vars, asset.trailing, row'.qty \in 1 .. row.qty,
                      ~LockReleased, ~LockLoosens
               PROVE  Level' >= Level
    OBVIOUS
  <2>1. StopInv' BY StepsKeep
  <2>2. /\ asset \in Assets /\ row \in Position /\ row' \in Position
        /\ row.qty \in Nat /\ row'.qty \in Nat /\ row.stop <= 100
        /\ row'.qty > 0 /\ row'.qty <= row.qty
    BY <2>1 DEF StopInv, StopTypeOK, Bounded, Position
  <2>3. /\ asset' = asset /\ row'.entry = row.entry /\ row'.stop = row.stop
        /\ row'.hwm >= row.hwm
    BY <2>2, RowMoves
  <2>4. row.hwm \in Nat /\ row'.hwm \in Nat BY <2>2 DEF Position
  <2>5. row.hwm <= row'.hwm BY <2>3, <2>4
  <2>6. StopLevel(row, row.entry) <= StopLevel(row', row'.entry)
    <3>1. Locked(row, row.entry)' <=> Locked(row', row'.entry) BY <2>3 DEF Locked, Hwm
    <3>2. Locked(row, row.entry) => Locked(row', row'.entry) BY <3>1 DEF LockReleased
    <3>3. OwnPct(row) \in Int /\ LockPct \in Int BY <2>2, Percents DEF OwnPct, Position
    <3>4. ~Locked(row, row.entry) /\ Locked(row', row'.entry) => OwnPct(row) >= LockPct
      BY <3>1, <3>3 DEF LockLoosens
    <3> QED BY <2>2, <2>3, <2>5, <3>2, <3>4, LevelRises
  <2>7. Level' = StopLevel(row', row'.entry)
    BY <2>3 DEF Level, StopLevel, Pct, OwnPct, Locked, Hwm
  <2>8. row.entry \in Nat /\ row'.entry \in Nat BY <2>2 DEF Position
  <2>9. StopLevel(row, row.entry) \in Int /\ StopLevel(row', row'.entry) \in Int
    <3>1. ASSUME NEW r \in Position, r.stop <= 100 PROVE StopLevel(r, r.entry) \in Int
      <4>1. r.entry \in Nat BY DEF Position
      <4>2. Hwm(r, r.entry) \in Nat BY <4>1, HwmBounds
      <4>3. Pct(r, r.entry) \in 0 .. 100 BY <2>2, <3>1, PctRange, Percents
      <4> QED BY <4>1, <4>2, <4>3 DEF StopLevel
    <3>2. row'.stop <= 100 BY <2>2, <2>3
    <3> QED BY <2>2, <3>1, <3>2
  <2> QED BY <2>6, <2>7, <2>9 DEF Level
<1> HIDE DEF Kept
<1>2. Spec => [][Kept]_vars BY <1>1, StartsWell, StepsKeep, PTL DEF Spec
<1> QED BY <1>2 DEF StopNeverFalls, Kept

(* A price, or a correction of the mark, never releases a profit lock.     *)
THEOREM LocksHold == Spec => LockOutlivesPrices
<1> DEFINE Kept ==
      Held /\ asset.trailing /\ Locked(row, row.entry) /\ row'.qty = row.qty
        => Locked(row, row.entry)'
<1>1. StopInv /\ [Next]_vars => [Kept]_vars
  <2> SUFFICES ASSUME StopInv, [Next]_vars, Held, Locked(row, row.entry), row'.qty = row.qty
               PROVE  Locked(row, row.entry)'
    OBVIOUS
  <2>1. StopInv' BY StepsKeep
  <2>2. /\ row \in Position /\ row' \in Position /\ row.qty \in Nat /\ row'.qty \in Nat
        /\ row.hwm \in Nat /\ row'.hwm \in Nat
    BY <2>1 DEF StopInv, StopTypeOK, Position
  <2>3. asset' = asset /\ row'.entry = row.entry /\ row'.hwm >= row.hwm
    BY <2>2, RowMoves DEF Held
  <2>4. row.hwm <= row'.hwm BY <2>2, <2>3
  <2>5. Locked(row', row'.entry) BY <2>2, <2>3, <2>4, LockKept
  <2> QED BY <2>3, <2>5 DEF Locked, Hwm
<1> HIDE DEF Kept
<1>2. Spec => [][Kept]_vars BY <1>1, StartsWell, StepsKeep, PTL DEF Spec
<1> QED BY <1>2 DEF LockOutlivesPrices, Kept

(* A trailing exit of the position that was listed is made only at a price *)
(* that has come down from its peak by the smaller of its stop distances.  *)
THEOREM ExitsAreOffThePeak == Spec => ExitsOffThePeak
<1> DEFINE least == IF OwnPct(row) < LockPct THEN OwnPct(row) ELSE LockPct
           Off == Fires /\ asset.trailing /\ job.same /\ row'.qty < row.qty =>
                    job.price * 100 <= peak * (100 - least)
<1>1. StopInv => [Off]_vars
  <2> SUFFICES ASSUME StopInv, Fires, asset.trailing, job.same
               PROVE  job.price * 100 <= peak * (100 - least)
    OBVIOUS
  <2>1. /\ asset \in Assets /\ row \in Position /\ job.row \in Position
        /\ job.price \in Nat /\ peak \in Nat
        /\ row.stop <= 100 /\ job.row.stop <= 100
        /\ job.row.hwm \in Nat /\ job.row.entry \in Nat
    BY DEF StopInv, StopTypeOK, Bounded, Position
  <2>2. /\ job.row.stop = row.stop /\ Below(job.row, peak) /\ job.price <= peak
        /\ job.pc = "decide"
    BY DEF StopInv, Listed, Fires
  <2>3. OwnPct(job.row) = OwnPct(row) BY <2>2 DEF OwnPct
  <2>4. PICK o \in 0 .. 100 : o = OwnPct(row) BY <2>1, PctRange
  <2>5. PICK m \in 0 .. 100 : m = Pct(job.row, job.price) /\ m \in {o, LockPct}
    BY <2>1, <2>3, <2>4, PctRange, Percents
  <2>6. PICK k \in 0 .. 100 : k = least /\ k <= m BY <2>4, <2>5, Percents
  <2>7. PICK h \in Nat : h = Hwm(job.row, job.price) /\ h <= peak
    <3>1. /\ Hwm(job.row, job.price) \in Nat
          /\ Hwm(job.row, job.price) \in {job.row.hwm, job.row.entry, job.price}
      BY <2>1, HwmBounds
    <3> QED BY <2>1, <2>2, <3>1 DEF Below
  <2>8. job.price * 100 <= h * (100 - m)
    BY <2>5, <2>7 DEF Fires, Hit, StopLevel
  <2>9. 100 - m \in Nat /\ 100 - k \in Nat /\ 100 - m <= 100 - k BY <2>6
  <2>10. /\ h * (100 - m) \in Nat /\ peak * (100 - k) \in Nat
         /\ h * (100 - m) <= peak * (100 - k)
    BY <2>1, <2>7, <2>9, ProductRises
  <2>11. job.price * 100 <= peak * (100 - k) BY <2>1, <2>8, <2>10
  <2> HIDE DEF least
  <2> QED BY <2>6, <2>11
<1> HIDE DEF Off
<1>2. Spec => [][Off]_vars BY <1>1, StartsWell, StepsKeep, PTL DEF Spec
<1> QED BY <1>2 DEF ExitsOffThePeak, Off
=============================================================================
