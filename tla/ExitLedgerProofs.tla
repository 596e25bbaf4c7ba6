-------------------------- MODULE ExitLedgerProofs --------------------------
(***************************************************************************)
(* What holds of OrderLedger once the Controller's own seller is composed  *)
(* with it, for any number of agents, symbols, orders and threads: type    *)
(* correctness with any number of pods and, with one pod, that exits keep  *)
(* every promise the ledger made without them.                             *)
(***************************************************************************)
EXTENDS ExitLedger, OrderLedgerProofs

ExitState == [pc : ExitPC, rows : SUBSET Row, row : SUBSET Row, bal : Int,
              seen : [Symbols -> Int], order : Orders \cup {NoOrder}, filled : BOOLEAN]

\* the points of the pass at which it has an order of its own
Selling == {"record", "mark", "cash", "position"}

\* What a pass has in hand: an order once it has submitted one, and a quantity above
\* zero when it is about to true a row up to it.
ExitOK(e) ==
  /\ e \in ExitState
  /\ e.pc \in Selling => e.order \in Orders
  /\ e.pc = "trueup" => \A r \in e.row : e.seen[r.symbol] > 0

ExitsOK == \A p \in Pods : ExitOK(ex[p])

XTypeInv == TypeInv /\ ExitTypeOK /\ ExitsOK

LEMMA IdleExitOK == ExitOK(IdleExit)
BY DEF ExitOK, ExitState, ExitPC, IdleExit, Selling

LEMMA RowDoneOK ==
  ASSUME NEW e, e \in ExitState
  PROVE  ExitOK(RowDone(e))
<1> DEFINE f == [e EXCEPT !.pc = "next", !.row = {}, !.bal = 0, !.order = NoOrder,
                          !.filled = FALSE]
<1>1. PICK zero \in Int : zero = 0 OBVIOUS
<1>2. f = [e EXCEPT !.pc = "next", !.row = {}, !.bal = zero, !.order = NoOrder, !.filled = FALSE]
  BY <1>1
<1> HIDE DEF f
<1>3. ExitOK(f) BY <1>2 DEF ExitOK, ExitState, ExitPC, Selling
<1>4. RowDone(e) = IF e.rows = {} THEN IdleExit ELSE f BY DEF RowDone, f
<1> QED BY <1>3, <1>4, IdleExitOK


\* A pass takes a step and leaves the tables' types as they are.
LEMMA ExitMoves ==
  ASSUME XTypeInv, NEW p \in Pods, NEW e, ExitOK(e), ex' = [ex EXCEPT ![p] = e],
         TypeInv', fallen' \subseteq Symbols, credited' \in [Symbols -> Nat]
  PROVE  XTypeInv'
<1>1. ex \in [Pods -> ExitState] BY DEF XTypeInv, ExitTypeOK, ExitState
<1>2. ex' \in [Pods -> ExitState] BY <1>1 DEF ExitOK
<1>3. ExitsOK'
  BY <1>1 DEF XTypeInv, ExitsOK
<1> QED BY <1>2, <1>3 DEF XTypeInv, ExitTypeOK, ExitState

LEMMA TablesKept ==
  ASSUME TypeInv, UNCHANGED vars
  PROVE  TypeInv'
BY DEF TypeInv, TypeOK, vars

LEMMA StartCredited == [s \in Symbols |-> 0] \in [Symbols -> Nat]
OBVIOUS

LEMMA XInitType == XInit => XTypeInv
<1> SUFFICES ASSUME XInit PROVE XTypeInv OBVIOUS
<1>1. TypeInv BY InitType DEF XInit
<1>2. ExitsOK BY IdleExitOK DEF XInit, ExitsOK
<1>3. ex \in [Pods -> ExitState] BY IdleExitOK DEF XInit, ExitOK
<1> QED BY <1>1, <1>2, <1>3 DEF XInit, XTypeInv, ExitTypeOK, ExitState

LEMMA RowsHeld ==
  ASSUME XTypeInv, NEW p \in Pods
  PROVE  /\ ex[p] \in ExitState /\ ExitOK(ex[p])
         /\ ex[p].row \subseteq Row /\ ex[p].rows \subseteq Row
         /\ fallen \subseteq Symbols /\ credited \in [Symbols -> Nat]
BY DEF XTypeInv, ExitTypeOK, ExitsOK, ExitState

\* The pass reads: no table changes.
LEMMA ExitReadType ==
  ASSUME XTypeInv, NEW p \in Pods,
         \/ ExitBegin(p) \/ ExitList(p)
         \/ \E r \in ex[p].rows : ExitNext(p, r)
         \/ \E r \in ex[p].row : ExitKeep(p, r) \/ ExitStop(p, r) \/ ExitAgent(p, r)
  PROVE  XTypeInv'
<1>0. ex[p] \in ExitState /\ ExitOK(ex[p]) /\ ex[p].row \subseteq Row /\ ex[p].rows \subseteq Row
      /\ fallen \subseteq Symbols /\ credited \in [Symbols -> Nat]
  BY RowsHeld
<1>1. UNCHANGED <<vars, fallen, credited>>
  BY DEF ExitBegin, ExitList, ExitNext, ExitKeep, ExitStop, ExitAgent
<1>2. TypeInv' BY <1>1, TablesKept DEF XTypeInv
<1>3. \E e : ExitOK(e) /\ ex' = [ex EXCEPT ![p] = e]
  <2>1. CASE ExitBegin(p)
    <3>1. PICK seen : /\ seen \in {held, [s \in Symbols |-> 0]}
                      /\ ex' = [ex EXCEPT ![p].pc = "list", ![p].seen = seen]
      BY <2>1 DEF ExitBegin
    <3>2. seen \in [Symbols -> Int] BY <3>1 DEF XTypeInv, TypeInv, TypeOK
    <3> DEFINE e == [ex[p] EXCEPT !.pc = "list", !.seen = seen]
    <3>3. ExitOK(e) BY <1>0, <3>2 DEF ExitOK, ExitState, ExitPC, Selling
    <3>4. ex' = [ex EXCEPT ![p] = e] BY <3>1
    <3> QED BY <3>3, <3>4
  <2>2. CASE ExitList(p)
    <3>1. OpenRows \subseteq Row BY DEF OpenRows, Row, XTypeInv, TypeInv, TypeOK
    <3> DEFINE e == [ex[p] EXCEPT !.pc = "next", !.rows = OpenRows]
    <3>2. ExitOK(e) BY <1>0, <3>1 DEF ExitOK, ExitState, ExitPC, Selling
    <3>3. ex' = [ex EXCEPT ![p] = IF OpenRows = {} THEN IdleExit ELSE e]
      BY <2>2 DEF ExitList
    <3> QED BY <3>2, <3>3, IdleExitOK
  <2>3. CASE \E r \in ex[p].rows : ExitNext(p, r)
    <3>1. PICK r \in ex[p].rows : ExitNext(p, r) BY <2>3
    <3>2. r \in Row BY <1>0
    <3>3. r.agent \in Agents /\ r.symbol \in Symbols /\ r.qty \in Nat BY <3>2 DEF Row
    <3> DEFINE actual == ex[p].seen[r.symbol]
               pc == IF actual >= r.qty THEN "price"
                     ELSE IF actual <= 0 THEN "credit" ELSE "trueup"
               b == cash[r.agent]
               e == [ex[p] EXCEPT !.rows = @ \ {r}, !.row = {r}, !.bal = b, !.pc = pc]
    <3>4. actual \in Int BY <1>0, <3>3 DEF ExitState
    <3>5. b \in Int BY <3>3 DEF XTypeInv, TypeInv, TypeOK
    <3>6. pc \in ExitPC \ Selling /\ (pc = "trueup" => actual > 0)
      BY <3>4 DEF ExitPC, Selling
    <3>7. ex' = [ex EXCEPT ![p] = e] BY <3>1 DEF ExitNext
    <3> HIDE DEF pc, b
    <3>8. ExitOK(e) BY <1>0, <3>2, <3>5, <3>6 DEF ExitOK, ExitState
    <3> QED BY <3>7, <3>8
  <2>4. CASE \E r \in ex[p].row : ExitKeep(p, r)
    BY <1>0, <2>4, RowDoneOK DEF ExitKeep
  <2>5. CASE \E r \in ex[p].row : ExitStop(p, r)
    <3> DEFINE e == [ex[p] EXCEPT !.pc = "agent"]
    <3>1. ex' = [ex EXCEPT ![p] = e] BY <2>5 DEF ExitStop
    <3>2. ExitOK(e) BY <1>0 DEF ExitOK, ExitState, ExitPC, Selling
    <3> QED BY <3>1, <3>2
  <2>6. CASE \E r \in ex[p].row : ExitAgent(p, r)
    <3>1. PICK r \in ex[p].row : ExitAgent(p, r) BY <2>6
    <3>2. r.agent \in Agents BY <1>0 DEF Row
    <3> DEFINE b == cash[r.agent]
               e == [ex[p] EXCEPT !.pc = "submit", !.bal = b]
    <3>3. b \in Int BY <3>2 DEF XTypeInv, TypeInv, TypeOK
    <3>4. ex' = [ex EXCEPT ![p] = e] BY <3>1 DEF ExitAgent
    <3> HIDE DEF b
    <3>5. ExitOK(e) BY <1>0, <3>3 DEF ExitOK, ExitState, ExitPC, Selling
    <3> QED BY <3>4, <3>5
  <2> QED BY <2>1, <2>2, <2>3, <2>4, <2>5, <2>6
<1> QED BY <1>0, <1>1, <1>2, <1>3, ExitMoves

\* The pass brings a row in line with what the broker holds.
LEMMA ReconcileType ==
  ASSUME XTypeInv, NEW p \in Pods, NEW r \in ex[p].row,
         ExitCredit(p, r) \/ ExitClear(p, r) \/ ExitTrueUp(p, r)
  PROVE  XTypeInv'
<1>0. ex[p] \in ExitState /\ ExitOK(ex[p]) /\ r \in Row /\ TypeInv /\ TypeOK
      /\ fallen \subseteq Symbols /\ credited \in [Symbols -> Nat]
  BY RowsHeld DEF XTypeInv, TypeInv
<1>1. r.agent \in Agents /\ r.symbol \in Symbols /\ r.qty \in Nat BY <1>0 DEF Row
<1>2. CASE ExitCredit(p, r)
  <2> DEFINE e == [ex[p] EXCEPT !.pc = "clear"]
             b == ex[p].bal + r.qty
             c == credited[r.symbol] + r.qty
  <2>1. ExitOK(e) BY <1>0 DEF ExitOK, ExitState, ExitPC, Selling
  <2>2. ex' = [ex EXCEPT ![p] = e] BY <1>2 DEF ExitCredit
  <2>3. b \in Int /\ c \in Nat BY <1>0, <1>1 DEF ExitState
  <2>4. cash' = [cash EXCEPT ![r.agent] = b] /\ credited' = [credited EXCEPT ![r.symbol] = c]
    BY <1>2 DEF ExitCredit
  <2> HIDE DEF e, b, c
  <2>5. cash' \in [Agents -> Int] /\ credited' \in [Symbols -> Nat] /\ stale' \subseteq Agents
    BY <1>0, <1>1, <1>2, <2>3, <2>4 DEF ExitCredit, TypeOK
  <2>6. TypeInv' /\ fallen' = fallen BY <1>0, <1>2, <2>5 DEF ExitCredit, TypeInv, TypeOK
  <2> QED BY <1>0, <2>1, <2>2, <2>5, <2>6, ExitMoves
<1>3. CASE ExitClear(p, r)
  <2>1. pos' \in [Agents -> [Symbols -> Nat]] BY <1>0, <1>1, <1>3 DEF ExitClear, TypeOK
  <2>2. TypeInv' /\ fallen' = fallen /\ credited' = credited
    BY <1>0, <1>3, <2>1 DEF ExitClear, TypeInv, TypeOK
  <2>3. ex' = [ex EXCEPT ![p] = RowDone(ex[p])] BY <1>3 DEF ExitClear
  <2> QED BY <1>0, <2>2, <2>3, RowDoneOK, ExitMoves
<1>4. CASE ExitTrueUp(p, r)
  <2> DEFINE actual == ex[p].seen[r.symbol]
             q == IF pos[r.agent][r.symbol] = 0 THEN 0 ELSE actual
             s == [r EXCEPT !.qty = actual]
             e == [ex[p] EXCEPT !.pc = "price", !.row = {s}]
  <2>1. actual \in Nat
    <3>1. ex[p].pc = "trueup" BY <1>4 DEF ExitTrueUp
    <3>2. actual \in Int /\ actual > 0 BY <1>0, <1>1, <3>1 DEF ExitOK, ExitState
    <3> QED BY <3>2
  <2>2. ex' = [ex EXCEPT ![p] = e] BY <1>4 DEF ExitTrueUp
  <2>3. pos' = [pos EXCEPT ![r.agent][r.symbol] = q] BY <1>4 DEF ExitTrueUp
  <2> HIDE DEF actual
  <2>4. q \in Nat /\ s \in Row BY <1>0, <2>1 DEF Row
  <2> HIDE DEF q, s
  <2>5. ExitOK(e) BY <1>0, <2>4 DEF ExitOK, ExitState, ExitPC, Selling
  <2>6. pos' \in [Agents -> [Symbols -> Nat]] BY <1>0, <1>1, <2>3, <2>4 DEF TypeOK
  <2>7. TypeInv' /\ fallen' = fallen /\ credited' = credited
    BY <1>0, <1>4, <2>6 DEF ExitTrueUp, TypeInv, TypeOK
  <2> QED BY <1>0, <2>2, <2>5, <2>7, ExitMoves
<1> QED BY <1>2, <1>3, <1>4

\* The pass sells.
LEMMA ExitSellType ==
  ASSUME XTypeInv, NEW p \in Pods,
         \/ \E r \in ex[p].row : (\E o \in Orders : ExitSubmit(p, r, o)) \/ ExitRecord(p, r)
         \/ ExitMark(p) \/ ExitCash(p) \/ ExitPosition(p)
  PROVE  XTypeInv'
<1>0. ex[p] \in ExitState /\ ExitOK(ex[p]) /\ ex[p].row \subseteq Row /\ TypeInv /\ TypeOK
      /\ fallen \subseteq Symbols /\ credited \in [Symbols -> Nat]
  BY RowsHeld DEF XTypeInv, TypeInv
<1> DEFINE o == ex[p].order
<1>1. ASSUME ex[p].pc \in Selling PROVE o \in Orders /\ trade[o].qty \in Nat /\ ex[p].bal \in Int
  BY <1>0, <1>1 DEF ExitOK, ExitState, TypeOK, TradeRow
<1> HIDE DEF o
<1>2. CASE \E r \in ex[p].row, t \in Orders : ExitSubmit(p, r, t)
  <2>1. PICK r \in ex[p].row, t \in Orders : ExitSubmit(p, r, t) BY <1>2
  <2>2. r.qty \in Nat BY <1>0 DEF Row
  <2>3. PICK outcome \in {"working", "filled", "failed"} :
          /\ Submitted(t, r.qty, outcome)
          /\ ex' = [ex EXCEPT ![p] = IF outcome = "failed" THEN RowDone(@)
                                     ELSE [@ EXCEPT !.pc = "record", !.order = t,
                                                    !.filled = outcome = "filled"]]
    BY <2>1 DEF ExitSubmit
  <2>4. brk' \in [Orders -> BrokerOrder] /\ held' \in [Symbols -> Int]
    BY <1>0, <2>2, <2>3, SubmittedType
  <2>5. TypeInv' /\ fallen' = fallen /\ credited' = credited
    BY <1>0, <2>1, <2>4 DEF ExitSubmit, TypeInv, TypeOK
  <2> DEFINE e == [ex[p] EXCEPT !.pc = "record", !.order = t, !.filled = (outcome = "filled")]
  <2>6. ex' = [ex EXCEPT ![p] = IF outcome = "failed" THEN RowDone(ex[p]) ELSE e]
    BY <2>3
  <2>7. ExitOK(e) BY <1>0 DEF ExitOK, ExitState, ExitPC, Selling
  <2> HIDE DEF e
  <2> QED BY <1>0, <2>5, <2>6, <2>7, RowDoneOK, ExitMoves
<1>3. CASE \E r \in ex[p].row : ExitRecord(p, r)
  <2>1. PICK r \in ex[p].row : ExitRecord(p, r) BY <1>3
  <2>2. r.qty \in Nat BY <1>0 DEF Row
  <2> DEFINE row == [status |-> IF ex[p].filled THEN "filled" ELSE "accepted",
                     id |-> FALSE, qty |-> r.qty]
             e == [ex[p] EXCEPT !.pc = "mark"]
  <2>3. row \in TradeRow BY <2>2 DEF TradeRow
  <2>4. /\ trade' = [trade EXCEPT ![o] = row] /\ ex' = [ex EXCEPT ![p] = e]
        /\ ex[p].pc = "record"
    BY <2>1 DEF ExitRecord, o
  <2> HIDE DEF row
  <2>5. trade' \in [Orders -> TradeRow] BY <1>0, <2>3, <2>4 DEF TypeOK
  <2>6. TypeInv' /\ fallen' = fallen /\ credited' = credited
    BY <1>0, <2>1, <2>5 DEF ExitRecord, TypeInv, TypeOK
  <2>7. ExitOK(e) BY <1>0, <2>4 DEF ExitOK, ExitState, ExitPC, Selling
  <2> QED BY <1>0, <2>4, <2>6, <2>7, ExitMoves
<1>4. CASE ExitMark(p)
  <2>1. ex[p].pc = "mark" /\ o \in Orders BY <1>1, <1>4 DEF ExitMark, Selling
  <2>2. trade' \in [Orders -> TradeRow]
    <3>1. PICK st \in {"accepted", "filled"} : UpdateTradeStatus(o, st, TRUE)
      BY <1>4 DEF ExitMark, o
    <3> QED BY <1>0, <2>1, <3>1, UpdateTradeStatusType
  <2>3. TypeInv' /\ fallen' = fallen /\ credited' = credited
    BY <1>0, <1>4, <2>2 DEF ExitMark, TypeInv, TypeOK
  <2> DEFINE e == [ex[p] EXCEPT !.pc = "cash"]
  <2>4. ExitOK(e) BY <1>0, <2>1 DEF ExitOK, ExitState, ExitPC, Selling
  <2>5. ex' = [ex EXCEPT ![p] = IF ex[p].filled THEN e ELSE RowDone(ex[p])]
    BY <1>4 DEF ExitMark
  <2> HIDE DEF e
  <2> QED BY <1>0, <2>3, <2>4, <2>5, RowDoneOK, ExitMoves
<1>5. CASE ExitCash(p)
  <2>1. ex[p].pc = "cash" /\ BookFill(o, ex[p].bal, trade[o].qty) BY <1>5 DEF ExitCash, o
  <2>2. cash' \in [Agents -> Int] /\ booked' \in [Orders -> Nat] /\ stale' \subseteq Agents
    BY <1>0, <1>1, <2>1, BookFillType DEF Selling
  <2>3. TypeInv' /\ fallen' = fallen /\ credited' = credited
    BY <1>0, <1>5, <2>2 DEF ExitCash, TypeInv, TypeOK
  <2> DEFINE e == [ex[p] EXCEPT !.pc = "position"]
  <2>4. ExitOK(e) BY <1>0, <2>1 DEF ExitOK, ExitState, ExitPC, Selling
  <2>5. ex' = [ex EXCEPT ![p] = e] BY <1>5 DEF ExitCash
  <2> QED BY <1>0, <2>3, <2>4, <2>5, ExitMoves
<1>6. CASE ExitPosition(p)
  <2>1. ex[p].pc = "position" /\ ApplyFill(o, trade[o].qty) BY <1>6 DEF ExitPosition, o
  <2>2. pos' \in [Agents -> [Symbols -> Nat]] /\ oversold' \subseteq Symbols
    BY <1>0, <1>1, <2>1, ApplyFillType DEF Selling
  <2>3. TypeInv' /\ fallen' = fallen /\ credited' = credited
    BY <1>0, <1>6, <2>2 DEF ExitPosition, TypeInv, TypeOK
  <2>4. ex' = [ex EXCEPT ![p] = RowDone(ex[p])] BY <1>6 DEF ExitPosition
  <2> QED BY <1>0, <2>3, <2>4, RowDoneOK, ExitMoves
<1> QED BY <1>2, <1>3, <1>4, <1>5, <1>6

LEMMA OutsideType ==
  ASSUME XTypeInv, NEW s \in Symbols, ManualClose(s) \/ PriceMoves(s)
  PROVE  XTypeInv'
<1>1. CASE ManualClose(s)
  <2>1. held' \in [Symbols -> Int] BY <1>1 DEF ManualClose, XTypeInv, TypeInv, TypeOK
  <2> QED BY <1>1, <2>1 DEF ManualClose, XTypeInv, TypeInv, TypeOK, ExitTypeOK, ExitsOK
<1>2. CASE PriceMoves(s)
  <2>1. fallen' \subseteq Symbols BY <1>2 DEF PriceMoves, XTypeInv, ExitTypeOK
  <2> QED BY <1>2, <2>1 DEF PriceMoves, vars, XTypeInv, TypeInv, TypeOK, ExitTypeOK, ExitsOK
<1> QED BY <1>1, <1>2

\* A pass that ends where it is, in a crash or on a failed database call.
LEMMA ExitEndsType ==
  ASSUME XTypeInv, NEW p \in Pods, ExitAbort(p) \/ XCrash(p)
  PROVE  XTypeInv'
<1>1. ex' = [ex EXCEPT ![p] = IdleExit] /\ fallen' = fallen /\ credited' = credited
  BY DEF ExitAbort, XCrash
<1>2. TypeInv /\ TypeOK /\ fallen \subseteq Symbols /\ credited \in [Symbols -> Nat]
  BY DEF XTypeInv, ExitTypeOK, TypeInv
<1>3. TypeInv'
  <2>1. CASE ExitAbort(p) BY <1>2, <2>1, TablesKept DEF ExitAbort
  <2>2. CASE XCrash(p) BY <1>2, <2>2, DropSteps, DroppedType DEF XCrash
  <2> QED BY <2>1, <2>2
<1> QED BY <1>1, <1>2, <1>3, IdleExitOK, ExitMoves

LEMMA XTypeNext == XTypeInv /\ [XNext]_xvars => XTypeInv'
<1> SUFFICES ASSUME XTypeInv, [XNext]_xvars PROVE XTypeInv' OBVIOUS
<1>1. CASE UNCHANGED xvars
  <2>1. TypeInv' BY <1>1, TablesKept DEF xvars, XTypeInv
  <2> QED BY <1>1, <2>1 DEF xvars, exVars, XTypeInv, ExitTypeOK, ExitsOK
<1>2. CASE Step /\ UNCHANGED exVars
  <2>1. TypeInv' BY <1>2, TypeNext DEF Next, XTypeInv
  <2> QED BY <1>2, <2>1 DEF exVars, XTypeInv, ExitTypeOK, ExitsOK
<1>3. CASE \E p \in Pods : ExitStep(p)
  <2>1. PICK p \in Pods : ExitStep(p) BY <1>3
  <2> QED BY <2>1, ExitReadType, ReconcileType, ExitSellType DEF ExitStep
<1>4. CASE \E p \in Pods : ExitAbort(p) \/ XCrash(p) BY <1>4, ExitEndsType
<1>5. CASE \E s \in Symbols : ManualClose(s) \/ PriceMoves(s) BY <1>5, OutsideType
<1> QED BY <1>1, <1>2, <1>3, <1>4, <1>5 DEF XNext

\* Type correctness with the exits among the writers, for any number of pods: whatever
\* the broker's answer says it holds, a pass never writes a negative position or row.
THEOREM ExitTypeCorrect == XSpec => []ExitTypeOK
<1>1. XTypeInv => ExitTypeOK BY DEF XTypeInv
<1> QED BY <1>1, XInitType, XTypeNext, PTL DEF XSpec

----------------------------------------------------------------------------
USE DEF Real

\* With one pod.  What each point of the pass has made of the row of its order: it is
\* submitted before it has a row, and no sync pass lists it before its id is stored.
ExitInv(p) ==
  LET e == ex[p]
      o == e.order
  IN  /\ e.pc \in Selling =>
           /\ o.auto
           /\ \A q \in Pods : sy[q].pc \in {"cash", "position"} => sy[q].order # o
      /\ e.pc = "record" => trade[o].status = "none"
      /\ e.pc \in {"record", "mark"} /\ e.filled => Real(o)
      /\ e.pc = "mark" => /\ trade[o].status = IF e.filled THEN "filled" ELSE "accepted"
                          /\ ~trade[o].id
      /\ e.pc \in {"mark", "cash"} => booked[o] = 0
      /\ e.pc \in {"cash", "position"} => trade[o].status = "filled"

XInv == XTypeInv /\ IInv /\ \A p \in Pods : ExitInv(p)

LEMMA XInitSafe == XInit => XInv
<1> SUFFICES ASSUME XInit PROVE XInv OBVIOUS
<1>1. ASSUME NEW p \in Pods PROVE ExitInv(p)
  BY DEF XInit, ExitInv, IdleExit, Selling
<1> QED BY <1>1, XInitType, InitSafe DEF XInit, XInv

\* IInv says nothing of balances, positions or what the broker holds.
LEMMA SafeKept == ASSUME IInv, UNCHANGED <<trade, booked, brk, hd, sy>> PROVE Safe'
BY DEF IInv, Safe, RowInv, HandlerInv, SyncInv, Exclusive, PendingOrders, Accepted

\* A row that no thread and no sync pass works on may change, if it stays in order.
LEMMA FreeRowSafe ==
  ASSUME IInv, NEW o \in Orders, o.auto, \A q \in Pods : o \notin sy[q].todo,
         NEW row, trade' = [trade EXCEPT ![o] = row],
         UNCHANGED <<booked, brk, hd, sy>>, RowInv(o)'
  PROVE  Safe'
<1>1. trade'[o] = row /\ \A t \in Orders \ {o} : trade'[t] = trade[t] BY DEF IInv, TypeOK
<1>2. ASSUME NEW t \in Orders PROVE RowInv(t)'
  BY <1>1 DEF IInv, RowInv
<1>3. ASSUME NEW h \in Handlers PROVE HandlerInv(h)'
  BY <1>1 DEF IInv, HandlerInv
<1>4. ASSUME NEW q \in Pods PROVE SyncInv(q)'
  <2>1. SyncInv(q) /\ sy[q].todo \subseteq Orders \ {o} BY DEF IInv, TypeOK, SyncState
  <2> QED BY <1>1, <2>1 DEF SyncInv, PendingOrders, Accepted
<1>5. Exclusive' BY DEF IInv, Exclusive
<1> QED BY <1>2, <1>3, <1>4, <1>5 DEF Safe

\* Nobody else has the order of a pass that sells.
LEMMA ExitHolds ==
  ASSUME XInv, NEW p \in Pods, ex[p].pc \in Selling
  PROVE  /\ ex[p].order \in Orders /\ ex[p].order.auto
         /\ ex[p].order \notin PendingOrders
         /\ booked[ex[p].order] \in Nat
         /\ \A q \in Pods : ex[p].order \notin sy[q].todo
<1> DEFINE o == ex[p].order
<1>1. o \in Orders BY DEF XInv, XTypeInv, ExitsOK, ExitOK
<1>2. ExitInv(p) /\ RowInv(o) /\ TypeOK BY <1>1 DEF XInv, IInv
<1> HIDE DEF o
<1>3. o \notin PendingOrders
  BY <1>2 DEF ExitInv, RowInv, PendingOrders, Accepted, Selling, o
<1>4. ASSUME NEW q \in Pods PROVE o \notin sy[q].todo
  <2>1. SyncInv(q) BY DEF XInv, IInv
  <2> QED BY <1>2, <1>3, <2>1 DEF ExitInv, SyncInv, o
<1> QED BY <1>1, <1>2, <1>3, <1>4 DEF ExitInv, TypeOK, o

\* What a step of the rest of the Controller, or of the broker, leaves of an order that
\* the exit pass has in hand.
Kept(o) ==
  /\ trade'[o] = trade[o] /\ booked'[o] = booked[o]
  /\ Real(o) => brk'[o].st = "filled" \/ ("part_reply" \in Faults /\ brk'[o].got > 0)
  /\ \A q \in Pods : sy'[q].pc \in {"cash", "position"} => sy'[q].order # o

\* A submission changes one order at the broker, and only a priced reply says "filled".
LEMMA SubmitOthers ==
  ASSUME TypeOK, NEW o \in Orders, NEW q, NEW outcome, Submitted(o, q, outcome)
  PROVE  \A t \in Orders \ {o} : brk'[t] = brk[t]
<1>1. CASE UNCHANGED <<brk, held>> BY <1>1
<1>2. CASE \E st, got : Execute(o, st, q, got)
  BY <1>2, Executed
<1> QED BY <1>1, <1>2 DEF Submitted

LEMMA SubmitFilled ==
  ASSUME TypeOK, NEW o \in Orders, NEW q \in Nat, Submitted(o, q, "filled")
  PROVE  brk'[o].st = "filled" \/ ("part_reply" \in Faults /\ brk'[o].got > 0)
<1>1. PICK st \in {"working", "filled"}, got \in Nat : Placed(o, q, "filled", st, got)
  BY SubmittedSteps
<1>2. brk'[o].st = st /\ brk'[o].got = got BY <1>1, Executed DEF Placed
<1> QED BY <1>1, <1>2 DEF Placed

LEMMA HandlersKeep ==
  ASSUME IInv, NEW h \in Handlers, HandlerStep(h), NEW o \in Orders, o.auto,
         \A q \in Pods : o \notin sy[q].todo
  PROVE  Kept(o)
<1>1. \A q \in Pods : sy[q].pc \in {"cash", "position"} => sy[q].order # o
  BY DEF IInv, SyncInv
<1>2. hd[h].order # o
  <2>1. hd[h].pc # "idle"
    BY DEF HandlerStep, Gate, ReadClaims, Record, Submit, MarkFailed, Mark, HandlerCash,
           HandlerPosition
  <2> QED BY <2>1 DEF IInv, HandlerInv
<1>3. UNCHANGED sy
  BY DEF HandlerStep, Gate, ReadClaims, Record, Submit, MarkFailed, Mark, HandlerCash,
         HandlerPosition
<1>4. trade'[o] = trade[o]
  BY <1>2 DEF HandlerStep, Gate, ReadClaims, Record, Submit, MarkFailed, Mark, HandlerCash,
         HandlerPosition, UpdateTradeStatus, IInv, TypeOK
<1>5. booked'[o] = booked[o]
  BY <1>2 DEF HandlerStep, Gate, ReadClaims, Record, Submit, MarkFailed, Mark, HandlerCash,
         HandlerPosition, BookFill, IInv, TypeOK
<1>6. brk'[o] = brk[o]
  <2>1. CASE Submit(h)
    <3>1. PICK t \in Orders : t = hd[h].order /\ t # o
      BY <1>2, <2>1, ThreadHolds DEF Submit
    <3>2. PICK outcome : Submitted(t, trade[t].qty, outcome) BY <2>1, <3>1 DEF Submit
    <3> QED BY <3>1, <3>2, SubmitOthers DEF IInv
  <2> QED BY <2>1 DEF HandlerStep, Gate, ReadClaims, Record, MarkFailed, Mark, HandlerCash,
                      HandlerPosition
<1> QED BY <1>1, <1>3, <1>4, <1>5, <1>6 DEF Kept

LEMMA SyncsKeep ==
  ASSUME IInv, NEW p \in Pods, SyncStep(p), NEW o \in Orders, o.auto,
         \A q \in Pods : o \notin sy[q].todo
  PROVE  Kept(o)
<1>1. \A q \in Pods : sy[q].pc \in {"cash", "position"} => sy[q].order # o
  BY DEF IInv, SyncInv
<1>2. sy[p].pc \notin {"idle", "next"} => sy[p].order # o
  BY DEF IInv, SyncInv
<1>3. UNCHANGED brk
  BY DEF SyncStep, SyncBegin, SyncSkip, SyncRead, SyncFail, SyncAgent, SyncMark, SyncCash,
         SyncPosition
<1>4. trade'[o] = trade[o]
  BY <1>2 DEF SyncStep, SyncBegin, SyncSkip, SyncRead, SyncFail, SyncAgent, SyncMark, SyncCash,
              SyncPosition, UpdateTradeStatus, IInv, TypeOK
<1>5. booked'[o] = booked[o]
  BY <1>2 DEF SyncStep, SyncBegin, SyncSkip, SyncRead, SyncFail, SyncAgent, SyncMark, SyncCash,
              SyncPosition, BookFill, IInv, TypeOK
<1>6. \A q \in Pods : sy'[q].pc \in {"cash", "position"} => sy'[q].order # o
  <2>0. sy \in [Pods -> SyncState] BY DEF IInv, TypeOK
  <2>1. \E e : Sync(p, e) /\ (e.pc \in {"cash", "position"} => e.order # o)
    <3>1. ASSUME SyncBegin(p) \/ (\E t \in Orders : SyncSkip(p, t)) \/ SyncFail(p) \/ SyncPosition(p)
          PROVE  \E rows : Sync(p, Pass(rows))
      BY <3>1 DEF SyncBegin, SyncSkip, SyncFail, SyncPosition, NextRow
    <3>2. ASSUME \E t \in Orders : SyncRead(p, t)
          PROVE  \E e : Sync(p, e) /\ e.pc \notin {"cash", "position"}
      <4>1. PICK t \in Orders : SyncRead(p, t) BY <3>2
      <4>2. PICK pc \in {"agent", "fail"} : Sync(p, [sy[p] EXCEPT !.pc = pc, !.order = t])
        BY <4>1 DEF SyncRead
      <4>3. [sy[p] EXCEPT !.pc = pc, !.order = t].pc = pc BY <2>0 DEF SyncState
      <4> QED BY <4>2, <4>3
    <3>3. ASSUME SyncAgent(p) \/ SyncMark(p) \/ SyncCash(p)
          PROVE  \E e : Sync(p, e) /\ (e.pc \in {"cash", "position"} => e.order # o)
      <4>0. sy[p] \in SyncState BY <2>0
      <4>1. CASE SyncAgent(p)
        <5> DEFINE e == [sy[p] EXCEPT !.pc = "mark", !.bal = cash[sy[p].order.agent]]
        <5>1. e.pc = "mark" /\ Sync(p, e) BY <4>0, <4>1 DEF SyncAgent, SyncState
        <5> QED BY <5>1
      <4>2. CASE SyncMark(p)
        <5> DEFINE e == [sy[p] EXCEPT !.pc = "cash"]
        <5>1. e.order = sy[p].order /\ Sync(p, e) /\ sy[p].pc = "mark"
          BY <4>0, <4>2 DEF SyncMark, SyncState
        <5> QED BY <1>2, <5>1
      <4>3. CASE SyncCash(p)
        <5> DEFINE e == [sy[p] EXCEPT !.pc = "position"]
        <5>1. e.order = sy[p].order /\ Sync(p, e) /\ sy[p].pc = "cash"
          BY <4>0, <4>3 DEF SyncCash, SyncState
        <5> QED BY <1>2, <5>1
      <4> QED BY <3>3, <4>1, <4>2, <4>3
    <3>4. \A rows : Pass(rows).pc \in {"idle", "next"} BY DEF Pass
    <3> QED BY <3>1, <3>2, <3>3, <3>4 DEF SyncStep
  <2> QED BY <1>1, <2>0, <2>1 DEF Sync
<1> QED BY <1>3, <1>4, <1>5, <1>6 DEF Kept

LEMMA StepsKeep ==
  ASSUME IInv, Step \/ \E p \in Pods : Crash(p), NEW o \in Orders, o.auto,
         \A q \in Pods : o \notin sy[q].todo
  PROVE  Kept(o)
<1>1. \A q \in Pods : sy[q].pc \in {"cash", "position"} => sy[q].order # o
  BY DEF IInv, SyncInv
<1>2. CASE \E h \in Handlers : HandlerStep(h) BY <1>2, HandlersKeep
<1>3. CASE \E p \in Pods : SyncStep(p) BY <1>3, SyncsKeep
<1>4. CASE \E h \in Handlers, t \in Orders : Propose(h, t)
  BY <1>1, <1>4 DEF Propose, Kept
<1>5. CASE \E t \in Orders : BrokerFill(t) \/ BrokerCancel(t)
  <2>1. UNCHANGED <<trade, booked, sy>> BY <1>5 DEF BrokerFill, BrokerCancel
  <2>2. PICK t \in Orders : BrokerFill(t) \/ BrokerCancel(t) BY <1>5
  <2>3. TypeOK /\ brk[t] \in BrokerOrder BY DEF IInv, TypeOK
  <2>4. brk[t].got \in Nat /\ brk[t].qty \in Nat BY <2>3 DEF BrokerOrder
  <2>5. CASE BrokerFill(t)
    <3>1. Execute(t, "filled", brk[t].qty, brk[t].qty) BY <2>5 DEF BrokerFill
    <3>2. brk'[t].st = "filled" /\ \A u \in Orders \ {t} : brk'[u] = brk[u]
      BY <2>3, <3>1, Executed
    <3> QED BY <1>1, <2>1, <3>2 DEF Kept
  <2>6. CASE BrokerCancel(t)
    <3>1. PICK got \in brk[t].got .. brk[t].qty : Execute(t, "canceled", brk[t].qty, got)
      BY <2>6 DEF BrokerCancel
    <3>2. /\ brk[t].st = "working" /\ brk'[t].got = got
          /\ \A u \in Orders \ {t} : brk'[u] = brk[u]
      BY <2>3, <2>6, <3>1, Executed DEF BrokerCancel
    <3>3. brk[t].got > 0 => brk'[t].got > 0 BY <2>4, <3>2
    <3> QED BY <1>1, <2>1, <3>2, <3>3 DEF Kept
  <2> QED BY <2>2, <2>5, <2>6
<1>6. CASE Abort \/ \E p \in Pods : Crash(p)
  <2>1. Dropped BY <1>6, DropSteps DEF IInv
  <2>2. IdleSync.pc = "idle" BY DEF IdleSync, Pass
  <2> QED BY <1>1, <2>1, <2>2 DEF Dropped, Kept
<1> QED BY <1>2, <1>3, <1>4, <1>5, <1>6 DEF Step

LEMMA RowDoneFree ==
  ASSUME NEW e, e \in ExitState
  PROVE  RowDone(e).pc \notin Selling
<1>1. PICK zero \in Int : zero = 0 OBVIOUS
<1> DEFINE f == [e EXCEPT !.pc = "next", !.row = {}, !.bal = zero, !.order = NoOrder,
                          !.filled = FALSE]
<1>2. f.pc = "next" BY DEF ExitState
<1>3. RowDone(e) = IF e.rows = {} THEN IdleExit ELSE f BY <1>1 DEF RowDone
<1> QED BY <1>2, <1>3 DEF IdleExit, Selling

\* A pass that lets go of its order, or has none, leaves nothing to be kept.
LEMMA ExitLetsGo ==
  ASSUME OnePod, XInv, NEW p \in Pods, ex'[p].pc \notin Selling
  PROVE  \A q \in Pods : ExitInv(q)'
<1>1. ExitInv(p)' BY DEF ExitInv, Selling
<1> QED BY <1>1 DEF OnePod

LEMMA ExitTyped ==
  ASSUME XInv, NEW p \in Pods
  PROVE  /\ ex[p] \in ExitState /\ ex \in [Pods -> ExitState]
         /\ \A e : [ex EXCEPT ![p] = e][p] = e
BY DEF XInv, XTypeInv, ExitTypeOK, ExitState

\* Steps that touch neither a row nor the broker's orders and end without an order.
LEMMA ExitQuietSafe ==
  ASSUME OnePod, XInv, NEW p \in Pods,
         \/ ExitBegin(p) \/ ExitList(p)
         \/ \E r \in ex[p].rows : ExitNext(p, r)
         \/ \E r \in ex[p].row :
              \/ ExitCredit(p, r) \/ ExitClear(p, r) \/ ExitTrueUp(p, r)
              \/ ExitKeep(p, r) \/ ExitStop(p, r) \/ ExitAgent(p, r)
         \/ ExitPosition(p) \/ ExitAbort(p)
  PROVE  Safe' /\ \A q \in Pods : ExitInv(q)'
<1>1. UNCHANGED <<trade, booked, brk, hd, sy>>
  BY DEF ExitBegin, ExitList, ExitNext, ExitCredit, ExitClear, ExitTrueUp, ExitKeep, ExitStop,
         ExitAgent, ExitPosition, ExitAbort, vars
<1>2. Safe' BY <1>1, SafeKept DEF XInv
<1>0. ex[p] \in ExitState /\ ex \in [Pods -> ExitState] /\ \A e : [ex EXCEPT ![p] = e][p] = e
  BY ExitTyped
<1>3. ex'[p].pc \notin Selling
  <2>1. CASE ExitBegin(p)
    <3>1. PICK seen : ex' = [ex EXCEPT ![p].pc = "list", ![p].seen = seen]
      BY <2>1 DEF ExitBegin
    <3> QED BY <1>0, <3>1 DEF ExitState, Selling
  <2>2. CASE ExitList(p)
    <3>1. [ex[p] EXCEPT !.pc = "next", !.rows = OpenRows].pc = "next" BY <1>0 DEF ExitState
    <3> QED BY <1>0, <2>2, <3>1 DEF ExitList, IdleExit, Selling
  <2>3. CASE \E r \in ex[p].rows : ExitNext(p, r)
    <3>1. PICK r \in ex[p].rows : ExitNext(p, r) BY <2>3
    <3> DEFINE actual == ex[p].seen[r.symbol]
               pc == IF actual >= r.qty THEN "price"
                     ELSE IF actual <= 0 THEN "credit" ELSE "trueup"
    <3>2. ex' = [ex EXCEPT ![p] = [ex[p] EXCEPT !.rows = @ \ {r}, !.row = {r},
                                                !.bal = cash[r.agent], !.pc = pc]]
      BY <3>1 DEF ExitNext
    <3>4. pc \notin Selling BY DEF Selling
    <3> HIDE DEF pc
    <3>3. [ex[p] EXCEPT !.rows = @ \ {r}, !.row = {r}, !.bal = cash[r.agent], !.pc = pc].pc = pc
      BY <1>0 DEF ExitState
    <3> QED BY <1>0, <3>2, <3>3, <3>4
  <2>4. CASE \E r \in ex[p].row : ExitCredit(p, r)
    BY <1>0, <2>4 DEF ExitCredit, ExitState, Selling
  <2>5. CASE \E r \in ex[p].row : ExitClear(p, r) \/ ExitKeep(p, r)
    BY <1>0, <2>5, RowDoneFree DEF ExitClear, ExitKeep
  <2>6. CASE \E r \in ex[p].row : ExitTrueUp(p, r)
    <3>1. PICK s : ex' = [ex EXCEPT ![p].pc = "price", ![p].row = s]
      BY <2>6 DEF ExitTrueUp
    <3> QED BY <1>0, <3>1 DEF ExitState, Selling
  <2>7. CASE \E r \in ex[p].row : ExitStop(p, r)
    BY <1>0, <2>7 DEF ExitStop, ExitState, Selling
  <2>8. CASE \E r \in ex[p].row : ExitAgent(p, r)
    <3>1. PICK b : ex' = [ex EXCEPT ![p].pc = "submit", ![p].bal = b]
      BY <2>8 DEF ExitAgent
    <3> QED BY <1>0, <3>1 DEF ExitState, Selling
  <2>9. CASE ExitPosition(p) \/ ExitAbort(p)
    BY <1>0, <2>9, RowDoneFree DEF ExitPosition, ExitAbort, IdleExit, Selling
  <2> QED BY <2>1, <2>2, <2>3, <2>4, <2>5, <2>6, <2>7, <2>8, <2>9
<1> QED BY <1>2, <1>3, ExitLetsGo

\* The order a pass submits is one nobody knows.
LEMMA ExitSubmitSafe ==
  ASSUME OnePod, XInv, NEW p \in Pods, NEW r \in ex[p].row, NEW o \in Orders, ExitSubmit(p, r, o)
  PROVE  Safe' /\ \A q \in Pods : ExitInv(q)'
<1>0. ex[p] \in ExitState /\ \A e : [ex EXCEPT ![p] = e][p] = e BY ExitTyped
<1>1. /\ o.auto /\ brk[o].st = "none" /\ trade[o].status = "none"
      /\ UNCHANGED <<trade, booked, hd, sy>>
  BY DEF ExitSubmit, AutoOrders
<1>2. PICK outcome \in {"working", "filled", "failed"} :
        /\ Submitted(o, r.qty, outcome)
        /\ ex' = [ex EXCEPT ![p] = IF outcome = "failed" THEN RowDone(ex[p])
                                   ELSE [ex[p] EXCEPT !.pc = "record", !.order = o,
                                                      !.filled = (outcome = "filled")]]
  BY DEF ExitSubmit
<1>3. /\ \A t \in Orders \ {o} : brk'[t] = brk[t]
      /\ outcome = "filled" =>
           brk'[o].st = "filled" \/ ("part_reply" \in Faults /\ brk'[o].got > 0)
  <2>1. TypeOK /\ r.qty \in Nat BY RowsHeld DEF XInv, IInv, Row
  <2> QED BY <1>2, <2>1, SubmitOthers, SubmitFilled
<1>4. ASSUME NEW t \in Orders PROVE RowInv(t)'
  BY <1>1, <1>3 DEF XInv, IInv, RowInv
<1>5. ASSUME NEW h \in Handlers PROVE HandlerInv(h)'
  BY <1>1, <1>3 DEF XInv, IInv, HandlerInv
<1>6. ASSUME NEW q \in Pods PROVE SyncInv(q)' /\ (sy[q].pc \in {"cash", "position"} => sy[q].order # o)
  <2>1. SyncInv(q) /\ sy[q].todo \subseteq Orders BY DEF XInv, IInv, TypeOK, SyncState
  <2>2. o \notin sy[q].todo BY <1>1, <2>1 DEF SyncInv, PendingOrders, Accepted
  <2> QED BY <1>1, <1>3, <2>1, <2>2 DEF SyncInv, PendingOrders, Accepted
<1>7. Exclusive' BY <1>1 DEF XInv, IInv, Exclusive
<1>8. Safe' BY <1>4, <1>5, <1>6, <1>7 DEF Safe
<1>9. \A q \in Pods : ExitInv(q)'
  <2>1. CASE outcome = "failed"
    BY <1>0, <1>2, <2>1, RowDoneFree, ExitLetsGo
  <2>2. CASE outcome # "failed"
    <3>1. ex'[p] = [ex[p] EXCEPT !.pc = "record", !.order = o, !.filled = (outcome = "filled")]
      BY <1>0, <1>2, <2>2
    <3>2. ex'[p].pc = "record" /\ ex'[p].order = o /\ (ex'[p].filled <=> outcome = "filled")
      BY <1>0, <3>1 DEF ExitState
    <3>3. ExitInv(p)' BY <1>1, <1>3, <1>6, <3>2 DEF ExitInv
    <3> QED BY <3>3 DEF OnePod
  <2> QED BY <2>1, <2>2
<1> QED BY <1>8, <1>9

LEMMA ExitRecordSafe ==
  ASSUME OnePod, XInv, NEW p \in Pods, NEW r \in ex[p].row, ExitRecord(p, r)
  PROVE  Safe' /\ \A q \in Pods : ExitInv(q)'
<1> PICK o : o = ex[p].order OBVIOUS
<1> DEFINE row == [status |-> IF ex[p].filled THEN "filled" ELSE "accepted",
                   id |-> FALSE, qty |-> r.qty]
<1>0. ex[p] \in ExitState /\ \A e : [ex EXCEPT ![p] = e][p] = e BY ExitTyped
<1>1. /\ ex[p].pc = "record" /\ trade' = [trade EXCEPT ![o] = row]
      /\ ex' = [ex EXCEPT ![p] = [@ EXCEPT !.pc = "mark"]]
      /\ UNCHANGED <<booked, brk, hd, sy>>
  BY DEF ExitRecord
<1>2. o \in Orders /\ o.auto /\ \A q \in Pods : o \notin sy[q].todo
  BY <1>1, ExitHolds DEF Selling
<1>3. ExitInv(p) /\ RowInv(o) BY <1>2 DEF XInv, IInv
<1>4. row.status = (IF ex[p].filled THEN "filled" ELSE "accepted") /\ row.id = FALSE OBVIOUS
<1>5. trade'[o] = row BY <1>1, <1>2 DEF XInv, IInv, TypeOK
<1> HIDE DEF row
<1>6. booked[o] = 0 /\ (ex[p].filled => Real(o))
  BY <1>1, <1>3 DEF ExitInv, RowInv
<1>7. RowInv(o)' BY <1>1, <1>4, <1>5, <1>6 DEF RowInv
<1>8. Safe' BY <1>1, <1>2, <1>7, FreeRowSafe DEF XInv
<1>9. /\ ex'[p].pc = "mark" /\ ex'[p].order = o /\ ex'[p].filled = ex[p].filled
  BY <1>0, <1>1 DEF ExitState
<1>10. ExitInv(p)' BY <1>1, <1>3, <1>4, <1>5, <1>6, <1>9 DEF ExitInv, Selling
<1> QED BY <1>8, <1>10 DEF OnePod

LEMMA ExitMarkSafe ==
  ASSUME OnePod, XInv, NEW p \in Pods, ExitMark(p)
  PROVE  Safe' /\ \A q \in Pods : ExitInv(q)'
<1> PICK o : o = ex[p].order OBVIOUS
<1> DEFINE st == IF ex[p].filled THEN "filled" ELSE "accepted"
           row == [trade[o] EXCEPT !.status = st, !.id = TRUE]
<1>0. ex[p] \in ExitState /\ \A e : [ex EXCEPT ![p] = e][p] = e BY ExitTyped
<1>1. /\ ex[p].pc = "mark" /\ trade' = [trade EXCEPT ![o] = row]
      /\ ex' = [ex EXCEPT ![p] = IF ex[p].filled THEN [@ EXCEPT !.pc = "cash"] ELSE RowDone(@)]
      /\ UNCHANGED <<booked, brk, hd, sy>>
  BY DEF ExitMark, UpdateTradeStatus
<1>2. o \in Orders /\ o.auto /\ \A q \in Pods : o \notin sy[q].todo
  BY <1>1, ExitHolds DEF Selling
<1>3. ExitInv(p) /\ RowInv(o) /\ trade[o] \in TradeRow BY <1>2 DEF XInv, IInv, TypeOK
<1>4. row.status = st BY <1>3 DEF TradeRow
<1>5. trade'[o] = row BY <1>1, <1>2 DEF XInv, IInv, TypeOK
<1>6. booked[o] = 0 /\ (ex[p].filled => Real(o)) BY <1>1, <1>3 DEF ExitInv
<1> HIDE DEF row
<1>7. RowInv(o)' BY <1>1, <1>4, <1>5, <1>6 DEF RowInv
<1>8. Safe' BY <1>1, <1>2, <1>7, FreeRowSafe DEF XInv
<1>9. \A q \in Pods : ExitInv(q)'
  <2>1. CASE ~ex[p].filled BY <1>0, <1>1, <2>1, RowDoneFree, ExitLetsGo
  <2>2. CASE ex[p].filled
    <3>1. ex'[p].pc = "cash" /\ ex'[p].order = o BY <1>0, <1>1, <2>2 DEF ExitState
    <3>2. ExitInv(p)' BY <1>1, <1>3, <1>4, <1>5, <1>6, <2>2, <3>1 DEF ExitInv, Selling
    <3> QED BY <3>2 DEF OnePod
  <2> QED BY <2>1, <2>2
<1> QED BY <1>8, <1>9

LEMMA ExitCashSafe ==
  ASSUME OnePod, XInv, NEW p \in Pods, ExitCash(p)
  PROVE  Safe' /\ \A q \in Pods : ExitInv(q)'
<1> DEFINE o == ex[p].order
<1>0. ex[p] \in ExitState /\ \A e : [ex EXCEPT ![p] = e][p] = e BY ExitTyped
<1>1. /\ ex[p].pc = "cash" /\ booked' = [booked EXCEPT ![o] = @ + 1]
      /\ ex' = [ex EXCEPT ![p] = [@ EXCEPT !.pc = "position"]]
      /\ UNCHANGED <<trade, brk, hd, sy>>
  BY DEF ExitCash, BookFill
<1>2. o \in Orders /\ o.auto /\ \A q \in Pods : o \notin sy[q].todo
  BY <1>1, ExitHolds DEF Selling
<1>3. ExitInv(p) /\ RowInv(o) BY <1>2 DEF XInv, IInv
<1>4. trade[o].status = "filled" /\ booked[o] = 0 BY <1>1, <1>3 DEF ExitInv
<1>5. booked'[o] = 1 /\ \A t \in Orders \ {o} : booked'[t] = booked[t]
  BY <1>1, <1>2, <1>4 DEF XInv, IInv, TypeOK
<1> HIDE DEF o
<1>6. ASSUME NEW t \in Orders PROVE RowInv(t)'
  BY <1>1, <1>3, <1>4, <1>5 DEF XInv, IInv, RowInv
<1>7. ASSUME NEW h \in Handlers PROVE HandlerInv(h)'
  BY <1>1, <1>2, <1>5 DEF XInv, IInv, HandlerInv
<1>8. ASSUME NEW q \in Pods PROVE SyncInv(q)'
  <2>1. SyncInv(q) /\ sy[q].todo \subseteq Orders \ {o} BY <1>2 DEF XInv, IInv, TypeOK, SyncState
  <2> QED BY <1>1, <1>2, <1>5, <2>1 DEF SyncInv, PendingOrders, Accepted
<1>9. Exclusive' BY <1>1 DEF XInv, IInv, Exclusive
<1>10. Safe' BY <1>6, <1>7, <1>8, <1>9 DEF Safe
<1>11. ex'[p].pc = "position" /\ ex'[p].order = o BY <1>0, <1>1 DEF ExitState, o
<1>12. ExitInv(p)' BY <1>1, <1>3, <1>4, <1>11 DEF ExitInv, Selling, o
<1> QED BY <1>10, <1>12 DEF OnePod

LEMMA ExitStepSafe ==
  ASSUME OnePod, XInv, NEW p \in Pods, ExitStep(p) \/ ExitAbort(p)
  PROVE  Safe' /\ \A q \in Pods : ExitInv(q)'
BY ExitQuietSafe, ExitSubmitSafe, ExitRecordSafe, ExitMarkSafe, ExitCashSafe DEF ExitStep

\* A step of the rest of the system leaves the pass's order alone; a crash ends the pass.
LEMMA StepExitInv ==
  ASSUME OnePod, XInv, Step, UNCHANGED ex
  PROVE  \A q \in Pods : ExitInv(q)'
<1> SUFFICES ASSUME NEW p \in Pods PROVE ExitInv(p)' OBVIOUS
<1>1. CASE ex[p].pc \notin Selling BY <1>1, ExitLetsGo
<1>2. CASE ex[p].pc \in Selling
  <2> PICK o : o = ex[p].order OBVIOUS
  <2>1. Kept(o) BY <1>2, ExitHolds, StepsKeep DEF XInv
  <2>2. ExitInv(p) BY DEF XInv
  <2> QED BY <2>1, <2>2 DEF Kept, ExitInv
<1> QED BY <1>1, <1>2

LEMMA XNextSafe == ASSUME OnePod, XInv, [XNext]_xvars PROVE XInv'
<1>0. XTypeInv' BY XTypeNext DEF XInv
<1>1. Safe' /\ \A q \in Pods : ExitInv(q)'
  <2>1. CASE UNCHANGED xvars
    <3>1. UNCHANGED <<trade, booked, brk, hd, sy, ex>> BY <2>1 DEF xvars, vars, exVars
    <3> QED BY <3>1, SafeKept DEF XInv, ExitInv
  <2>2. CASE Step /\ UNCHANGED exVars
    <3>1. IInv' BY <2>2, NextSafe DEF XInv, Next
    <3> QED BY <2>2, <3>1, StepExitInv DEF exVars, IInv, Safe
  <2>3. CASE \E p \in Pods : ExitStep(p) \/ ExitAbort(p) BY <2>3, ExitStepSafe
  <2>4. CASE \E p \in Pods : XCrash(p)
    <3>1. PICK p \in Pods : XCrash(p) BY <2>4
    <3>2. IInv' BY <3>1, NextSafe DEF XInv, XCrash, Next
    <3>3. ex'[p].pc = "idle" BY <3>1, ExitTyped DEF XCrash, IdleExit
    <3>4. \A q \in Pods : ExitInv(q)' BY <3>3, ExitLetsGo DEF Selling
    <3> QED BY <3>2, <3>4 DEF IInv, Safe
  <2>5. CASE \E s \in Symbols : ManualClose(s) \/ PriceMoves(s)
    <3>1. UNCHANGED <<trade, booked, brk, hd, sy, ex>>
      BY <2>5 DEF ManualClose, PriceMoves, vars
    <3> QED BY <3>1, SafeKept DEF XInv, ExitInv
  <2> QED BY <2>1, <2>2, <2>3, <2>4, <2>5 DEF XNext
<1>2. TypeOK' BY <1>0 DEF XTypeInv, TypeInv
<1> QED BY <1>0, <1>1, <1>2 DEF XInv, IInv, Safe

\* With one pod, what every thread, sync pass and exit pass has in hand stays as it left
\* it, whatever crashes, whatever the broker answers, whatever is sold by hand.
THEOREM ExitInvariant == ASSUME OnePod PROVE XSpec => []XInv
<1>1. XInv /\ [XNext]_xvars => XInv' BY XNextSafe
<1> QED BY <1>1, XInitSafe, PTL DEF XSpec

\* The exits' fills too are real, and no balance holds one twice (one pod).
THEOREM ExitFillsAreReal == ASSUME OnePod PROVE XSpec => [](BookedIsReal /\ BookedAtMostOnce)
<1>1. XInv => BookedIsReal /\ BookedAtMostOnce
  BY DEF XInv, IInv, RowInv, BookedIsReal, BookedAtMostOnce, TypeOK
<1> QED BY <1>1, ExitInvariant, PTL

----------------------------------------------------------------------------
\* Refinement: recording an exit begins an order's life, and ends it if the order filled
\* at once; storing the id changes nothing FillBook speaks of.

LEMMA ExitRefines == ASSUME XInv, NEW p \in Pods, ExitStep(p) PROVE Book!Next \/ Same
<1> DEFINE o == ex[p].order
<1>0. TypeOK /\ (ex[p].pc \in Selling => o \in Orders /\ ExitInv(p))
  BY ExitHolds DEF XInv, IInv
<1>1. CASE \E r \in ex[p].row : ExitRecord(p, r)
  <2> DEFINE st == IF ex[p].filled THEN "filled" ELSE "accepted"
  <2>1. PICK q : /\ trade' = [trade EXCEPT ![o] = [status |-> st, id |-> FALSE, qty |-> q]]
                 /\ ex[p].pc = "record" /\ UNCHANGED booked
    BY <1>1 DEF ExitRecord
  <2>2. o \in Orders /\ Life[o] = "none" BY <1>0, <2>1 DEF ExitInv, Life, Selling
  <2>3. [status |-> st, id |-> FALSE, qty |-> q].status = st OBVIOUS
  <2> HIDE DEF o, st
  <2>4. Life' = [Life EXCEPT ![o] = [status |-> st, id |-> FALSE, qty |-> q].status]
    BY <1>0, <2>1, <2>2, LifeSteps
  <2>5. Life' = [Life EXCEPT ![o] = st] BY <2>3, <2>4
  <2>6. Book!Begin(o) BY <2>1, <2>2, <2>5 DEF Book!Begin, st
  <2> QED BY <2>2, <2>6 DEF Book!Next
<1>2. CASE ExitMark(p)
  <2> DEFINE st == IF ex[p].filled THEN "filled" ELSE "accepted"
             row == [trade[o] EXCEPT !.status = st, !.id = TRUE]
  <2>1. trade' = [trade EXCEPT ![o] = row] /\ ex[p].pc = "mark" /\ UNCHANGED booked
    BY <1>2 DEF ExitMark, UpdateTradeStatus
  <2>2. o \in Orders /\ trade[o].status = st BY <1>0, <2>1 DEF ExitInv, Selling
  <2>3. row.status = st BY <1>0, <2>2 DEF TypeOK, TradeRow
  <2> HIDE DEF o, row, st
  <2>4. Life' = [Life EXCEPT ![o] = row.status] BY <1>0, <2>1, <2>2, LifeSteps
  <2> QED BY <2>1, <2>2, <2>3, <2>4 DEF Same, Life
<1>3. CASE ExitCash(p)
  <2>1. /\ ex[p].pc = "cash" /\ UNCHANGED trade
        /\ booked' = [booked EXCEPT ![o] = @ + 1]
    BY <1>3 DEF ExitCash, BookFill
  <2>2. o \in Orders /\ Life[o] = "filled" /\ booked[o] = 0
    BY <1>0, <2>1 DEF ExitInv, Life, Selling
  <2>3. Book!Book(o) BY <2>1, <2>2 DEF Book!Book, Life
  <2> QED BY <2>2, <2>3 DEF Book!Next
<1> QED BY <1>1, <1>2, <1>3
        DEF ExitStep, ExitBegin, ExitList, ExitNext, ExitCredit, ExitClear, ExitTrueUp, ExitKeep,
            ExitStop, ExitAgent, ExitSubmit, ExitPosition, Same, Life, vars

\* With the exits among its writers the ledger still implements FillBook: an order ends
\* one way and its fill is booked once (one pod).
THEOREM ExitsRefineFillBook == ASSUME OnePod PROVE XSpec => ExitsImplementFillBook
<1>1. XInit => Book!Init BY DEF XInit, Init, Book!Init, Life, NoTrade
<1>2. XInv /\ [XNext]_xvars => [Book!Next]_<<Life, booked>>
  <2> SUFFICES ASSUME XInv, [XNext]_xvars PROVE Book!Next \/ Same BY DEF Same
  <2>1. CASE Step BY <2>1, NextRefines DEF XInv, Next
  <2>2. CASE \E p \in Pods : ExitStep(p) BY <2>2, ExitRefines
  <2>3. CASE UNCHANGED <<trade, booked>> BY <2>3 DEF Same, Life
  <2> QED BY <2>1, <2>2, <2>3
          DEF XNext, xvars, vars, ExitAbort, XCrash, Crash, ManualClose, PriceMoves
<1> QED BY <1>1, <1>2, ExitInvariant, PTL DEF XSpec, ExitsImplementFillBook, Book!Spec

----------------------------------------------------------------------------
\* No fill is forgotten, under OrderLedgerProofs' NoLoss: an order is followed as before,
\* or it is an exit the pass has submitted and not yet written down in full.
Exiting(o) == \E p \in Pods : ex[p].pc \in {"record", "mark", "cash"} /\ ex[p].order = o

FollowInv == XInv /\ Careful /\ \A o \in Orders : Followed(o) \/ Exiting(o)

\* Neither a row, nor a booking, nor the broker's orders change.
LEMMA FollowKept ==
  ASSUME FollowInv, UNCHANGED <<trade, booked, brk, hd, sy>>
  PROVE  Careful' /\ \A o \in Orders : Followed(o) => Followed(o)'
BY DEF FollowInv, Careful, Followed, Live, Traced, Owed, Carried, PendingOrders, Accepted

LEMMA ExitSubmitFollows ==
  ASSUME OnePod, NoLoss, FollowInv, NEW p \in Pods, NEW r \in ex[p].row, NEW o \in Orders,
         ExitSubmit(p, r, o)
  PROVE  Careful' /\ \A t \in Orders : (Followed(t) \/ Exiting(t))'
<1>0. ex[p] \in ExitState /\ \A e : [ex EXCEPT ![p] = e][p] = e BY ExitTyped DEF FollowInv
<1>1. /\ ex[p].pc = "submit" /\ o.auto /\ brk[o].st = "none"
      /\ UNCHANGED <<trade, booked, hd, sy>> /\ IInv /\ TypeOK
  BY DEF ExitSubmit, AutoOrders, FollowInv, XInv, IInv
<1>2. PICK outcome \in {"working", "filled", "failed"} :
        /\ Submitted(o, r.qty, outcome)
        /\ ex' = [ex EXCEPT ![p] = IF outcome = "failed" THEN RowDone(ex[p])
                                   ELSE [ex[p] EXCEPT !.pc = "record", !.order = o,
                                                      !.filled = (outcome = "filled")]]
  BY DEF ExitSubmit
<1>3. /\ \A t \in Orders \ {o} : brk'[t] = brk[t]
      /\ outcome = "failed" => brk'[o] = brk[o]
  <2>1. "lost_reply" \notin Faults BY DEF NoLoss
  <2>2. outcome = "failed" => UNCHANGED brk BY <1>2, <2>1 DEF Submitted
  <2> QED BY <1>1, <1>2, <2>2, SubmitOthers
<1>4. Careful'
  <2>1. ASSUME NEW h \in Handlers, hd[h].pc \in {"submit", "failed"}
        PROVE  hd[h].order \in Orders \ {o}
    BY <1>1, <2>1 DEF IInv, HandlerInv
  <2>2. ASSUME NEW q \in Pods, sy[q].pc = "fail" PROVE sy[q].order \in Orders \ {o}
    <3>1. sy[q].order \in Orders /\ brk[sy[q].order].st = "canceled"
      BY <1>1, <2>2 DEF FollowInv, Careful, IInv, SyncInv, TypeOK, SyncState
    <3> QED BY <1>1, <3>1
  <2> QED BY <1>1, <1>3, <2>1, <2>2 DEF FollowInv, Careful
<1>5. ASSUME NEW t \in Orders, ~Exiting(t), t # o \/ outcome = "failed" PROVE Followed(t)'
  <2>1. Followed(t) /\ brk'[t] = brk[t] BY <1>3, <1>5 DEF FollowInv
  <2> QED BY <1>1, <2>1 DEF Followed, Live, Traced, Owed, Carried, PendingOrders, Accepted
<1>6. ASSUME NEW t \in Orders PROVE ~Exiting(t)
  BY <1>1 DEF Exiting, OnePod
<1>7. ASSUME outcome # "failed" PROVE Exiting(o)'
  <2>1. ex'[p] = [ex[p] EXCEPT !.pc = "record", !.order = o, !.filled = (outcome = "filled")]
    BY <1>0, <1>2, <1>7
  <2>2. ex'[p].pc = "record" /\ ex'[p].order = o BY <1>0, <2>1 DEF ExitState
  <2> QED BY <2>2 DEF Exiting
<1> QED BY <1>4, <1>5, <1>6, <1>7

LEMMA ExitWritesFollow ==
  ASSUME OnePod, FollowInv, NEW p \in Pods,
         (\E r \in ex[p].row : ExitRecord(p, r)) \/ ExitMark(p) \/ ExitCash(p)
  PROVE  Careful' /\ \A t \in Orders : (Followed(t) \/ Exiting(t))'
<1> PICK o : o = ex[p].order OBVIOUS
<1>0. ex[p] \in ExitState /\ \A e : [ex EXCEPT ![p] = e][p] = e BY ExitTyped DEF FollowInv
<1>1. /\ ex[p].pc \in {"record", "mark", "cash"} /\ UNCHANGED <<brk, hd, sy>>
      /\ IInv /\ TypeOK /\ ExitInv(p)
  BY DEF ExitRecord, ExitMark, ExitCash, FollowInv, XInv, IInv
<1>2. o \in Orders /\ booked[o] \in Nat BY <1>1, ExitHolds DEF Selling, FollowInv
<1>3. Careful' BY <1>1 DEF FollowInv, Careful
<1>4. \A t \in Orders \ {o} : trade'[t] = trade[t] /\ booked'[t] = booked[t]
  BY <1>1, <1>2 DEF ExitRecord, ExitMark, ExitCash, UpdateTradeStatus, BookFill, TypeOK
<1>5. ASSUME NEW t \in Orders \ {o} PROVE Followed(t)'
  <2>1. Followed(t) BY <1>1, <1>5 DEF FollowInv, Exiting, OnePod
  <2> QED BY <1>1, <1>4, <2>1 DEF Followed, Live, Traced, Owed, Carried, PendingOrders, Accepted
<1>6. Followed(o)' \/ Exiting(o)'
  <2>1. CASE \E r \in ex[p].row : ExitRecord(p, r)
    <3>1. ex' = [ex EXCEPT ![p] = [ex[p] EXCEPT !.pc = "mark"]] BY <2>1 DEF ExitRecord
    <3>2. ex'[p].pc = "mark" /\ ex'[p].order = o BY <1>0, <3>1 DEF ExitState
    <3> QED BY <3>2 DEF Exiting
  <2>2. CASE ExitMark(p) /\ ex[p].filled
    <3>1. ex' = [ex EXCEPT ![p] = [ex[p] EXCEPT !.pc = "cash"]] BY <2>2 DEF ExitMark
    <3>2. ex'[p].pc = "cash" /\ ex'[p].order = o BY <1>0, <3>1 DEF ExitState
    <3> QED BY <3>2 DEF Exiting
  <2>3. CASE ExitMark(p) /\ ~ex[p].filled
    <3>1. UpdateTradeStatus(o, "accepted", TRUE) BY <2>3 DEF ExitMark
    <3>2. trade'[o].status = "accepted" /\ trade'[o].id
      BY <1>1, <1>2, <3>1 DEF UpdateTradeStatus, TypeOK, TradeRow
    <3> QED BY <1>2, <3>2 DEF Followed, Traced, Owed, PendingOrders, Accepted
  <2>4. CASE ExitCash(p)
    <3>1. /\ ex[p].pc = "cash" /\ UNCHANGED trade
          /\ booked' = [booked EXCEPT ![o] = @ + 1]
      BY <2>4 DEF ExitCash, BookFill
    <3>2. booked'[o] # 0 BY <1>1, <1>2, <3>1 DEF TypeOK
    <3>3. trade[o].status = "filled" BY <1>1, <3>1 DEF ExitInv
    <3> QED BY <3>1, <3>2, <3>3 DEF Followed, Live, Owed
  <2> QED BY <2>1, <2>2, <2>3, <2>4
<1> QED BY <1>3, <1>5, <1>6

\* Every other step of the pass: it had nothing at the points that count.
LEMMA ExitQuietFollows ==
  ASSUME FollowInv, NEW p \in Pods,
         \/ ExitBegin(p) \/ ExitList(p)
         \/ \E r \in ex[p].rows : ExitNext(p, r)
         \/ \E r \in ex[p].row :
              \/ ExitCredit(p, r) \/ ExitClear(p, r) \/ ExitTrueUp(p, r)
              \/ ExitKeep(p, r) \/ ExitStop(p, r) \/ ExitAgent(p, r)
         \/ ExitPosition(p)
  PROVE  Careful' /\ \A t \in Orders : (Followed(t) \/ Exiting(t))'
<1>1. UNCHANGED <<trade, booked, brk, hd, sy>> /\ ex[p].pc \notin {"record", "mark", "cash"}
  BY DEF ExitBegin, ExitList, ExitNext, ExitCredit, ExitClear, ExitTrueUp, ExitKeep, ExitStop,
         ExitAgent, ExitPosition, vars
<1>2. \A q \in Pods \ {p} : ex'[q] = ex[q]
  <2>1. ex \in [Pods -> ExitState] BY ExitTyped DEF FollowInv
  <2>2. \E e : ex' = [ex EXCEPT ![p] = e]
    BY DEF ExitBegin, ExitList, ExitNext, ExitCredit, ExitClear, ExitTrueUp, ExitKeep, ExitStop,
           ExitAgent, ExitPosition
  <2> QED BY <2>1, <2>2
<1>3. \A t \in Orders : Exiting(t) => Exiting(t)' BY <1>1, <1>2 DEF Exiting
<1> QED BY <1>1, <1>3, FollowKept DEF FollowInv

LEMMA FollowNext ==
  ASSUME OnePod, NoLoss, FollowInv, [XNext]_xvars
  PROVE  FollowInv'
<1>0. XInv' BY XNextSafe DEF FollowInv
<1>1. Careful' /\ \A t \in Orders : (Followed(t) \/ Exiting(t))'
  <2>1. CASE Step /\ UNCHANGED exVars
    <3>1. Following BY <2>1, StepFollows DEF FollowInv, XInv
    <3>2. UNCHANGED ex BY <2>1 DEF exVars
    <3> QED BY <3>1, <3>2 DEF Following, FollowInv, Exiting
  <2>2. CASE UNCHANGED xvars \/ \E s \in Symbols : ManualClose(s) \/ PriceMoves(s)
    <3>1. UNCHANGED <<trade, booked, brk, hd, sy, ex>>
      BY <2>2 DEF xvars, vars, exVars, ManualClose, PriceMoves
    <3> QED BY <3>1, FollowKept DEF FollowInv, Exiting
  <2>3. CASE \E p \in Pods : ExitStep(p)
    BY <2>3, ExitSubmitFollows, ExitWritesFollow, ExitQuietFollows DEF ExitStep
  <2>4. ~\E p \in Pods : ExitAbort(p) \/ XCrash(p)
    BY DEF ExitAbort, XCrash, Crash, NoLoss
  <2> QED BY <2>1, <2>2, <2>3, <2>4 DEF XNext
<1> QED BY <1>0, <1>1 DEF FollowInv

\* With one pod, and as long as no process dies and no reply or database call is lost, no
\* fill is forgotten, of an agent's order or of an exit: what the broker has filled is
\* booked, listed by pending_orders, or in the hand of the thread about to book it.
THEOREM NothingIsForgotten ==
  ASSUME OnePod, NoLoss PROVE XSpec => []NoExitForgotten
<1>1. XInit => FollowInv
  <2> SUFFICES ASSUME XInit PROVE FollowInv OBVIOUS
  <2>1. XInv BY XInitSafe
  <2>2. /\ \A o \in Orders : trade[o].status = "none" /\ brk[o].st = "none"
        /\ \A h \in Handlers : hd[h].pc = "idle"
        /\ \A p \in Pods : sy[p].pc = "idle"
    BY DEF XInit, Init, NoTrade, IdleHandler, IdleSync, Pass
  <2> QED BY <2>1, <2>2 DEF FollowInv, Careful, Followed, Live, Owed
<1>2. FollowInv => NoExitForgotten
  BY DEF FollowInv, Followed, Live, Traced, Owed, Carried, Exiting, NoExitForgotten, InHand
<1>3. FollowInv /\ [XNext]_xvars => FollowInv' BY FollowNext
<1> QED BY <1>1, <1>2, <1>3, PTL DEF XSpec
=============================================================================
