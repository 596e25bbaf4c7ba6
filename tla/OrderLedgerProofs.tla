------------------------- MODULE OrderLedgerProofs -------------------------
(***************************************************************************)
(* What holds of OrderLedger for any number of agents, symbols, orders and *)
(* threads: type correctness and the write-ahead rule with any number of   *)
(* pods; with one pod the invariant IInv, and from it that a booked fill   *)
(* is real, is booked once, and that the ledger implements FillBook.       *)
(***************************************************************************)
EXTENDS OrderLedger, SumProofs

LEMMA OrderFields ==
  ASSUME NEW o \in Orders
  PROVE  /\ o.agent \in Agents /\ o.symbol \in Symbols
         /\ o.side \in {"buy", "sell"} /\ o.qty \in Nat /\ o.auto \in BOOLEAN
BY OrdersAssumption DEF OrderShape

LEMMA DeltaInt == ASSUME NEW o, NEW q \in Int PROVE Delta(o, q) \in Int /\ Shares(o, q) \in Int
BY DEF Delta, Shares

LEMMA SizedNat ==
  ASSUME NEW o \in Orders, NEW bal \in Int PROVE SizedQty(o, bal) \in Nat
<1>1. o.qty \in Nat BY OrderFields
<1>2. bal > 0 => bal \div Divisor \in Nat BY DivisorAssumption
<1> QED BY <1>1, <1>2 DEF SizedQty

LEMMA ExecuteType ==
  ASSUME TypeOK, NEW o \in Orders, NEW st \in {"none", "working", "filled", "canceled"},
         NEW q \in Nat, NEW got \in Nat, Execute(o, st, q, got)
  PROVE  /\ brk' \in [Orders -> BrokerOrder]
         /\ held' \in [Symbols -> Int]
<1>1. o.symbol \in Symbols BY OrderFields
<1>2. PICK more \in Int : more = got - brk[o].got BY DEF TypeOK, BrokerOrder
<1>3. Shares(o, more) \in Int BY DeltaInt
<1> QED BY <1>1, <1>2, <1>3 DEF Execute, TypeOK, BrokerOrder

LEMMA BookFillType ==
  ASSUME TypeOK, NEW o \in Orders, NEW bal \in Int, NEW q \in Nat, BookFill(o, bal, q)
  PROVE  cash' \in [Agents -> Int] /\ booked' \in [Orders -> Nat] /\ stale' \subseteq Agents
<1>1. o.agent \in Agents BY OrderFields
<1>2. bal + Delta(o, q) \in Int BY DeltaInt
<1> QED BY <1>1, <1>2 DEF BookFill, TypeOK

LEMMA ApplyFillType ==
  ASSUME TypeOK, NEW o \in Orders, NEW q \in Nat, ApplyFill(o, q)
  PROVE  pos' \in [Agents -> [Symbols -> Nat]] /\ oversold' \subseteq Symbols
<1>1. o.agent \in Agents /\ o.symbol \in Symbols BY OrderFields
<1>2. pos[o.agent][o.symbol] \in Nat BY <1>1 DEF TypeOK
<1> DEFINE old == pos[o.agent][o.symbol]
           new == IF o.side = "buy" THEN old + q ELSE IF old > q THEN old - q ELSE 0
<1>3. new \in Nat BY <1>2
<1>4. pos' = [pos EXCEPT ![o.agent][o.symbol] = new]
  BY DEF ApplyFill
<1>5. oversold' \subseteq Symbols BY <1>1 DEF ApplyFill, TypeOK
<1> HIDE DEF new
<1> QED BY <1>1, <1>3, <1>4, <1>5 DEF TypeOK

LEMMA UpdateTradeStatusType ==
  ASSUME TypeOK, NEW o \in Orders, NEW st \in {"accepted", "filled", "failed"},
         NEW id \in BOOLEAN, UpdateTradeStatus(o, st, id)
  PROVE  trade' \in [Orders -> TradeRow]
BY DEF UpdateTradeStatus, TypeOK, TradeRow

\* The order a handler or a sync pass has in hand, once it has one, is an order.
HandlerOK(e) == e \in HandlerState /\ (e.pc # "idle" => e.order \in Orders)
SyncOK(e) == e \in SyncState /\ (e.pc \notin {"idle", "next"} => e.order \in Orders)
TypeInv ==
  /\ TypeOK
  /\ \A h \in Handlers : HandlerOK(hd[h])
  /\ \A p \in Pods : SyncOK(sy[p])

LEMMA IdleOK == HandlerOK(IdleHandler) /\ SyncOK(IdleSync)
BY DEF HandlerOK, SyncOK, IdleHandler, IdleSync, Pass, HandlerState, SyncState, HandlerPC, SyncPC

LEMMA InitType == Init => TypeInv
<1> SUFFICES ASSUME Init PROVE TypeInv OBVIOUS
<1>1. TypeOK
  BY StartAssumption, IdleOK
  DEF Init, TypeOK, NoTrade, TradeRow, BrokerOrder, HandlerOK, SyncOK
<1> QED BY <1>1, IdleOK DEF Init, TypeInv

LEMMA HandleType ==
  ASSUME TypeInv, NEW h \in Handlers, NEW e, HandlerOK(e), Handle(h, e)
  PROVE  hd' \in [Handlers -> HandlerState] /\ \A k \in Handlers : HandlerOK(hd'[k])
BY DEF TypeInv, TypeOK, HandlerOK, Handle

LEMMA SyncType ==
  ASSUME TypeInv, NEW p \in Pods, NEW e, SyncOK(e), Sync(p, e)
  PROVE  sy' \in [Pods -> SyncState] /\ \A q \in Pods : SyncOK(sy'[q])
BY DEF TypeInv, TypeOK, SyncOK, Sync

LEMMA GoOn ==
  ASSUME TypeInv, NEW h \in Handlers, hd[h].pc # "idle", NEW pc \in HandlerPC
  PROVE  HandlerOK([hd[h] EXCEPT !.pc = pc])
BY DEF TypeInv, HandlerOK, HandlerState

LEMMA SubmittedType ==
  ASSUME TypeOK, NEW o \in Orders, NEW q \in Nat,
         NEW outcome \in {"working", "filled", "failed"}, Submitted(o, q, outcome)
  PROVE  brk' \in [Orders -> BrokerOrder] /\ held' \in [Symbols -> Int]
<1>1. CASE UNCHANGED <<brk, held>>
  BY <1>1 DEF TypeOK
<1>2. CASE Execute(o, "working", q, 0)
  BY <1>2, ExecuteType
<1>3. CASE Execute(o, "filled", q, q)
  BY <1>3, ExecuteType
<1>4. CASE \E got \in 1 .. q - 1 : Execute(o, "working", q, got)
  <2>1. PICK got \in Nat : Execute(o, "working", q, got) BY <1>4
  <2> QED BY <2>1, ExecuteType
<1> QED BY <1>1, <1>2, <1>3, <1>4 DEF Submitted

----------------------------------------------------------------------------
\* Type correctness, action by action.

LEMMA ProposeType ==
  ASSUME TypeInv, NEW h \in Handlers, NEW o \in Orders, Propose(h, o)
  PROVE  TypeInv'
<1>1. cash[o.agent] \in Int BY OrderFields DEF TypeInv, TypeOK
<1> DEFINE e == [IdleHandler EXCEPT !.pc = "gate", !.order = o, !.bal = cash[o.agent]]
<1>2. HandlerOK(e) BY <1>1 DEF HandlerOK, HandlerState, HandlerPC, IdleHandler
<1> HIDE DEF e
<1>3. Handle(h, e) BY DEF Propose, e
<1> QED BY <1>2, <1>3, HandleType DEF Propose, TypeInv, TypeOK

LEMMA HandlerStepType ==
  ASSUME TypeInv, NEW h \in Handlers, HandlerStep(h)
  PROVE  TypeInv'
<1> DEFINE o == hd[h].order
<1>0. ASSUME hd[h].pc # "idle" PROVE o \in Orders /\ hd[h].bal \in Int /\ trade[o].qty \in Nat
  BY <1>0 DEF TypeInv, TypeOK, HandlerOK, HandlerState, TradeRow
<1> HIDE DEF o
<1>1. CASE Gate(h)
  <2>1. HandlerOK([hd[h] EXCEPT !.pc = "claims"]) BY <1>1, GoOn DEF Gate, HandlerPC
  <2>2. PICK e : HandlerOK(e) /\ Handle(h, e) BY <1>1, <2>1, IdleOK DEF Gate
  <2> QED BY <1>1, <2>2, HandleType DEF Gate, TypeInv, TypeOK
<1>2. CASE ReadClaims(h)
  <2> DEFINE taken == o.side = "buy" /\ o.symbol \in ClaimedByOthers(o.agent)
             e == [hd[h] EXCEPT !.pc = "record", !.taken = taken]
  <2>1. taken \in BOOLEAN BY DEF o
  <2> HIDE DEF taken
  <2>2. HandlerOK(e)
    BY <1>2, <2>1 DEF ReadClaims, TypeInv, HandlerOK, HandlerState, HandlerPC
  <2>3. Handle(h, e) BY <1>2 DEF ReadClaims, taken, o
  <2> HIDE DEF e
  <2> QED BY <1>2, <2>2, <2>3, HandleType DEF ReadClaims, TypeInv, TypeOK
<1>3. CASE Record(h)
  <2> DEFINE q == SizedQty(o, hd[h].bal)
  <2>1. q \in Nat BY <1>0, <1>3, SizedNat DEF Record
  <2> HIDE DEF q
  <2>2. PICK row \in TradeRow : trade' = [trade EXCEPT ![o] = row]
    BY <1>3, <2>1 DEF Record, TradeRow, q, o
  <2>3. HandlerOK([hd[h] EXCEPT !.pc = "submit"]) BY <1>3, GoOn DEF Record, HandlerPC
  <2>4. PICK e : HandlerOK(e) /\ Handle(h, e) BY <1>3, <2>3, IdleOK DEF Record
  <2> QED BY <1>3, <2>2, <2>4, HandleType DEF Record, TypeInv, TypeOK
<1>4. CASE Submit(h)
  <2>1. PICK outcome \in {"working", "filled", "failed"} :
          /\ Submitted(o, trade[o].qty, outcome)
          /\ Handle(h, [hd[h] EXCEPT !.pc = IF outcome = "failed" THEN "failed" ELSE "mark",
                                     !.filled = (outcome = "filled")])
    BY <1>4 DEF Submit, o
  <2> DEFINE e == [hd[h] EXCEPT !.pc = IF outcome = "failed" THEN "failed" ELSE "mark",
                                !.filled = (outcome = "filled")]
  <2>2. HandlerOK(e)
    BY <1>4 DEF Submit, TypeInv, HandlerOK, HandlerState, HandlerPC
  <2>3. Handle(h, e) BY <2>1
  <2> HIDE DEF e
  <2>4. brk' \in [Orders -> BrokerOrder] /\ held' \in [Symbols -> Int]
    BY <1>0, <1>4, <2>1, SubmittedType DEF Submit, TypeInv
  <2> QED BY <1>4, <2>2, <2>3, <2>4, HandleType DEF Submit, TypeInv, TypeOK
<1>5. CASE MarkFailed(h)
  <2>1. trade' \in [Orders -> TradeRow]
    BY <1>0, <1>5, UpdateTradeStatusType DEF MarkFailed, TypeInv, o
  <2> QED BY <1>5, <2>1, IdleOK, HandleType DEF MarkFailed, TypeInv, TypeOK
<1>6. CASE Mark(h)
  <2>1. trade' \in [Orders -> TradeRow]
    BY <1>0, <1>6, UpdateTradeStatusType DEF Mark, TypeInv, o
  <2>2. HandlerOK([hd[h] EXCEPT !.pc = "cash"]) BY <1>6, GoOn DEF Mark, HandlerPC
  <2>3. PICK e : HandlerOK(e) /\ Handle(h, e) BY <1>6, <2>2, IdleOK DEF Mark
  <2> QED BY <1>6, <2>1, <2>3, HandleType DEF Mark, TypeInv, TypeOK
<1>7. CASE HandlerCash(h)
  <2>1. cash' \in [Agents -> Int] /\ booked' \in [Orders -> Nat] /\ stale' \subseteq Agents
    BY <1>0, <1>7, BookFillType DEF HandlerCash, TypeInv, o
  <2>2. HandlerOK([hd[h] EXCEPT !.pc = "position"]) BY <1>7, GoOn DEF HandlerCash, HandlerPC
  <2> QED BY <1>7, <2>1, <2>2, HandleType DEF HandlerCash, TypeInv, TypeOK
<1>8. CASE HandlerPosition(h)
  <2>1. pos' \in [Agents -> [Symbols -> Nat]] /\ oversold' \subseteq Symbols
    BY <1>0, <1>8, ApplyFillType DEF HandlerPosition, TypeInv, o
  <2> QED BY <1>8, <2>1, IdleOK, HandleType DEF HandlerPosition, TypeInv, TypeOK
<1> QED BY <1>1, <1>2, <1>3, <1>4, <1>5, <1>6, <1>7, <1>8 DEF HandlerStep

LEMMA PassOK ==
  ASSUME NEW rows \in SUBSET Orders
  PROVE  SyncOK(Pass(rows))
BY DEF SyncOK, SyncState, SyncPC, Pass

LEMMA NextRowType ==
  ASSUME TypeInv, NEW p \in Pods, NEW o, NextRow(p, o)
  PROVE  sy' \in [Pods -> SyncState] /\ \A q \in Pods : SyncOK(sy'[q])
<1>1. sy[p].todo \ {o} \in SUBSET Orders BY DEF TypeInv, SyncOK, SyncState
<1> QED BY <1>1, PassOK, SyncType DEF NextRow

LEMMA SyncGoOn ==
  ASSUME TypeInv, NEW p \in Pods, sy[p].pc \notin {"idle", "next"}, NEW pc \in SyncPC
  PROVE  SyncOK([sy[p] EXCEPT !.pc = pc])
BY DEF TypeInv, SyncOK, SyncState

LEMMA SyncStepType ==
  ASSUME TypeInv, NEW p \in Pods, SyncStep(p)
  PROVE  TypeInv'
<1> DEFINE o == sy[p].order
<1>0. ASSUME sy[p].pc \notin {"idle", "next"}
      PROVE  o \in Orders /\ sy[p].bal \in Int /\ brk[o].got \in Nat
  BY <1>0 DEF TypeInv, TypeOK, SyncOK, SyncState, BrokerOrder
<1> HIDE DEF o
<1>1. CASE SyncBegin(p)
  <2>1. PendingOrders \in SUBSET Orders BY DEF PendingOrders, Accepted
  <2> QED BY <1>1, <2>1, PassOK, SyncType DEF SyncBegin, TypeInv, TypeOK
<1>2. CASE \E t \in Orders : SyncSkip(p, t)
  BY <1>2, NextRowType DEF SyncSkip, TypeInv, TypeOK
<1>3. CASE \E t \in Orders : SyncRead(p, t)
  <2>1. PICK t \in Orders : SyncRead(p, t) BY <1>3
  <2> DEFINE pc == IF brk[t].st = "filled" THEN "agent" ELSE "fail"
             e == [sy[p] EXCEPT !.pc = pc, !.order = t]
  <2>2. pc \in SyncPC BY DEF SyncPC
  <2>3. Sync(p, e) BY <2>1 DEF SyncRead
  <2> HIDE DEF pc
  <2>4. [sy[p] EXCEPT !.pc = pc] \in SyncState BY <2>2 DEF TypeInv, SyncOK, SyncState
  <2>5. SyncOK(e) BY <2>2, <2>4 DEF SyncOK, SyncState
  <2> HIDE DEF e
  <2> QED BY <2>1, <2>3, <2>5, SyncType DEF SyncRead, TypeInv, TypeOK
<1>4. CASE SyncFail(p)
  <2>1. trade' \in [Orders -> TradeRow]
    BY <1>0, <1>4, UpdateTradeStatusType DEF SyncFail, TypeInv, o
  <2> QED BY <1>4, <2>1, NextRowType DEF SyncFail, TypeInv, TypeOK
<1>5. CASE SyncAgent(p)
  <2> DEFINE b == cash[o.agent]
             e == [sy[p] EXCEPT !.pc = "mark", !.bal = b]
  <2>1. b \in Int BY <1>0, <1>5, OrderFields DEF SyncAgent, TypeInv, TypeOK
  <2>2. Sync(p, e) BY <1>5 DEF SyncAgent, o
  <2> HIDE DEF b
  <2>3. SyncOK(e) BY <1>5, <2>1 DEF SyncAgent, TypeInv, SyncOK, SyncState, SyncPC
  <2> HIDE DEF e
  <2> QED BY <1>5, <2>2, <2>3, SyncType DEF SyncAgent, TypeInv, TypeOK
<1>6. CASE SyncMark(p)
  <2>1. trade' \in [Orders -> TradeRow]
    BY <1>0, <1>6, UpdateTradeStatusType DEF SyncMark, TypeInv, o
  <2>2. SyncOK([sy[p] EXCEPT !.pc = "cash"]) BY <1>6, SyncGoOn DEF SyncMark, SyncPC
  <2> QED BY <1>6, <2>1, <2>2, SyncType DEF SyncMark, TypeInv, TypeOK
<1>7. CASE SyncCash(p)
  <2>1. cash' \in [Agents -> Int] /\ booked' \in [Orders -> Nat] /\ stale' \subseteq Agents
    BY <1>0, <1>7, BookFillType DEF SyncCash, TypeInv, o
  <2>2. SyncOK([sy[p] EXCEPT !.pc = "position"]) BY <1>7, SyncGoOn DEF SyncCash, SyncPC
  <2> QED BY <1>7, <2>1, <2>2, SyncType DEF SyncCash, TypeInv, TypeOK
<1>8. CASE SyncPosition(p)
  <2>1. pos' \in [Agents -> [Symbols -> Nat]] /\ oversold' \subseteq Symbols
    BY <1>0, <1>8, ApplyFillType DEF SyncPosition, TypeInv, o
  <2> QED BY <1>8, <2>1, NextRowType DEF SyncPosition, TypeInv, TypeOK
<1> QED BY <1>1, <1>2, <1>3, <1>4, <1>5, <1>6, <1>7, <1>8 DEF SyncStep

LEMMA BrokerType ==
  ASSUME TypeInv, NEW o \in Orders, BrokerFill(o) \/ BrokerCancel(o)
  PROVE  TypeInv'
<1>1. brk[o].qty \in Nat /\ brk[o].got \in Nat BY DEF TypeInv, TypeOK, BrokerOrder
<1>2. \E st \in {"filled", "canceled"}, got \in Nat : Execute(o, st, brk[o].qty, got)
  BY <1>1 DEF BrokerFill, BrokerCancel
<1>3. brk' \in [Orders -> BrokerOrder] /\ held' \in [Symbols -> Int]
  BY <1>1, <1>2, ExecuteType DEF TypeInv
<1>4. UNCHANGED <<trade, cash, stale, pos, oversold, booked, hd, sy>> BY DEF BrokerFill, BrokerCancel
<1> QED BY <1>3, <1>4 DEF TypeInv, TypeOK

\* A crash and a failed database call do the same: some threads and passes end where
\* they are, and nothing else changes.
Dropped ==
  /\ UNCHANGED <<trade, cash, stale, pos, oversold, brk, held, booked>>
  /\ hd' \in [Handlers -> HandlerState] /\ sy' \in [Pods -> SyncState]
  /\ \A h \in Handlers : hd'[h] = IdleHandler \/ hd'[h] = hd[h]
  /\ \A p \in Pods : sy'[p] = IdleSync \/ sy'[p] = sy[p]

LEMMA DropSteps ==
  ASSUME TypeOK, Abort \/ \E p \in Pods : Crash(p)
  PROVE  Dropped
<1>1. IdleHandler \in HandlerState /\ IdleSync \in SyncState
  BY IdleOK DEF HandlerOK, SyncOK
<1>2. CASE \E p \in Pods : Crash(p)
  BY <1>1, <1>2 DEF Crash, Dropped, TypeOK
<1>3. CASE Abort
  BY <1>1, <1>3 DEF Abort, Handle, Sync, Dropped, TypeOK
<1> QED BY <1>2, <1>3

LEMMA DroppedType ==
  ASSUME TypeInv, Dropped
  PROVE  TypeInv'
<1>1. \A h \in Handlers : HandlerOK(hd'[h]) BY IdleOK DEF Dropped, TypeInv
<1>2. \A p \in Pods : SyncOK(sy'[p]) BY IdleOK DEF Dropped, TypeInv
<1> QED BY <1>1, <1>2 DEF Dropped, TypeInv, TypeOK

LEMMA TypeNext == TypeInv /\ [Next]_vars => TypeInv'
<1> SUFFICES ASSUME TypeInv, [Next]_vars PROVE TypeInv' OBVIOUS
<1>1. CASE UNCHANGED vars BY <1>1 DEF vars, TypeInv, TypeOK
<1>2. CASE \E h \in Handlers : HandlerStep(h) BY <1>2, HandlerStepType
<1>3. CASE \E h \in Handlers, o \in Orders : Propose(h, o) BY <1>3, ProposeType
<1>4. CASE \E p \in Pods : SyncStep(p) BY <1>4, SyncStepType
<1>5. CASE \E o \in Orders : BrokerFill(o) \/ BrokerCancel(o) BY <1>5, BrokerType
<1>6. CASE Abort \/ \E p \in Pods : Crash(p)
  BY <1>6, DropSteps, DroppedType DEF TypeInv
<1> QED BY <1>1, <1>2, <1>3, <1>4, <1>5, <1>6 DEF Next, Step

\* Type correctness, for any number of agents, orders, threads and pods: a balance may
\* go below zero, but no position, no quantity and no number of bookings does, whatever
\* the broker answers and wherever a process dies.
THEOREM TypeCorrect == Spec => []TypeOK
<1>1. TypeInv => TypeOK BY DEF TypeInv
<1> QED BY <1>1, InitType, TypeNext, PTL DEF Spec

----------------------------------------------------------------------------
\* With one pod, IInv is inductive.

OnePod == \A p, q \in Pods : p = q

USE DEF Real

Safe ==
  /\ \A o \in Orders : RowInv(o)
  /\ \A h \in Handlers : HandlerInv(h)
  /\ \A p \in Pods : SyncInv(p)
  /\ Exclusive

LEMMA IInvType == IInv => TypeInv
<1> SUFFICES ASSUME IInv PROVE TypeInv OBVIOUS
<1>1. ASSUME NEW h \in Handlers PROVE HandlerOK(hd[h])
  BY DEF IInv, HandlerInv, HandlerOK, TypeOK
<1>2. ASSUME NEW p \in Pods PROVE SyncOK(sy[p])
  BY DEF IInv, SyncInv, SyncOK, TypeOK, SyncState
<1> QED BY <1>1, <1>2 DEF TypeInv, IInv

LEMMA InitSafe == Init => IInv
<1> SUFFICES ASSUME Init PROVE IInv OBVIOUS
<1>1. TypeOK BY InitType DEF TypeInv
<1>2. ASSUME NEW o \in Orders PROVE RowInv(o)
  BY DEF Init, RowInv, NoTrade
<1>3. ASSUME NEW h \in Handlers PROVE HandlerInv(h)
  BY DEF Init, HandlerInv, IdleHandler
<1>4. ASSUME NEW p \in Pods PROVE SyncInv(p)
  BY DEF Init, SyncInv, IdleSync, Pass
<1>5. Exclusive BY DEF Init, Exclusive, IdleHandler, IdleSync, Pass
<1> QED BY <1>1, <1>2, <1>3, <1>4, <1>5 DEF IInv

\* Steps that change neither a row nor a booking nor the broker.
LEMMA ProposeSafe ==
  ASSUME IInv, NEW h \in Handlers, NEW o \in Orders, Propose(h, o)
  PROVE  Safe'
<1> DEFINE e == [IdleHandler EXCEPT !.pc = "gate", !.order = o, !.bal = cash[o.agent]]
<1>1. /\ e.pc = "gate" /\ e.order = o /\ e.filled = FALSE
      /\ trade[o].status = "none" /\ ~o.auto /\ \A k \in Handlers : hd[k].order # o
  BY DEF IdleHandler, Propose, Unused
<1>2. hd' = [hd EXCEPT ![h] = e] BY DEF Propose, Handle
<1> HIDE DEF e
<1>3. hd'[h] = e /\ \A k \in Handlers \ {h} : hd'[k] = hd[k] BY <1>2 DEF IInv, TypeOK
<1>4. UNCHANGED <<trade, booked, brk, sy>> BY DEF Propose
<1>5. ASSUME NEW t \in Orders PROVE RowInv(t)'
  BY <1>4 DEF IInv, RowInv
<1>6. ASSUME NEW k \in Handlers PROVE HandlerInv(k)'
  BY <1>1, <1>3, <1>4 DEF IInv, HandlerInv
<1>7. ASSUME NEW p \in Pods PROVE SyncInv(p)'
  BY <1>4 DEF IInv, SyncInv, PendingOrders, Accepted
<1>8. Exclusive'
  <2>1. ASSUME NEW p \in Pods, sy[p].pc \in {"cash", "position"} PROVE o # sy[p].order
    BY <1>1, <2>1 DEF IInv, SyncInv
  <2> QED BY <1>1, <1>3, <1>4, <2>1 DEF IInv, Exclusive
<1> QED BY <1>5, <1>6, <1>7, <1>8 DEF Safe

\* A thread goes on with the order it has, or lets go of it; nothing else changes.
LEMMA HandleSafe ==
  ASSUME IInv, NEW h \in Handlers, NEW e, Handle(h, e), hd[h].pc # "idle",
         UNCHANGED <<trade, booked, brk, sy>>,
         \/ e = IdleHandler
         \/ /\ e.order = hd[h].order /\ hd[h].pc \in {"gate", "claims"}
            /\ e.pc \in {"claims", "record"}
  PROVE  Safe'
<1>1. hd'[h] = e /\ \A k \in Handlers \ {h} : hd'[k] = hd[k] BY DEF IInv, TypeOK, Handle
<1>2. IdleHandler.pc = "idle" /\ IdleHandler.order = NoOrder BY DEF IdleHandler
<1>3. ASSUME NEW t \in Orders PROVE RowInv(t)'
  BY DEF IInv, RowInv
<1>4. ASSUME NEW k \in Handlers PROVE HandlerInv(k)'
  BY <1>1, <1>2 DEF IInv, HandlerInv
<1>5. ASSUME NEW p \in Pods PROVE SyncInv(p)'
  BY DEF IInv, SyncInv, PendingOrders, Accepted
<1>6. Exclusive'
  <2>1. \A k \in Handlers : hd[k].pc # "idle" => hd[k].order # NoOrder
    BY OrdersAssumption DEF IInv, HandlerInv
  <2> QED BY <1>1, <1>2, <2>1 DEF IInv, Exclusive
<1> QED BY <1>3, <1>4, <1>5, <1>6 DEF Safe

\* A thread changes the row of its own order, which no sync pass has: the row is still
\* without the broker's id.  The row's new status is what the thread's next program
\* point stands for.
OwnRow(h, e, row) ==
  /\ hd[h].pc \in {"record", "failed", "mark"}
  /\ row.status # "none"
  /\ row.status = "filled" => hd[h].pc = "mark" /\ hd[h].filled
  /\ \/ e = IdleHandler
     \/ /\ e.order = hd[h].order /\ e.pc = "submit"
        /\ row.status = "accepted" /\ ~row.id
     \/ /\ e.order = hd[h].order /\ e.pc = "cash" /\ row.status = "filled"

LEMMA OwnRowSafe ==
  ASSUME IInv, NEW h \in Handlers, NEW e, NEW row, OwnRow(h, e, row),
         trade' = [trade EXCEPT ![hd[h].order] = row], Handle(h, e),
         UNCHANGED <<booked, brk, sy>>
  PROVE  Safe'
<1> USE DEF OwnRow
<1> DEFINE o == hd[h].order
<1>0. /\ o \in Orders /\ ~o.auto /\ booked[o] = 0 /\ o \notin PendingOrders
      /\ trade[o].status \in {"none", "accepted"}
      /\ hd[h].pc = "mark" /\ hd[h].filled => Real(o)
  <2>1. HandlerInv(h) BY DEF IInv
  <2>2. o \in Orders BY <2>1 DEF HandlerInv
  <2>3. RowInv(o) /\ booked[o] \in Nat BY <2>2 DEF IInv, TypeOK
  <2> QED BY <2>1, <2>2, <2>3 DEF HandlerInv, RowInv, PendingOrders, Accepted
<1>1. hd'[h] = e /\ \A k \in Handlers \ {h} : hd'[k] = hd[k] BY DEF IInv, TypeOK, Handle
<1>2. trade'[o] = row /\ \A t \in Orders \ {o} : trade'[t] = trade[t]
  BY <1>0 DEF IInv, TypeOK
<1>3. IdleHandler.pc = "idle" /\ IdleHandler.order = NoOrder BY DEF IdleHandler
<1>4. \A k \in Handlers : hd[k].pc # "idle" /\ hd[k].order = o => k = h
  BY DEF IInv, Exclusive
<1> HIDE DEF o
<1>5. ASSUME NEW t \in Orders PROVE RowInv(t)'
  BY <1>0, <1>2 DEF IInv, RowInv
<1>6. ASSUME NEW k \in Handlers PROVE HandlerInv(k)'
  <2>1. CASE k = h
    BY <1>0, <1>1, <1>2, <1>3, <2>1 DEF IInv, HandlerInv, o
  <2>2. CASE k # h
    <3>1. hd'[k] = hd[k] /\ (hd[k].pc # "idle" => trade'[hd[k].order] = trade[hd[k].order])
      BY <1>1, <1>2, <1>4, <2>2 DEF IInv, HandlerInv
    <3> QED BY <3>1 DEF IInv, HandlerInv
  <2> QED BY <2>1, <2>2
<1>7. ASSUME NEW p \in Pods PROVE SyncInv(p)'
  <2>1. sy[p].todo \subseteq Orders BY DEF IInv, TypeOK, SyncState
  <2>2. o \notin sy[p].todo
    <3>1. o \in sy[p].todo => o \in PendingOrders \/ trade[o].status = "filled"
      BY DEF IInv, SyncInv
    <3> QED BY <1>0, <3>1
  <2>3. \A t \in sy[p].todo : trade'[t] = trade[t] BY <1>2, <2>1, <2>2
  <2>4. sy'[p] = sy[p] /\ SyncInv(p) BY DEF IInv
  <2> QED BY <2>1, <2>3, <2>4 DEF SyncInv, PendingOrders, Accepted
<1>8. Exclusive'
  <2>1. \A k \in Handlers : hd[k].pc # "idle" => hd[k].order # NoOrder
    BY OrdersAssumption DEF IInv, HandlerInv
  <2> QED BY <1>1, <1>3, <2>1 DEF IInv, Exclusive, o
<1> QED BY <1>5, <1>6, <1>7, <1>8 DEF Safe

LEMMA RecordSafe == ASSUME IInv, NEW h \in Handlers, Record(h) PROVE Safe'
<1> DEFINE row1 == [status |-> "accepted", id |-> FALSE,
                    qty |-> SizedQty(hd[h].order, hd[h].bal)]
           row2 == [status |-> "rejected", id |-> FALSE, qty |-> 0]
           e == [hd[h] EXCEPT !.pc = "submit"]
<1>1. hd[h].pc = "record" /\ UNCHANGED <<booked, brk, sy>> BY DEF Record
<1>2. \/ trade' = [trade EXCEPT ![hd[h].order] = row1] /\ Handle(h, e)
      \/ trade' = [trade EXCEPT ![hd[h].order] = row2] /\ Handle(h, IdleHandler)
  BY DEF Record
<1>3. e.order = hd[h].order /\ e.pc = "submit" BY DEF IInv, TypeOK, HandlerState
<1>4. /\ row1.status = "accepted" /\ ~row1.id
      /\ row2.status = "rejected"
  OBVIOUS
<1> HIDE DEF row1, row2, e
<1>5. CASE trade' = [trade EXCEPT ![hd[h].order] = row1] /\ Handle(h, e)
  <2>1. OwnRow(h, e, row1) BY <1>1, <1>3, <1>4 DEF OwnRow
  <2> QED BY <1>1, <1>5, <2>1, OwnRowSafe
<1>6. CASE trade' = [trade EXCEPT ![hd[h].order] = row2] /\ Handle(h, IdleHandler)
  <2>1. OwnRow(h, IdleHandler, row2) BY <1>1, <1>4 DEF OwnRow
  <2> QED BY <1>1, <1>6, <2>1, OwnRowSafe
<1> QED BY <1>2, <1>5, <1>6

LEMMA MarkFailedSafe == ASSUME IInv, NEW h \in Handlers, MarkFailed(h) PROVE Safe'
<1> DEFINE o == hd[h].order
           row == [trade[o] EXCEPT !.status = "failed", !.id = FALSE]
<1>1. hd[h].pc = "failed" /\ UNCHANGED <<booked, brk, sy>> /\ Handle(h, IdleHandler)
  BY DEF MarkFailed
<1>2. trade' = [trade EXCEPT ![o] = row]
  BY DEF MarkFailed, UpdateTradeStatus
<1>3. o \in Orders BY <1>1 DEF IInv, HandlerInv
<1>4. row.status = "failed" BY <1>3 DEF IInv, TypeOK, TradeRow
<1> HIDE DEF row
<1>5. OwnRow(h, IdleHandler, row) BY <1>1, <1>4 DEF OwnRow
<1> QED BY <1>1, <1>2, <1>5, OwnRowSafe

LEMMA MarkSafe == ASSUME IInv, NEW h \in Handlers, Mark(h) PROVE Safe'
<1> DEFINE o == hd[h].order
           st == IF hd[h].filled THEN "filled" ELSE "accepted"
           row == [trade[o] EXCEPT !.status = st, !.id = TRUE]
           e == [hd[h] EXCEPT !.pc = "cash"]
<1>1. /\ hd[h].pc = "mark" /\ UNCHANGED <<booked, brk, sy>>
      /\ Handle(h, IF hd[h].filled THEN e ELSE IdleHandler)
  BY DEF Mark
<1>2. trade' = [trade EXCEPT ![o] = row]
  BY DEF Mark, UpdateTradeStatus
<1>3. o \in Orders BY <1>1 DEF IInv, HandlerInv
<1>4. row.status = st BY <1>3 DEF IInv, TypeOK, TradeRow
<1>5. e.order = o /\ e.pc = "cash" BY DEF IInv, TypeOK, HandlerState
<1>6. (st = "filled" <=> hd[h].filled) /\ st # "none" OBVIOUS
<1> HIDE DEF row, e, st
<1>7. CASE hd[h].filled
  <2>1. OwnRow(h, e, row) BY <1>1, <1>4, <1>5, <1>6, <1>7 DEF OwnRow
  <2> QED BY <1>1, <1>2, <1>7, <2>1, OwnRowSafe
<1>8. CASE ~hd[h].filled
  <2>1. OwnRow(h, IdleHandler, row) BY <1>1, <1>4, <1>6, <1>8 DEF OwnRow
  <2> QED BY <1>1, <1>2, <1>8, <2>1, OwnRowSafe
<1> QED BY <1>7, <1>8

LEMMA Executed ==
  ASSUME TypeOK, NEW o \in Orders, NEW st, NEW q, NEW got, Execute(o, st, q, got)
  PROVE  /\ brk'[o].st = st /\ brk'[o].qty = q /\ brk'[o].got = got
         /\ \A t \in Orders \ {o} : brk'[t] = brk[t]
BY DEF Execute, TypeOK

\* what a submission that reaches the broker makes of the order
Placed(o, q, outcome, st, got) ==
  /\ Execute(o, st, q, got)
  /\ st = "filled" => got = q
  /\ outcome = "filled" => st = "filled" \/ ("part_reply" \in Faults /\ got > 0)

LEMMA SubmittedSteps ==
  ASSUME NEW o \in Orders, NEW q \in Nat, NEW outcome, Submitted(o, q, outcome)
  PROVE  \/ outcome = "failed" /\ UNCHANGED <<brk, held>>
         \/ \E st \in {"working", "filled"}, got \in Nat : Placed(o, q, outcome, st, got)
<1>1. CASE \E got \in 1 .. q - 1 : "part_reply" \in Faults /\ Execute(o, "working", q, got)
  <2>1. PICK got \in 1 .. q - 1 : "part_reply" \in Faults /\ Execute(o, "working", q, got)
    BY <1>1
  <2>2. got \in Nat /\ got > 0 OBVIOUS
  <2>3. Placed(o, q, outcome, "working", got) BY <2>1, <2>2 DEF Placed
  <2> QED BY <2>2, <2>3
<1>2. CASE outcome # "filled" /\ Execute(o, "working", q, 0)
  <2>1. Placed(o, q, outcome, "working", 0) BY <1>2 DEF Placed
  <2> QED BY <2>1
<1>3. CASE Execute(o, "filled", q, q)
  <2>1. Placed(o, q, outcome, "filled", q) BY <1>3 DEF Placed
  <2> QED BY <2>1
<1> QED BY <1>1, <1>2, <1>3 DEF Submitted

\* Only the thread's own order changes at the broker, and its row has no broker id yet.
LEMMA SubmitSafe == ASSUME IInv, NEW h \in Handlers, Submit(h) PROVE Safe'
<1> DEFINE o == hd[h].order
<1>1. PICK outcome \in {"working", "filled", "failed"} :
        /\ Submitted(o, trade[o].qty, outcome)
        /\ Handle(h, [hd[h] EXCEPT !.pc = IF outcome = "failed" THEN "failed" ELSE "mark",
                                   !.filled = (outcome = "filled")])
  BY DEF Submit
<1> DEFINE e == [hd[h] EXCEPT !.pc = IF outcome = "failed" THEN "failed" ELSE "mark",
                              !.filled = (outcome = "filled")]
<1>2. /\ e.order = o /\ e.pc \in {"failed", "mark"}
      /\ e.pc = "mark" /\ e.filled => outcome = "filled"
  BY DEF IInv, TypeOK, HandlerState
<1>3. /\ hd[h].pc = "submit" /\ UNCHANGED <<trade, booked, sy>> /\ Handle(h, e)
  BY <1>1 DEF Submit
<1> HIDE DEF e
<1>4. hd'[h] = e /\ \A k \in Handlers \ {h} : hd'[k] = hd[k] BY <1>3 DEF IInv, TypeOK, Handle
<1>5. o \in Orders /\ ~o.auto /\ trade[o].status = "accepted" /\ ~trade[o].id
  BY <1>3 DEF IInv, HandlerInv
<1>6. /\ \A t \in Orders \ {o} : brk'[t] = brk[t]
      /\ outcome = "filled" =>
           brk'[o].st = "filled" \/ ("part_reply" \in Faults /\ brk'[o].got > 0)
  <2>1. PICK q \in Nat : q = trade[o].qty BY <1>5 DEF IInv, TypeOK, TradeRow
  <2>2. Submitted(o, q, outcome) /\ TypeOK BY <1>1, <2>1 DEF IInv
  <2>3. \/ outcome = "failed" /\ UNCHANGED brk
        \/ \E st \in {"working", "filled"}, got \in Nat : Placed(o, q, outcome, st, got)
    BY <1>5, <2>2, SubmittedSteps
  <2>4. CASE outcome = "failed" /\ UNCHANGED brk BY <2>4
  <2>5. CASE \E st \in {"working", "filled"}, got \in Nat : Placed(o, q, outcome, st, got)
    <3>1. PICK st \in {"working", "filled"}, got \in Nat : Placed(o, q, outcome, st, got)
      BY <2>5
    <3> HIDE DEF o
    <3>2. brk'[o].st = st /\ brk'[o].got = got /\ \A t \in Orders \ {o} : brk'[t] = brk[t]
      BY <1>5, <2>2, <3>1, Executed DEF Placed
    <3>3. CASE outcome # "filled" BY <3>2, <3>3
    <3>4. CASE outcome = "filled"
      <4>1. st = "filled" \/ ("part_reply" \in Faults /\ got > 0) BY <3>1, <3>4 DEF Placed
      <4> QED BY <3>2, <4>1
    <3> QED BY <3>3, <3>4
  <2> QED BY <2>3, <2>4, <2>5
<1>7. \A k \in Handlers : hd[k].pc # "idle" /\ hd[k].order = o => k = h
  BY DEF IInv, Exclusive
<1> HIDE DEF o
<1>8. ASSUME NEW t \in Orders PROVE RowInv(t)'
  BY <1>3, <1>5, <1>6 DEF IInv, RowInv
<1>9. ASSUME NEW k \in Handlers PROVE HandlerInv(k)'
  <2>1. CASE k = h
    <3>1. hd'[k] = e /\ e.order = o /\ trade' = trade BY <1>2, <1>3, <1>4, <2>1
    <3> QED BY <1>2, <1>5, <1>6, <3>1 DEF HandlerInv
  <2>2. CASE k # h
    <3>0. HandlerInv(k) BY DEF IInv
    <3>1. hd'[k] = hd[k] /\ (hd[k].pc # "idle" => brk'[hd[k].order] = brk[hd[k].order])
      BY <1>4, <1>6, <1>7, <2>2, <3>0 DEF HandlerInv
    <3> QED BY <1>3, <3>1 DEF IInv, HandlerInv
  <2> QED BY <2>1, <2>2
<1>10. ASSUME NEW p \in Pods PROVE SyncInv(p)'
  <2>1. sy[p].todo \subseteq Orders /\ SyncInv(p) BY DEF IInv, TypeOK, SyncState
  <2>2. sy[p].pc \in {"agent", "mark", "cash", "position"} => sy[p].order # o
    BY <1>5, <2>1 DEF SyncInv, PendingOrders, Accepted
  <2>3. sy[p].pc \in {"agent", "mark", "cash", "position"} =>
          brk'[sy[p].order] = brk[sy[p].order]
    BY <1>6, <2>1, <2>2 DEF SyncInv
  <2> QED BY <1>3, <2>1, <2>3 DEF SyncInv, PendingOrders, Accepted
<1>11. Exclusive' BY <1>2, <1>3, <1>4 DEF IInv, Exclusive, o
<1> QED BY <1>8, <1>9, <1>10, <1>11 DEF Safe

\* The fill of the thread's own order is booked, for the first time.
LEMMA HandlerCashSafe == ASSUME IInv, NEW h \in Handlers, HandlerCash(h) PROVE Safe'
<1> DEFINE o == hd[h].order
           e == [hd[h] EXCEPT !.pc = "position"]
<1>1. e.order = o /\ e.pc = "position" BY DEF IInv, TypeOK, HandlerState
<1>2. /\ hd[h].pc = "cash" /\ UNCHANGED <<trade, brk, sy>> /\ Handle(h, e)
      /\ booked' = [booked EXCEPT ![o] = @ + 1]
  BY DEF HandlerCash, BookFill
<1> HIDE DEF e
<1>3. hd'[h] = e /\ \A k \in Handlers \ {h} : hd'[k] = hd[k] BY <1>2 DEF IInv, TypeOK, Handle
<1>4. o \in Orders /\ ~o.auto /\ trade[o].status = "filled" /\ booked[o] = 0
  BY <1>2 DEF IInv, HandlerInv
<1>5. booked'[o] = 1 /\ \A t \in Orders \ {o} : booked'[t] = booked[t]
  BY <1>2, <1>4 DEF IInv, TypeOK
<1>6. \A k \in Handlers : hd[k].pc # "idle" /\ hd[k].order = o => k = h
  BY DEF IInv, Exclusive
<1>7. \A p \in Pods : sy[p].pc = "cash" => sy[p].order # o
  BY <1>2 DEF IInv, Exclusive
<1> HIDE DEF o
<1>8. ASSUME NEW t \in Orders PROVE RowInv(t)'
  BY <1>2, <1>4, <1>5 DEF IInv, RowInv
<1>9. ASSUME NEW k \in Handlers PROVE HandlerInv(k)'
  <2>1. CASE k = h BY <1>1, <1>2, <1>3, <1>4, <2>1 DEF HandlerInv
  <2>2. CASE k # h
    <3>1. hd'[k] = hd[k] /\ (hd[k].pc # "idle" => booked'[hd[k].order] = booked[hd[k].order])
      BY <1>3, <1>5, <1>6, <2>2 DEF IInv, HandlerInv
    <3> QED BY <1>2, <3>1 DEF IInv, HandlerInv
  <2> QED BY <2>1, <2>2
<1>10. ASSUME NEW p \in Pods PROVE SyncInv(p)'
  <2>1. sy[p].todo \subseteq Orders /\ SyncInv(p) BY DEF IInv, TypeOK, SyncState
  <2>2. sy[p].pc = "cash" => booked'[sy[p].order] = booked[sy[p].order]
    BY <1>5, <1>7, <2>1 DEF SyncInv
  <2> QED BY <1>2, <2>1, <2>2 DEF SyncInv, PendingOrders, Accepted
<1>11. Exclusive' BY <1>1, <1>2, <1>3 DEF IInv, Exclusive, o
<1> QED BY <1>8, <1>9, <1>10, <1>11 DEF Safe

LEMMA HandlerStepSafe == ASSUME IInv, NEW h \in Handlers, HandlerStep(h) PROVE Safe'
<1>1. CASE Gate(h)
  <2>1. CASE Handle(h, IdleHandler)
    BY <1>1, <2>1, HandleSafe DEF Gate
  <2>2. CASE Handle(h, [hd[h] EXCEPT !.pc = "claims"])
    <3> DEFINE e == [hd[h] EXCEPT !.pc = "claims"]
    <3>1. e.order = hd[h].order /\ e.pc = "claims" BY DEF IInv, TypeOK, HandlerState
    <3> HIDE DEF e
    <3> QED BY <1>1, <2>2, <3>1, HandleSafe DEF Gate, e
  <2> QED BY <1>1, <2>1, <2>2 DEF Gate
<1>2. CASE ReadClaims(h)
  <2> DEFINE taken == hd[h].order.side = "buy"
                        /\ hd[h].order.symbol \in ClaimedByOthers(hd[h].order.agent)
  <2> HIDE DEF taken
  <2> DEFINE e == [hd[h] EXCEPT !.pc = "record", !.taken = taken]
  <2>1. e.order = hd[h].order /\ e.pc = "record" BY DEF IInv, TypeOK, HandlerState
  <2>2. Handle(h, e) BY <1>2 DEF ReadClaims, taken
  <2> HIDE DEF e
  <2> QED BY <1>2, <2>1, <2>2, HandleSafe DEF ReadClaims
<1>3. CASE HandlerPosition(h)
  BY <1>3, HandleSafe DEF HandlerPosition
<1> QED BY <1>1, <1>2, <1>3, RecordSafe, SubmitSafe, MarkFailedSafe, MarkSafe, HandlerCashSafe
        DEF HandlerStep

\* A pass moves on over rows that it did not change.
PassFits(e) ==
  /\ e.pc \notin {"idle", "next"} => e.order \in e.todo
  /\ \A t \in e.todo : t \in PendingOrders
  /\ e.pc \in {"agent", "mark"} => brk[e.order].st = "filled"
  /\ e.pc \notin {"cash", "position"}

LEMMA PassSafe ==
  ASSUME IInv, NEW p \in Pods, NEW e, Sync(p, e), PassFits(e),
         UNCHANGED <<trade, booked, brk, hd>>
  PROVE  Safe'
<1>1. sy'[p] = e /\ \A q \in Pods \ {p} : sy'[q] = sy[q] BY DEF IInv, TypeOK, Sync
<1>2. ASSUME NEW t \in Orders PROVE RowInv(t)'
  BY DEF IInv, RowInv
<1>3. ASSUME NEW k \in Handlers PROVE HandlerInv(k)'
  BY DEF IInv, HandlerInv
<1>4. ASSUME NEW q \in Pods PROVE SyncInv(q)'
  <2>1. CASE q = p
    BY <1>1, <2>1 DEF PassFits, SyncInv, PendingOrders, Accepted
  <2>2. CASE q # p
    BY <1>1, <2>2 DEF IInv, SyncInv, PendingOrders, Accepted
  <2> QED BY <2>1, <2>2
<1>5. Exclusive' BY <1>1 DEF IInv, Exclusive, PassFits
<1> QED BY <1>2, <1>3, <1>4, <1>5 DEF Safe

LEMMA SyncBeginSafe == ASSUME IInv, NEW p \in Pods, SyncBegin(p) PROVE Safe'
<1>1. PassFits(Pass(PendingOrders)) BY DEF PassFits, Pass
<1> QED BY <1>1, PassSafe DEF SyncBegin

LEMMA NextRowSafe ==
  ASSUME IInv, NEW p \in Pods, NEW o, NextRow(p, o),
         sy[p].pc \in {"cash", "position"} => o = sy[p].order,
         UNCHANGED <<trade, booked, brk, hd>>
  PROVE  Safe'
<1>1. \A t \in sy[p].todo \ {o} : t \in PendingOrders BY DEF IInv, SyncInv
<1>2. PassFits(Pass(sy[p].todo \ {o})) BY <1>1 DEF PassFits, Pass
<1> QED BY <1>2, PassSafe DEF NextRow

LEMMA SyncReadSafe ==
  ASSUME IInv, NEW p \in Pods, NEW o \in Orders, SyncRead(p, o) PROVE Safe'
<1> DEFINE pc == IF brk[o].st = "filled" THEN "agent" ELSE "fail"
           e == [sy[p] EXCEPT !.pc = pc, !.order = o]
<1>1. sy[p].pc = "next" /\ o \in sy[p].todo /\ UNCHANGED <<trade, booked, brk, hd>> /\ Sync(p, e)
  BY DEF SyncRead
<1>2. \A t \in sy[p].todo : t \in PendingOrders BY <1>1 DEF IInv, SyncInv
<1>3. pc \in {"agent", "fail"} /\ (pc = "agent" => brk[o].st = "filled") OBVIOUS
<1> HIDE DEF pc
<1>4. e.pc = pc /\ e.order = o /\ e.todo = sy[p].todo BY DEF IInv, TypeOK, SyncState
<1> HIDE DEF e
<1>5. PassFits(e) BY <1>1, <1>2, <1>3, <1>4 DEF PassFits
<1> QED BY <1>1, <1>5, PassSafe

LEMMA SyncAgentSafe == ASSUME IInv, NEW p \in Pods, SyncAgent(p) PROVE Safe'
<1> DEFINE b == cash[sy[p].order.agent]
<1> HIDE DEF b
<1> DEFINE e == [sy[p] EXCEPT !.pc = "mark", !.bal = b]
<1>1. sy[p].pc = "agent" /\ UNCHANGED <<trade, booked, brk, hd>> /\ Sync(p, e)
  BY DEF SyncAgent, b
<1>2. e.pc = "mark" /\ e.order = sy[p].order /\ e.todo = sy[p].todo
  BY DEF IInv, TypeOK, SyncState
<1> HIDE DEF e
<1>3. PassFits(e) BY <1>1, <1>2 DEF PassFits, IInv, SyncInv
<1> QED BY <1>1, <1>3, PassSafe

\* What a pass has in hand is a row of its todo list; before the row is marked it is
\* still pending, so that no thread has it.
LEMMA SyncOrder ==
  ASSUME IInv, NEW p \in Pods, sy[p].pc \in {"fail", "mark"}
  PROVE  /\ sy[p].order \in PendingOrders /\ booked[sy[p].order] = 0
         /\ \A h \in Handlers : hd[h].pc # "idle" => hd[h].order # sy[p].order
<1> DEFINE o == sy[p].order
<1>1. o \in PendingOrders BY DEF IInv, SyncInv
<1>2. o \in Orders /\ trade[o].status = "accepted" /\ trade[o].id
  BY <1>1 DEF PendingOrders, Accepted
<1>3. booked[o] = 0
  <2>1. RowInv(o) /\ booked[o] \in Nat BY <1>2 DEF IInv, TypeOK
  <2> HIDE DEF o
  <2> QED BY <1>2, <2>1 DEF RowInv
<1>4. \A h \in Handlers : hd[h].pc # "idle" => hd[h].order # o
  <2> SUFFICES ASSUME NEW h \in Handlers, hd[h].pc # "idle", hd[h].order = o PROVE FALSE
    OBVIOUS
  <2>1. HandlerInv(h) /\ hd[h].pc \in HandlerPC BY DEF IInv, TypeOK, HandlerState
  <2> HIDE DEF o
  <2> QED BY <1>2, <2>1 DEF HandlerInv, HandlerPC
<1> QED BY <1>1, <1>3, <1>4

\* The pass ends a row: no other pass has it, because there is one pod.
LEMMA SyncFailSafe == ASSUME OnePod, IInv, NEW p \in Pods, SyncFail(p) PROVE Safe'
<1> DEFINE o == sy[p].order
<1>1. /\ sy[p].pc = "fail" /\ UNCHANGED <<booked, brk, hd>>
      /\ Sync(p, Pass(sy[p].todo \ {o}))
  BY DEF SyncFail, NextRow
<1>2. /\ o \in Orders /\ o \in PendingOrders /\ booked[o] = 0
      /\ \A h \in Handlers : hd[h].pc # "idle" => hd[h].order # o
  BY <1>1, SyncOrder DEF PendingOrders, Accepted
<1>3. trade'[o].status = "failed" /\ \A t \in Orders \ {o} : trade'[t] = trade[t]
  BY <1>2 DEF SyncFail, UpdateTradeStatus, IInv, TypeOK, TradeRow
<1>4. sy'[p] = Pass(sy[p].todo \ {o}) BY <1>1 DEF IInv, TypeOK, Sync
<1>5. \A t \in sy[p].todo : t \in PendingOrders BY <1>1 DEF IInv, SyncInv
<1> HIDE DEF o
<1>6. ASSUME NEW t \in Orders PROVE RowInv(t)'
  BY <1>1, <1>2, <1>3 DEF IInv, RowInv
<1>7. ASSUME NEW h \in Handlers PROVE HandlerInv(h)'
  <2>1. hd'[h] = hd[h] /\ (hd[h].pc # "idle" => trade'[hd[h].order] = trade[hd[h].order])
    BY <1>1, <1>2, <1>3 DEF IInv, HandlerInv
  <2> QED BY <1>1, <2>1 DEF IInv, HandlerInv
<1>8. ASSUME NEW q \in Pods PROVE SyncInv(q)'
  <2>1. q = p BY DEF OnePod
  <2>2. sy[p].todo \subseteq Orders BY DEF IInv, TypeOK, SyncState
  <2> QED BY <1>3, <1>4, <1>5, <2>1, <2>2 DEF SyncInv, Pass, PendingOrders, Accepted
<1>9. Exclusive'
  <2>1. \A q \in Pods : sy'[q].pc \notin {"cash", "position"}
    BY <1>4 DEF OnePod, Pass
  <2> QED BY <1>1, <2>1 DEF IInv, Exclusive
<1> QED BY <1>6, <1>7, <1>8, <1>9 DEF Safe

LEMMA SyncMarkSafe == ASSUME OnePod, IInv, NEW p \in Pods, SyncMark(p) PROVE Safe'
<1> DEFINE o == sy[p].order
           e == [sy[p] EXCEPT !.pc = "cash"]
<1>1. sy[p].pc = "mark" /\ UNCHANGED <<booked, brk, hd>> /\ Sync(p, e)
  BY DEF SyncMark
<1>2. e.pc = "cash" /\ e.order = o /\ e.todo = sy[p].todo BY DEF IInv, TypeOK, SyncState
<1> HIDE DEF e
<1>3. sy'[p] = e BY <1>1 DEF IInv, TypeOK, Sync
<1>4. /\ o \in Orders /\ o \in PendingOrders /\ booked[o] = 0
      /\ \A h \in Handlers : hd[h].pc # "idle" => hd[h].order # o
  BY <1>1, SyncOrder DEF PendingOrders, Accepted
<1>5. trade'[o].status = "filled" /\ \A t \in Orders \ {o} : trade'[t] = trade[t]
  BY <1>4 DEF SyncMark, UpdateTradeStatus, IInv, TypeOK, TradeRow
<1>6. /\ o \in sy[p].todo /\ sy[p].todo \subseteq Orders /\ brk[o].st = "filled"
      /\ \A t \in sy[p].todo : t \in PendingOrders
  BY <1>1 DEF IInv, SyncInv, TypeOK, SyncState
<1> HIDE DEF o
<1>7. ASSUME NEW t \in Orders PROVE RowInv(t)'
  BY <1>1, <1>4, <1>5, <1>6 DEF IInv, RowInv
<1>8. ASSUME NEW h \in Handlers PROVE HandlerInv(h)'
  <2>1. hd'[h] = hd[h] /\ (hd[h].pc # "idle" => trade'[hd[h].order] = trade[hd[h].order])
    BY <1>1, <1>4, <1>5 DEF IInv, HandlerInv
  <2> QED BY <1>1, <2>1 DEF IInv, HandlerInv
<1>9. ASSUME NEW q \in Pods PROVE SyncInv(q)'
  <2>1. q = p BY DEF OnePod
  <2> QED BY <1>1, <1>2, <1>3, <1>4, <1>5, <1>6, <2>1 DEF SyncInv, PendingOrders, Accepted
<1>10. Exclusive' BY <1>1, <1>2, <1>3, <1>4 DEF IInv, Exclusive, OnePod
<1> QED BY <1>7, <1>8, <1>9, <1>10 DEF Safe

LEMMA SyncCashSafe == ASSUME OnePod, IInv, NEW p \in Pods, SyncCash(p) PROVE Safe'
<1> DEFINE o == sy[p].order
           e == [sy[p] EXCEPT !.pc = "position"]
<1>1. /\ sy[p].pc = "cash" /\ UNCHANGED <<trade, brk, hd>> /\ Sync(p, e)
      /\ booked' = [booked EXCEPT ![o] = @ + 1]
  BY DEF SyncCash, BookFill
<1>2. e.pc = "position" /\ e.order = o /\ e.todo = sy[p].todo BY DEF IInv, TypeOK, SyncState
<1> HIDE DEF e
<1>3. sy'[p] = e BY <1>1 DEF IInv, TypeOK, Sync
<1>4. SyncInv(p) /\ sy[p].todo \subseteq Orders BY DEF IInv, TypeOK, SyncState
<1>5. o \in Orders /\ trade[o].status = "filled" /\ booked[o] = 0 /\ brk[o].st = "filled"
  BY <1>1, <1>4 DEF SyncInv
<1>6. booked'[o] = 1 /\ \A t \in Orders \ {o} : booked'[t] = booked[t]
  BY <1>1, <1>5 DEF IInv, TypeOK
<1>7. \A h \in Handlers : hd[h].pc # "idle" => hd[h].order # o
  BY <1>1 DEF IInv, Exclusive
<1> HIDE DEF o
<1>8. ASSUME NEW t \in Orders PROVE RowInv(t)'
  BY <1>1, <1>5, <1>6 DEF IInv, RowInv
<1>9. ASSUME NEW h \in Handlers PROVE HandlerInv(h)'
  <2>1. hd'[h] = hd[h] /\ (hd[h].pc # "idle" => booked'[hd[h].order] = booked[hd[h].order])
    BY <1>1, <1>6, <1>7 DEF IInv, HandlerInv
  <2> QED BY <1>1, <2>1 DEF IInv, HandlerInv
<1>10. ASSUME NEW q \in Pods PROVE SyncInv(q)'
  <2>1. q = p BY DEF OnePod
  <2> QED BY <1>1, <1>2, <1>3, <1>4, <1>5, <2>1 DEF SyncInv, PendingOrders, Accepted, o
<1>11. Exclusive' BY <1>1, <1>2, <1>3, <1>7 DEF IInv, Exclusive, OnePod
<1> QED BY <1>8, <1>9, <1>10, <1>11 DEF Safe

LEMMA SyncStepSafe == ASSUME OnePod, IInv, NEW p \in Pods, SyncStep(p) PROVE Safe'
<1>1. CASE \E o \in Orders : SyncSkip(p, o)
  BY <1>1, NextRowSafe DEF SyncSkip
<1>2. CASE SyncPosition(p)
  BY <1>2, NextRowSafe DEF SyncPosition
<1> QED BY <1>1, <1>2, SyncBeginSafe, SyncReadSafe, SyncFailSafe, SyncAgentSafe,
           SyncMarkSafe, SyncCashSafe DEF SyncStep

\* The broker only ends an order it was working on; a filled one stays filled.
LEMMA BrokerSafe ==
  ASSUME IInv, NEW o \in Orders, BrokerFill(o) \/ BrokerCancel(o)
  PROVE  Safe'
<1>1. brk[o].st = "working" /\ UNCHANGED <<trade, booked, hd, sy>>
  BY DEF BrokerFill, BrokerCancel
<1>2. /\ brk'[o].st \in {"filled", "canceled"}
      /\ \A t \in Orders \ {o} : brk'[t] = brk[t]
  BY DEF BrokerFill, BrokerCancel, Execute, IInv, TypeOK
<1>3. \A t \in Orders : /\ brk[t].st = "filled" => brk'[t].st = "filled"
                        /\ brk[t].st = "none" => brk'[t].st = "none"
                        /\ Real(t) => Real(t)'
  <2>1. brk[o].got > 0 => brk'[o].got > 0 \/ brk'[o].st = "filled"
    <3>1. CASE BrokerFill(o) BY <3>1 DEF BrokerFill, Execute, IInv, TypeOK
    <3>2. CASE BrokerCancel(o)
      <4>1. PICK got \in brk[o].got .. brk[o].qty : Execute(o, "canceled", brk[o].qty, got)
        BY <3>2 DEF BrokerCancel
      <4>2. brk[o].got \in Nat /\ brk[o].qty \in Nat BY DEF IInv, TypeOK, BrokerOrder
      <4>3. brk'[o].got = got BY <4>1 DEF Execute, IInv, TypeOK
      <4> QED BY <4>1, <4>2, <4>3
    <3> QED BY <3>1, <3>2
  <2> QED BY <1>1, <1>2, <2>1
<1>4. ASSUME NEW t \in Orders PROVE RowInv(t)'
  BY <1>1, <1>3 DEF IInv, RowInv
<1>5. ASSUME NEW h \in Handlers PROVE HandlerInv(h)'
  BY <1>1, <1>3 DEF IInv, HandlerInv
<1>6. ASSUME NEW p \in Pods PROVE SyncInv(p)'
  <2>1. SyncInv(p) /\ sy[p].todo \subseteq Orders BY DEF IInv, TypeOK, SyncState
  <2> QED BY <1>1, <1>3, <2>1 DEF SyncInv, PendingOrders, Accepted
<1>7. Exclusive' BY <1>1 DEF IInv, Exclusive
<1> QED BY <1>4, <1>5, <1>6, <1>7 DEF Safe

LEMMA DroppedSafe == ASSUME IInv, Dropped PROVE Safe'
<1>1. UNCHANGED <<trade, booked, brk>> BY DEF Dropped
<1>2. /\ \A h \in Handlers : hd'[h] = IdleHandler \/ hd'[h] = hd[h]
      /\ \A q \in Pods : sy'[q] = IdleSync \/ sy'[q] = sy[q]
  BY DEF Dropped
<1>3. /\ IdleHandler.pc = "idle" /\ IdleHandler.order = NoOrder
      /\ IdleSync.pc = "idle" /\ IdleSync.todo = {}
  BY DEF IdleHandler, IdleSync, Pass
<1>4. ASSUME NEW t \in Orders PROVE RowInv(t)'
  BY <1>1 DEF IInv, RowInv
<1>5. ASSUME NEW h \in Handlers PROVE HandlerInv(h)'
  BY <1>1, <1>2, <1>3 DEF IInv, HandlerInv
<1>6. ASSUME NEW q \in Pods PROVE SyncInv(q)'
  BY <1>1, <1>2, <1>3 DEF IInv, SyncInv, PendingOrders, Accepted
<1>7. Exclusive'
  <2>1. \A k \in Handlers : hd[k].pc # "idle" => hd[k].order # NoOrder
    BY OrdersAssumption DEF IInv, HandlerInv
  <2> QED BY <1>2, <1>3, <2>1 DEF IInv, Exclusive
<1> QED BY <1>4, <1>5, <1>6, <1>7 DEF Safe

LEMMA NextSafe == ASSUME OnePod, IInv, [Next]_vars PROVE IInv'
<1>1. TypeOK'
  BY IInvType, TypeNext DEF TypeInv
<1>2. Safe'
  <2>1. CASE UNCHANGED vars
    BY <2>1 DEF vars, IInv, Safe, RowInv, HandlerInv, SyncInv, Exclusive, PendingOrders, Accepted
  <2>2. CASE Next
    <3>1. CASE Abort \/ \E p \in Pods : Crash(p)
      BY <3>1, DropSteps, DroppedSafe DEF IInv
    <3> QED BY <2>2, <3>1, HandlerStepSafe, ProposeSafe, SyncStepSafe, BrokerSafe DEF Next, Step
  <2> QED BY <2>1, <2>2
<1> QED BY <1>1, <1>2 DEF IInv, Safe

----------------------------------------------------------------------------
\* IInv is an invariant: with one pod, every thread and every pass knows what the row
\* of its order says, whatever crashes and whatever the broker answers.
THEOREM OnePodInvariant == ASSUME OnePod PROVE Spec => []IInv
<1>1. IInv /\ [Next]_vars => IInv' BY NextSafe
<1> QED BY <1>1, InitSafe, PTL DEF Spec

\* No balance ever holds a fill that did not happen (one pod).
THEOREM FillsAreReal == ASSUME OnePod PROVE Spec => []BookedIsReal
<1>1. IInv => BookedIsReal BY DEF IInv, RowInv, BookedIsReal, TypeOK
<1> QED BY <1>1, OnePodInvariant, PTL

\* No balance holds the same fill twice (one pod: two passes at once may each book it).
THEOREM FillsAreBookedOnce == ASSUME OnePod PROVE Spec => []BookedAtMostOnce
<1>1. IInv => BookedAtMostOnce BY DEF IInv, RowInv, BookedAtMostOnce, TypeOK
<1> QED BY <1>1, OnePodInvariant, PTL

\* What keeps the ledger ahead of the broker, with any number of pods: a thread that
\* submits has recorded its row, and a row's status never becomes "none" again.
Ahead ==
  /\ TypeInv
  /\ WrittenAhead
  /\ \A h \in Handlers :
       hd[h].pc \in {"submit", "failed", "mark"} => trade[hd[h].order].status # "none"

LEMMA AheadNext == Ahead /\ [Next]_vars => Ahead'
<1> SUFFICES ASSUME Ahead, [Next]_vars PROVE Ahead' OBVIOUS
<1>1. TypeInv' BY TypeNext DEF Ahead
<1>2. \A o \in Orders : trade[o].status # "none" => trade'[o].status # "none"
  <2> SUFFICES ASSUME NEW o \in Orders, trade[o].status # "none", trade'[o] # trade[o]
               PROVE  trade'[o].status # "none"
    OBVIOUS
  <2>1. CASE \E h \in Handlers : Record(h)
    BY <2>1 DEF Record, Ahead, TypeInv, TypeOK
  <2>2. CASE \E h \in Handlers : MarkFailed(h) \/ Mark(h)
    BY <2>2 DEF MarkFailed, Mark, UpdateTradeStatus, Ahead, TypeInv, TypeOK, TradeRow
  <2>3. CASE \E p \in Pods : SyncFail(p) \/ SyncMark(p)
    BY <2>3 DEF SyncFail, SyncMark, UpdateTradeStatus, Ahead, TypeInv, TypeOK, TradeRow
  <2>4. CASE UNCHANGED trade BY <2>4
  <2> QED BY <2>1, <2>2, <2>3, <2>4
          DEF Next, Step, HandlerStep, SyncStep, vars, Gate, ReadClaims, Submit, HandlerCash,
              HandlerPosition, Propose, SyncBegin, SyncSkip, SyncRead, SyncAgent, SyncCash,
              SyncPosition, BrokerFill, BrokerCancel, Abort, Crash
<1>3. \A o \in Orders : brk'[o].st # "none" =>
        \/ brk[o].st # "none"
        \/ \E h \in Handlers : hd[h].pc = "submit" /\ hd[h].order = o
  <2> SUFFICES ASSUME NEW o \in Orders, brk'[o] # brk[o], brk[o].st = "none"
               PROVE  \E h \in Handlers : hd[h].pc = "submit" /\ hd[h].order = o
    OBVIOUS
  <2>1. CASE \E h \in Handlers : Submit(h)
    BY <2>1 DEF Submit, Submitted, Execute, Ahead, TypeInv, TypeOK
  <2>2. CASE \E t \in Orders : BrokerFill(t) \/ BrokerCancel(t)
    BY <2>2 DEF BrokerFill, BrokerCancel, Execute, Ahead, TypeInv, TypeOK
  <2>3. CASE UNCHANGED brk BY <2>3
  <2> QED BY <2>1, <2>2, <2>3
          DEF Next, Step, HandlerStep, SyncStep, vars, Gate, ReadClaims, Record, MarkFailed,
              Mark, HandlerCash, HandlerPosition, Propose, SyncBegin, SyncSkip, SyncRead,
              SyncFail, SyncAgent, SyncMark, SyncCash, SyncPosition, Abort, Crash
<1>4. WrittenAhead' BY <1>2, <1>3 DEF Ahead, WrittenAhead
<1>5. ASSUME NEW h \in Handlers, hd'[h].pc \in {"submit", "failed", "mark"}
      PROVE  trade'[hd'[h].order].status # "none"
  <2>1. CASE hd'[h] = hd[h]
    BY <1>2, <1>5, <2>1 DEF Ahead, TypeInv, HandlerOK
  <2>2. CASE hd'[h] # hd[h]
    <3>0. hd[h] \in HandlerState /\ IdleHandler.pc = "idle"
      BY DEF Ahead, TypeInv, TypeOK, IdleHandler
    <3>1. (\E o \in Orders : Propose(h, o)) \/ HandlerStep(h) \/ Abort \/ \E p \in Pods : Crash(p)
      <4>1. ASSUME NEW k \in Handlers, NEW e, Handle(k, e) PROVE k = h
        BY <4>1, <2>2 DEF Handle
      <4>2. \A k \in Handlers : HandlerStep(k) => k = h
        BY <4>1, <2>2 DEF HandlerStep, Gate, ReadClaims, Record, Submit, MarkFailed, Mark,
                          HandlerCash, HandlerPosition
      <4>3. ASSUME NEW k \in Handlers, NEW o \in Orders, Propose(k, o) PROVE k = h
        BY <4>1, <4>3 DEF Propose
      <4> QED BY <2>2, <4>2, <4>3
              DEF Next, Step, SyncStep, vars, SyncBegin, SyncSkip, SyncRead, SyncFail,
                  SyncAgent, SyncMark, SyncCash, SyncPosition, BrokerFill, BrokerCancel
    <3>2. CASE Record(h)
      <4>1. trade'[hd[h].order].status \in {"accepted", "rejected"} /\ hd[h].order \in Orders
        BY <3>2 DEF Record, Ahead, TypeInv, TypeOK, HandlerOK
      <4>2. hd'[h] = IdleHandler \/ hd'[h].order = hd[h].order
        BY <3>0, <3>2 DEF Record, Handle, Ahead, TypeInv, TypeOK, HandlerState
      <4> QED BY <1>5, <3>0, <4>1, <4>2
    <3>3. CASE Submit(h)
      <4>1. hd'[h].order = hd[h].order
        BY <3>0, <3>3 DEF Submit, Handle, Ahead, TypeInv, TypeOK, HandlerState
      <4>2. hd[h].pc = "submit" /\ hd[h].order \in Orders
        BY <3>3 DEF Submit, Ahead, TypeInv, HandlerOK
      <4> QED BY <1>2, <4>1, <4>2 DEF Ahead
    <3>4. CASE ~Record(h) /\ ~Submit(h)
      <4> DEFINE P == {"idle", "gate", "claims", "record", "cash", "position"}
      <4>a. \A e : Handle(h, e) => hd'[h] = e BY DEF Handle, Ahead, TypeInv, TypeOK
      <4>b. \A pc : [hd[h] EXCEPT !.pc = pc].pc = pc BY <3>0 DEF HandlerState
      <4>1. ASSUME \E o \in Orders : Propose(h, o) PROVE hd'[h].pc \in P
        BY <4>1, <4>a DEF Propose, IdleHandler
      <4>2. ASSUME Gate(h) PROVE hd'[h].pc \in P
        BY <4>2, <4>a, <4>b, <3>0 DEF Gate
      <4>3. ASSUME ReadClaims(h) PROVE hd'[h].pc \in P
        BY <4>3, <4>a, <3>0 DEF ReadClaims, HandlerState
      <4>4. ASSUME MarkFailed(h) PROVE hd'[h].pc \in P
        BY <4>4, <4>a, <3>0 DEF MarkFailed
      <4>5. ASSUME Mark(h) PROVE hd'[h].pc \in P
        BY <4>5, <4>a, <4>b, <3>0 DEF Mark
      <4>6. ASSUME HandlerCash(h) PROVE hd'[h].pc \in P
        BY <4>6, <4>a, <4>b DEF HandlerCash
      <4>7. ASSUME HandlerPosition(h) PROVE hd'[h].pc \in P
        BY <4>7, <4>a, <3>0 DEF HandlerPosition
      <4>8. ASSUME Abort \/ \E p \in Pods : Crash(p) PROVE hd'[h].pc \in P
        <5>1. hd'[h] = IdleHandler BY <4>8, <2>2, DropSteps DEF Dropped, Ahead, TypeInv
        <5> QED BY <3>0, <5>1
      <4>9. hd'[h].pc \in P
        BY <3>1, <3>4, <4>1, <4>2, <4>3, <4>4, <4>5, <4>6, <4>7, <4>8 DEF HandlerStep
      <4> QED BY <1>5, <4>9
    <3> QED BY <3>2, <3>3, <3>4
  <2> QED BY <2>1, <2>2
<1> QED BY <1>1, <1>4, <1>5 DEF Ahead

\* An order the broker knows has a row, with any number of pods.
THEOREM LedgerIsWrittenAhead == Spec => []WrittenAhead
<1>1. Init => Ahead BY InitType DEF Init, Ahead, WrittenAhead, IdleHandler
<1>2. Ahead => WrittenAhead BY DEF Ahead
<1> QED BY <1>1, <1>2, AheadNext, PTL DEF Spec

----------------------------------------------------------------------------
\* What is not lost as long as no process dies, no reply is lost and no database call
\* fails: an order the broker works on or has filled is listed by pending_orders or in
\* the hand of the thread that is to write its fill down.

NoLoss == Faults \cap {"crash", "lost_reply", "db_error"} = {}

\* at the broker, and not yet down as filled
Live(o)   == brk[o].st \in {"working", "filled"} /\ trade[o].status # "filled"
Traced(o) == o \in PendingOrders \/ \E h \in Handlers : hd[h].pc = "mark" /\ hd[h].order = o

\* down as filled, and not yet in the balance
Owed(o)    == trade[o].status = "filled" /\ booked[o] = 0
Carried(o) == \/ \E h \in Handlers : hd[h].pc = "cash" /\ hd[h].order = o
              \/ \E p \in Pods : sy[p].pc = "cash" /\ sy[p].order = o

Followed(o) == (Live(o) => Traced(o)) /\ (Owed(o) => Carried(o))

\* an order is dropped only if the broker does not have it, or has canceled it
Careful ==
  /\ \A h \in Handlers : hd[h].pc \in {"submit", "failed"} => brk[hd[h].order].st = "none"
  /\ \A p \in Pods : sy[p].pc = "fail" => brk[sy[p].order].st = "canceled"

Following == Careful' /\ \A o \in Orders : Followed(o) => Followed(o)'

LEMMA ThreadHolds ==
  ASSUME IInv, NEW h \in Handlers, hd[h].pc # "idle"
  PROVE  /\ hd[h].order \in Orders
         /\ \A k \in Handlers \ {h} : hd[k].order # hd[h].order
         /\ \A p \in Pods : sy[p].pc \notin {"idle", "next"} => sy[p].order # hd[h].order
<1>1. HandlerInv(h) BY DEF IInv
<1>2. \A k \in Handlers \ {h} : hd[k].order # hd[h].order BY DEF IInv, Exclusive
<1>3. ASSUME NEW p \in Pods, sy[p].pc \notin {"idle", "next"}, sy[p].order = hd[h].order PROVE FALSE
  <2>1. SyncInv(p) BY DEF IInv
  <2>2. sy[p].pc \in {"cash", "position"} \/ sy[p].order \in PendingOrders
    BY <1>3, <2>1 DEF SyncInv
  <2>3. CASE sy[p].pc \in {"cash", "position"} BY <1>3, <2>3 DEF IInv, Exclusive
  <2>4. CASE sy[p].pc \notin {"cash", "position"} /\ sy[p].order \in PendingOrders
    <3>1. trade[hd[h].order].status = "accepted" /\ trade[hd[h].order].id
      BY <1>3, <2>4 DEF PendingOrders, Accepted
    <3>2. sy[p].order \in sy[p].todo BY <1>3, <2>1 DEF SyncInv
    <3> QED BY <1>1, <3>1 DEF HandlerInv, IInv, TypeOK, HandlerState, HandlerPC
  <2> QED BY <2>2, <2>3, <2>4
<1> QED BY <1>1, <1>2, <1>3 DEF HandlerInv

\* Requests that have not submitted: nothing at the broker depends on them.
LEMMA AskingFollows ==
  ASSUME IInv, Careful, NEW h \in Handlers,
         Gate(h) \/ ReadClaims(h) \/ HandlerPosition(h) \/ \E o \in Orders : Propose(h, o)
  PROVE  Following
<1>1. UNCHANGED <<trade, brk, booked, sy>>
  BY DEF Gate, ReadClaims, HandlerPosition, Propose
<1>2. hd[h].pc \notin {"submit", "failed", "mark", "cash"}
  BY DEF Gate, ReadClaims, HandlerPosition, Propose
<1>3. \A k \in Handlers \ {h} : hd'[k] = hd[k]
  BY DEF Gate, ReadClaims, HandlerPosition, Propose, Handle, IInv, TypeOK
<1>4. hd'[h].pc \notin {"submit", "failed", "mark", "cash"}
  <2>0. hd[h] \in HandlerState /\ \A e : Handle(h, e) => hd'[h] = e
    BY DEF IInv, TypeOK, Handle
  <2>1. CASE \E o \in Orders : Propose(h, o) BY <2>0, <2>1 DEF Propose, IdleHandler
  <2>2. CASE HandlerPosition(h) BY <2>0, <2>2 DEF HandlerPosition, IdleHandler
  <2>3. CASE Gate(h)
    <3> DEFINE e == [hd[h] EXCEPT !.pc = "claims"]
    <3>1. e.pc = "claims" BY <2>0 DEF HandlerState
    <3>2. Handle(h, e) \/ Handle(h, IdleHandler) BY <2>3 DEF Gate
    <3> HIDE DEF e
    <3> QED BY <2>0, <3>1, <3>2 DEF IdleHandler
  <2>4. CASE ReadClaims(h)
    <3>1. PICK taken : Handle(h, [hd[h] EXCEPT !.pc = "record", !.taken = taken])
      BY <2>4 DEF ReadClaims
    <3>2. [hd[h] EXCEPT !.pc = "record", !.taken = taken].pc = "record" BY <2>0 DEF HandlerState
    <3> QED BY <2>0, <3>1, <3>2
  <2> QED BY <2>1, <2>2, <2>3, <2>4
<1>5. Careful' BY <1>1, <1>3, <1>4 DEF Careful
<1>6. ASSUME NEW o \in Orders, Followed(o) PROVE Followed(o)'
  BY <1>1, <1>2, <1>3, <1>6 DEF Followed, Live, Traced, Owed, Carried, PendingOrders, Accepted
<1> QED BY <1>5, <1>6 DEF Following

\* A thread writes the row of an order the broker does not have.
LEMMA RowBeforeFollows ==
  ASSUME IInv, Careful, NEW h \in Handlers, Record(h) \/ MarkFailed(h)
  PROVE  Following
<1> PICK o : o = hd[h].order OBVIOUS
<1>0. /\ o \in Orders /\ hd[h].pc \in {"record", "failed"}
      /\ UNCHANGED <<brk, booked, sy>> /\ TypeOK /\ HandlerInv(h)
  BY ThreadHolds DEF Record, MarkFailed, IInv
<1>1. brk[o].st = "none"
  BY <1>0 DEF Careful, IInv, HandlerInv, RowInv
<1>2. \A k \in Handlers \ {h} : hd[k].order # o BY <1>0, ThreadHolds
<1>3. \A k \in Handlers \ {h} : hd'[k] = hd[k]
  BY DEF Record, MarkFailed, Handle, IInv, TypeOK
<1>4. hd'[h].pc \in {"idle", "submit"} /\ (hd'[h].pc = "submit" => hd'[h].order = o)
  <2>0. hd[h] \in HandlerState /\ \A e : Handle(h, e) => hd'[h] = e
    BY DEF IInv, TypeOK, Handle
  <2> DEFINE e == [hd[h] EXCEPT !.pc = "submit"]
  <2>1. e.pc = "submit" /\ e.order = o BY <2>0 DEF HandlerState
  <2>2. Handle(h, e) \/ Handle(h, IdleHandler) BY DEF Record, MarkFailed
  <2> HIDE DEF e
  <2> QED BY <2>0, <2>1, <2>2 DEF IdleHandler
<1>5. /\ \A t \in Orders \ {o} : trade'[t] = trade[t]
      /\ trade'[o].status # "filled"
  <2>1. CASE Record(h) BY <1>0, <2>1 DEF Record, TypeOK
  <2>2. CASE MarkFailed(h) BY <1>0, <2>2 DEF MarkFailed, UpdateTradeStatus, TypeOK, TradeRow
  <2> QED BY <2>1, <2>2
<1>6. Careful' BY <1>0, <1>1, <1>3, <1>4 DEF Careful
<1>7. ASSUME NEW t \in Orders, Followed(t) PROVE Followed(t)'
  <2>1. CASE t = o BY <1>0, <1>1, <1>5, <2>1 DEF Followed, Live, Owed
  <2>2. CASE t # o
    BY <1>0, <1>3, <1>5, <1>7, <2>2
    DEF Followed, Live, Traced, Owed, Carried, PendingOrders, Accepted
  <2> QED BY <2>1, <2>2
<1> QED BY <1>6, <1>7 DEF Following

LEMMA SubmitFollows ==
  ASSUME IInv, Careful, NoLoss, NEW h \in Handlers, Submit(h)
  PROVE  Following
<1> PICK o : o = hd[h].order OBVIOUS
<1>0. hd[h].pc = "submit" /\ UNCHANGED <<trade, booked, sy>> /\ TypeOK BY DEF Submit, IInv
<1>1. o \in Orders /\ \A k \in Handlers \ {h} : hd[k].order # o BY <1>0, ThreadHolds
<1>2. brk[o].st = "none" BY <1>0 DEF Careful
<1>3. PICK outcome \in {"working", "filled", "failed"} :
        /\ Submitted(o, trade[o].qty, outcome)
        /\ Handle(h, [hd[h] EXCEPT !.pc = IF outcome = "failed" THEN "failed" ELSE "mark",
                                   !.filled = (outcome = "filled")])
  BY DEF Submit
<1>4. /\ \A k \in Handlers \ {h} : hd'[k] = hd[k]
      /\ hd'[h].pc = IF outcome = "failed" THEN "failed" ELSE "mark"
      /\ hd'[h].order = o
  <2> DEFINE pc == IF outcome = "failed" THEN "failed" ELSE "mark"
             e == [hd[h] EXCEPT !.pc = pc, !.filled = (outcome = "filled")]
  <2>1. hd' = [hd EXCEPT ![h] = e] BY <1>3 DEF Handle
  <2> HIDE DEF pc
  <2>2. e.pc = pc /\ e.order = o BY <1>0 DEF TypeOK, HandlerState
  <2> HIDE DEF e
  <2>3. hd'[h] = e /\ \A k \in Handlers \ {h} : hd'[k] = hd[k] BY <1>0, <2>1 DEF TypeOK
  <2> QED BY <2>2, <2>3 DEF pc
<1>5. /\ \A t \in Orders \ {o} : brk'[t] = brk[t]
      /\ outcome = "failed" => brk'[o] = brk[o]
  <2>1. "lost_reply" \notin Faults BY DEF NoLoss
  <2> QED BY <1>0, <1>3, <2>1 DEF Submitted, Execute, TypeOK
<1>6. Careful'
  <2>1. ASSUME NEW k \in Handlers, hd'[k].pc \in {"submit", "failed"}
        PROVE  brk'[hd'[k].order].st = "none"
    <3>1. CASE k = h BY <1>2, <1>4, <1>5, <2>1, <3>1
    <3>2. CASE k # h
      <4>1. hd[k].order \in Orders \ {o} BY <1>1, <1>4, <2>1, <3>2, ThreadHolds
      <4> QED BY <1>4, <1>5, <2>1, <3>2, <4>1 DEF Careful
    <3> QED BY <3>1, <3>2
  <2>2. ASSUME NEW p \in Pods, sy[p].pc = "fail" PROVE brk'[sy[p].order].st = "canceled"
    <3>1. sy[p].order \in Orders BY <2>2 DEF IInv, SyncInv, TypeOK, SyncState
    <3> QED BY <1>2, <1>5, <2>2, <3>1 DEF Careful
  <2> QED BY <1>0, <2>1, <2>2 DEF Careful
<1>7. ASSUME NEW t \in Orders, Followed(t) PROVE Followed(t)'
  <2>1. Live(t)' => Traced(t)'
    <3>1. CASE t = o BY <1>0, <1>2, <1>4, <1>5, <3>1 DEF Live, Traced
    <3>2. CASE t # o
      BY <1>0, <1>4, <1>5, <1>7, <3>2 DEF Followed, Live, Traced, PendingOrders, Accepted
    <3> QED BY <3>1, <3>2
  <2>2. Owed(t)' => Carried(t)'
    BY <1>0, <1>4, <1>7 DEF Followed, Owed, Carried
  <2> QED BY <2>1, <2>2 DEF Followed
<1> QED BY <1>6, <1>7 DEF Following

LEMMA MarkFollows ==
  ASSUME IInv, Careful, NEW h \in Handlers, Mark(h)
  PROVE  Following
<1> PICK o : o = hd[h].order OBVIOUS
<1> DEFINE st == IF hd[h].filled THEN "filled" ELSE "accepted"
           row == [trade[o] EXCEPT !.status = st, !.id = TRUE]
           e == [hd[h] EXCEPT !.pc = "cash"]
<1>0. /\ hd[h].pc = "mark" /\ UNCHANGED <<brk, booked, sy>> /\ TypeOK
      /\ trade' = [trade EXCEPT ![o] = row]
      /\ Handle(h, IF hd[h].filled THEN e ELSE IdleHandler)
  BY DEF Mark, UpdateTradeStatus, IInv
<1>1. o \in Orders /\ \A k \in Handlers \ {h} : hd[k].order # o BY <1>0, ThreadHolds
<1>2. trade'[o].status = st /\ trade'[o].id /\ \A t \in Orders \ {o} : trade'[t] = trade[t]
  BY <1>0, <1>1 DEF TypeOK, TradeRow
<1>3. e.pc = "cash" /\ e.order = o BY <1>0 DEF TypeOK, HandlerState
<1> HIDE DEF row, e
<1>4. /\ \A k \in Handlers \ {h} : hd'[k] = hd[k]
      /\ hd'[h] = IF hd[h].filled THEN e ELSE IdleHandler
  BY <1>0 DEF Handle, TypeOK
<1>5. Careful' BY <1>0, <1>3, <1>4 DEF Careful, IdleHandler
<1>6. ASSUME NEW t \in Orders, Followed(t) PROVE Followed(t)'
  <2>1. CASE t # o
    BY <1>0, <1>2, <1>4, <1>6, <2>1
    DEF Followed, Live, Traced, Owed, Carried, PendingOrders, Accepted
  <2>2. CASE t = o
    BY <1>2, <1>3, <1>4, <2>2 DEF Followed, Live, Traced, Owed, Carried, PendingOrders, Accepted
  <2> QED BY <2>1, <2>2
<1> QED BY <1>5, <1>6 DEF Following

LEMMA CashFollows ==
  ASSUME IInv, Careful, NEW h \in Handlers, HandlerCash(h)
  PROVE  Following
<1> PICK o : o = hd[h].order OBVIOUS
<1> DEFINE e == [hd[h] EXCEPT !.pc = "position"]
<1>0. /\ hd[h].pc = "cash" /\ UNCHANGED <<trade, brk, sy>> /\ TypeOK
      /\ booked' = [booked EXCEPT ![o] = @ + 1] /\ Handle(h, e)
  BY DEF HandlerCash, BookFill, IInv
<1>1. o \in Orders /\ booked[o] \in Nat BY <1>0, ThreadHolds DEF TypeOK
<1>2. booked'[o] # 0 /\ \A t \in Orders \ {o} : booked'[t] = booked[t]
  BY <1>0, <1>1 DEF TypeOK
<1>3. e.pc = "position" BY <1>0 DEF TypeOK, HandlerState
<1> HIDE DEF e
<1>4. hd'[h] = e /\ \A k \in Handlers \ {h} : hd'[k] = hd[k] BY <1>0 DEF Handle, TypeOK
<1>5. Careful' BY <1>0, <1>3, <1>4 DEF Careful
<1>6. ASSUME NEW t \in Orders, Followed(t) PROVE Followed(t)'
  <2>1. Traced(t) => Traced(t)' BY <1>0, <1>4 DEF Traced, PendingOrders, Accepted
  <2>2. Owed(t)' => t # o /\ Owed(t) BY <1>0, <1>2 DEF Owed
  <2>3. t # o /\ Carried(t) => Carried(t)' BY <1>0, <1>4 DEF Carried
  <2> QED BY <1>0, <1>6, <2>1, <2>2, <2>3 DEF Followed, Live
<1> QED BY <1>5, <1>6 DEF Following

LEMMA SyncFollows ==
  ASSUME IInv, Careful, NEW p \in Pods, SyncStep(p)
  PROVE  Following
<1> PICK o : o = sy[p].order OBVIOUS
<1>0. TypeOK /\ SyncInv(p) /\ UNCHANGED <<brk, hd>> /\ sy[p] \in SyncState
  BY DEF IInv, TypeOK, SyncStep, SyncBegin, SyncSkip, SyncRead, SyncFail, SyncAgent, SyncMark,
         SyncCash, SyncPosition
<1>1. \A q \in Pods \ {p} : sy'[q] = sy[q]
  BY <1>0 DEF TypeOK, SyncStep, SyncBegin, SyncSkip, SyncRead, SyncFail, SyncAgent, SyncMark,
              SyncCash, SyncPosition, Sync, NextRow
<1>2. \A e : Sync(p, e) => sy'[p] = e BY <1>0 DEF Sync, TypeOK
<1>3. \A rows : Pass(rows).pc \in {"idle", "next"} BY DEF Pass
<1>4. sy[p].pc \notin {"idle", "next"} => o \in Orders BY <1>0 DEF SyncInv, SyncState
<1>5. CASE SyncBegin(p) \/ (\E t \in Orders : SyncSkip(p, t)) \/ SyncPosition(p)
  <2>1. UNCHANGED <<trade, booked>> /\ sy[p].pc # "cash"
    BY <1>5 DEF SyncBegin, SyncSkip, SyncPosition
  <2>2. sy'[p].pc \in {"idle", "next"}
    BY <1>2, <1>3, <1>5 DEF SyncBegin, SyncSkip, SyncPosition, NextRow
  <2>3. Careful' BY <1>0, <1>1, <2>2 DEF Careful
  <2>4. ASSUME NEW t \in Orders, Followed(t) PROVE Followed(t)'
    BY <1>0, <1>1, <2>1, <2>4 DEF Followed, Live, Traced, Owed, Carried, PendingOrders, Accepted
  <2> QED BY <2>3, <2>4 DEF Following
<1>6. CASE \E t \in Orders : SyncRead(p, t)
  <2>1. PICK t \in Orders : SyncRead(p, t) BY <1>6
  <2>2. UNCHANGED <<trade, booked>> /\ sy[p].pc = "next" /\ brk[t].st \in {"filled", "canceled"}
    BY <2>1 DEF SyncRead
  <2> DEFINE pc == IF brk[t].st = "filled" THEN "agent" ELSE "fail"
  <2>3. sy'[p] = [sy[p] EXCEPT !.pc = pc, !.order = t] BY <1>2, <2>1 DEF SyncRead
  <2> HIDE DEF pc
  <2>4. sy'[p].pc = pc /\ sy'[p].order = t BY <1>0, <2>3 DEF SyncState
  <2>5. Careful' BY <1>0, <1>1, <2>2, <2>4 DEF Careful, pc
  <2>6. ASSUME NEW u \in Orders, Followed(u) PROVE Followed(u)'
    BY <1>0, <1>1, <2>2, <2>6 DEF Followed, Live, Traced, Owed, Carried, PendingOrders, Accepted
  <2> QED BY <2>5, <2>6 DEF Following
<1>7. CASE SyncAgent(p)
  <2>1. UNCHANGED <<trade, booked>> /\ sy[p].pc = "agent" BY <1>7 DEF SyncAgent
  <2>2. PICK b : sy'[p] = [sy[p] EXCEPT !.pc = "mark", !.bal = b] BY <1>2, <1>7 DEF SyncAgent
  <2>3. sy'[p].pc = "mark" BY <1>0, <2>2 DEF SyncState
  <2>4. Careful' BY <1>0, <1>1, <2>3 DEF Careful
  <2>5. ASSUME NEW u \in Orders, Followed(u) PROVE Followed(u)'
    BY <1>0, <1>1, <2>1, <2>5 DEF Followed, Live, Traced, Owed, Carried, PendingOrders, Accepted
  <2> QED BY <2>4, <2>5 DEF Following
<1>8. CASE SyncFail(p)
  <2>1. sy[p].pc = "fail" /\ UNCHANGED booked /\ UpdateTradeStatus(o, "failed", FALSE)
    BY <1>8 DEF SyncFail
  <2>2. sy'[p].pc \in {"idle", "next"} BY <1>2, <1>3, <1>8 DEF SyncFail, NextRow
  <2>3. o \in Orders /\ brk[o].st = "canceled" BY <1>4, <2>1 DEF Careful
  <2>4. trade'[o].status = "failed" /\ \A t \in Orders \ {o} : trade'[t] = trade[t]
    BY <1>0, <2>1, <2>3 DEF UpdateTradeStatus, TypeOK, TradeRow
  <2>5. Careful' BY <1>0, <1>1, <2>2 DEF Careful
  <2>6. ASSUME NEW u \in Orders, Followed(u) PROVE Followed(u)'
    <3>1. CASE u = o BY <1>0, <2>3, <2>4, <3>1 DEF Followed, Live, Owed
    <3>2. CASE u # o
      BY <1>0, <1>1, <2>1, <2>4, <2>6, <3>2
      DEF Followed, Live, Traced, Owed, Carried, PendingOrders, Accepted
    <3> QED BY <3>1, <3>2
  <2> QED BY <2>5, <2>6 DEF Following
<1>9. CASE SyncMark(p)
  <2>1. /\ sy[p].pc = "mark" /\ UNCHANGED booked /\ UpdateTradeStatus(o, "filled", TRUE)
        /\ sy'[p] = [sy[p] EXCEPT !.pc = "cash"]
    BY <1>2, <1>9 DEF SyncMark
  <2>2. sy'[p].pc = "cash" /\ sy'[p].order = o BY <1>0, <2>1 DEF SyncState
  <2>3. o \in Orders BY <1>4, <2>1
  <2>4. trade'[o].status = "filled" /\ \A t \in Orders \ {o} : trade'[t] = trade[t]
    BY <1>0, <2>1, <2>3 DEF UpdateTradeStatus, TypeOK, TradeRow
  <2>5. Careful' BY <1>0, <1>1, <2>2 DEF Careful
  <2>6. ASSUME NEW u \in Orders, Followed(u) PROVE Followed(u)'
    <3>1. CASE u = o BY <2>2, <2>4, <3>1 DEF Followed, Live, Carried
    <3>2. CASE u # o
      BY <1>0, <1>1, <2>1, <2>4, <2>6, <3>2
      DEF Followed, Live, Traced, Owed, Carried, PendingOrders, Accepted
    <3> QED BY <3>1, <3>2
  <2> QED BY <2>5, <2>6 DEF Following
<1>10. CASE SyncCash(p)
  <2>1. /\ sy[p].pc = "cash" /\ UNCHANGED trade /\ booked' = [booked EXCEPT ![o] = @ + 1]
        /\ sy'[p] = [sy[p] EXCEPT !.pc = "position"]
    BY <1>2, <1>10 DEF SyncCash, BookFill
  <2>2. sy'[p].pc = "position" BY <1>0, <2>1 DEF SyncState
  <2>3. o \in Orders /\ booked[o] \in Nat BY <1>0, <1>4, <2>1 DEF TypeOK
  <2>4. booked'[o] # 0 /\ \A t \in Orders \ {o} : booked'[t] = booked[t]
    BY <1>0, <2>1, <2>3 DEF TypeOK
  <2>5. Careful' BY <1>0, <1>1, <2>2 DEF Careful
  <2>6. ASSUME NEW u \in Orders, Followed(u) PROVE Followed(u)'
    <3>1. Traced(u) => Traced(u)' BY <1>0, <2>1 DEF Traced, PendingOrders, Accepted
    <3>2. Owed(u)' => u # o /\ Owed(u) BY <2>1, <2>4 DEF Owed
    <3>3. u # o /\ Carried(u) => Carried(u)' BY <1>0, <1>1 DEF Carried
    <3> QED BY <1>0, <2>1, <2>6, <3>1, <3>2, <3>3 DEF Followed, Live
  <2> QED BY <2>5, <2>6 DEF Following
<1> QED BY <1>5, <1>6, <1>7, <1>8, <1>9, <1>10 DEF SyncStep

LEMMA BrokerFollows ==
  ASSUME IInv, Careful, NEW o \in Orders, BrokerFill(o) \/ BrokerCancel(o)
  PROVE  Following
<1>1. brk[o].st = "working" /\ UNCHANGED <<trade, booked, hd, sy>>
  BY DEF BrokerFill, BrokerCancel
<1>2. \A t \in Orders \ {o} : brk'[t] = brk[t]
  BY DEF BrokerFill, BrokerCancel, Execute, IInv, TypeOK
<1>3. Careful'
  <2>1. ASSUME NEW h \in Handlers, hd[h].pc \in {"submit", "failed"}
        PROVE  brk'[hd[h].order].st = "none"
    BY <1>1, <1>2, <2>1, ThreadHolds DEF Careful
  <2>2. ASSUME NEW p \in Pods, sy[p].pc = "fail" PROVE brk'[sy[p].order].st = "canceled"
    <3>1. sy[p].order \in Orders BY <2>2 DEF IInv, SyncInv, TypeOK, SyncState
    <3> QED BY <1>1, <1>2, <2>2, <3>1 DEF Careful
  <2> QED BY <1>1, <2>1, <2>2 DEF Careful
<1>4. ASSUME NEW t \in Orders, Followed(t) PROVE Followed(t)'
  BY <1>1, <1>2, <1>4 DEF Followed, Live, Traced, Owed, Carried, PendingOrders, Accepted
<1> QED BY <1>3, <1>4 DEF Following

LEMMA StepFollows == ASSUME IInv, Careful, NoLoss, Step PROVE Following
<1>1. ~Abort BY DEF Abort, NoLoss
<1>2. CASE \E h \in Handlers : HandlerStep(h)
  BY <1>2, AskingFollows, RowBeforeFollows, SubmitFollows, MarkFollows, CashFollows
  DEF HandlerStep
<1> QED BY <1>1, <1>2, AskingFollows, SyncFollows, BrokerFollows DEF Step

\* One buy in flight.  An agent that waits for its replies has one request at a time, and
\* a buy gets past the gate only when nothing the agent bought is still traced.

Past == {"claims", "record", "submit", "mark"}

Buying(o) ==
  /\ o.side = "buy"
  /\ Live(o) \/ \E h \in Handlers : hd[h].pc \in Past /\ hd[h].order = o

OneRequest ==
  \A h, k \in Handlers :
    hd[h].pc # "idle" /\ hd[k].pc # "idle" /\ hd[h].order.agent = hd[k].order.agent => h = k

OneBuy == \A o, u \in Orders : Buying(o) /\ Buying(u) /\ o.agent = u.agent => o = u

BuyInv == IInv /\ Careful /\ (\A o \in Orders : Followed(o)) /\ OneRequest /\ OneBuy

\* What a step makes of a thread: it ends, or goes on with the order it had, or begins.
LEMMA ThreadSteps ==
  ASSUME IInv, Step, NEW h \in Handlers, hd'[h].pc # "idle"
  PROVE  \/ /\ hd[h].pc # "idle" /\ hd'[h].order = hd[h].order
            /\ hd'[h].pc \in Past =>
                 \/ hd[h].pc \in Past
                 \/ /\ hd[h].pc = "gate"
                    /\ hd[h].order.side = "buy" => PendingBuys(hd[h].order.agent) = {}
         \/ /\ hd'[h].pc = "gate" /\ \A k \in Handlers \ {h} : hd'[k] = hd[k]
            /\ ~Busy(hd'[h].order.agent) \/ "late_reply" \in Faults
<1> DEFINE Goal == \/ /\ hd[h].pc # "idle" /\ hd'[h].order = hd[h].order
                      /\ hd'[h].pc \in Past =>
                           \/ hd[h].pc \in Past
                           \/ /\ hd[h].pc = "gate"
                              /\ hd[h].order.side = "buy" => PendingBuys(hd[h].order.agent) = {}
                   \/ /\ hd'[h].pc = "gate" /\ \A k \in Handlers \ {h} : hd'[k] = hd[k]
                      /\ ~Busy(hd'[h].order.agent) \/ "late_reply" \in Faults
<1>0. /\ hd[h] \in HandlerState /\ IdleHandler.pc = "idle"
      /\ \A k \in Handlers : \A e :
           Handle(k, e) => hd'[k] = e /\ \A j \in Handlers \ {k} : hd'[j] = hd[j]
  BY DEF IInv, TypeOK, Handle, IdleHandler
<1>1. ASSUME hd'[h] = hd[h] PROVE Goal BY <1>1
<1>2. ASSUME Abort PROVE Goal
  <2>1. hd'[h] = hd[h] BY <1>0, <1>2, DropSteps DEF Dropped, IInv
  <2> QED BY <1>1, <2>1
<1>3. ASSUME NEW o \in Orders, Propose(h, o) PROVE Goal
  <2> DEFINE e == [IdleHandler EXCEPT !.pc = "gate", !.order = o, !.bal = cash[o.agent]]
  <2>1. e.pc = "gate" /\ e.order = o BY DEF IdleHandler
  <2>2. Handle(h, e) /\ (~Busy(o.agent) \/ "late_reply" \in Faults) BY <1>3 DEF Propose
  <2> HIDE DEF e
  <2>3. hd'[h] = e /\ \A j \in Handlers \ {h} : hd'[j] = hd[j] BY <1>0, <2>2
  <2> QED BY <2>1, <2>2, <2>3
<1>4. ASSUME HandlerStep(h) PROVE Goal
  <2>1. ASSUME NEW pc, hd'[h] = [hd[h] EXCEPT !.pc = pc]
        PROVE  hd'[h].pc = pc /\ hd'[h].order = hd[h].order
    BY <1>0, <2>1 DEF HandlerState
  <2>2. CASE Gate(h)
    <3>1. hd[h].pc = "gate" /\ hd'[h] = [hd[h] EXCEPT !.pc = "claims"]
          /\ (hd[h].order.side = "buy" => PendingBuys(hd[h].order.agent) = {})
      BY <1>0, <2>2 DEF Gate
    <3> QED BY <2>1, <3>1
  <2>3. CASE ReadClaims(h)
    <3>1. PICK taken : hd'[h] = [hd[h] EXCEPT !.pc = "record", !.taken = taken]
      BY <1>0, <2>3 DEF ReadClaims
    <3>2. hd'[h].order = hd[h].order BY <1>0, <3>1 DEF HandlerState
    <3>3. hd[h].pc = "claims" BY <2>3 DEF ReadClaims
    <3> QED BY <3>2, <3>3 DEF Past
  <2>4. CASE Record(h)
    <3>1. hd[h].pc = "record" /\ hd'[h] = [hd[h] EXCEPT !.pc = "submit"]
      BY <1>0, <2>4 DEF Record
    <3> QED BY <2>1, <3>1 DEF Past
  <2>5. CASE Submit(h)
    <3>1. PICK outcome :
            Handle(h, [hd[h] EXCEPT !.pc = IF outcome = "failed" THEN "failed" ELSE "mark",
                                    !.filled = (outcome = "filled")])
      BY <2>5 DEF Submit
    <3> DEFINE pc == IF outcome = "failed" THEN "failed" ELSE "mark"
               filled == outcome = "filled"
    <3>4. hd'[h] = [hd[h] EXCEPT !.pc = pc, !.filled = filled] BY <1>0, <3>1
    <3> HIDE DEF pc, filled
    <3>2. hd'[h].order = hd[h].order BY <1>0, <3>4 DEF HandlerState
    <3>3. hd[h].pc = "submit" BY <2>5 DEF Submit
    <3> QED BY <3>2, <3>3 DEF Past
  <2>6. CASE MarkFailed(h) \/ HandlerPosition(h)
    BY <1>0, <2>6 DEF MarkFailed, HandlerPosition
  <2>7. CASE Mark(h)
    <3>1. hd[h].pc = "mark" /\ hd'[h] = [hd[h] EXCEPT !.pc = "cash"]
      BY <1>0, <2>7 DEF Mark
    <3> QED BY <2>1, <3>1 DEF Past
  <2>8. CASE HandlerCash(h)
    <3>1. hd[h].pc = "cash" /\ hd'[h] = [hd[h] EXCEPT !.pc = "position"]
      BY <1>0, <2>8 DEF HandlerCash
    <3> QED BY <2>1, <3>1 DEF Past
  <2> QED BY <1>4, <2>2, <2>3, <2>4, <2>5, <2>6, <2>7, <2>8 DEF HandlerStep
<1>5. ASSUME NEW k \in Handlers \ {h}, HandlerStep(k) \/ \E o \in Orders : Propose(k, o)
      PROVE  Goal
  <2>1. \E e : Handle(k, e)
    BY <1>5 DEF HandlerStep, Gate, ReadClaims, Record, Submit, MarkFailed, Mark, HandlerCash,
                HandlerPosition, Propose
  <2> QED BY <1>0, <1>1, <2>1
<1>6. ASSUME UNCHANGED hd PROVE Goal BY <1>1, <1>6
<1>7. Goal
  <2>1. CASE \E p \in Pods : SyncStep(p)
    BY <1>6, <2>1 DEF SyncStep, SyncBegin, SyncSkip, SyncRead, SyncFail, SyncAgent, SyncMark,
                      SyncCash, SyncPosition
  <2>2. CASE \E o \in Orders : BrokerFill(o) \/ BrokerCancel(o)
    BY <1>6, <2>2 DEF BrokerFill, BrokerCancel
  <2> HIDE DEF Goal
  <2> QED BY <1>2, <1>3, <1>4, <1>5, <2>1, <2>2 DEF Step
<1> QED BY <1>7

\* An order comes to the broker from the thread that submits it, and a row once filled
\* stays filled.
LEMMA LiveSteps ==
  ASSUME IInv, Step, NEW o \in Orders, Live(o)'
  PROVE  Live(o) \/ \E h \in Handlers : hd[h].pc = "submit" /\ hd[h].order = o
<1>1. trade[o].status # "filled"
  <2> SUFFICES ASSUME trade[o].status = "filled", trade'[o] # trade[o] PROVE FALSE
    BY DEF Live
  <2>1. ASSUME NEW h \in Handlers, Record(h) \/ MarkFailed(h) \/ Mark(h) PROVE FALSE
    <3>1. hd[h].order = o
      BY <2>1 DEF Record, MarkFailed, Mark, UpdateTradeStatus, IInv, TypeOK
    <3>2. hd[h].pc \in {"record", "failed", "mark"} BY <2>1 DEF Record, MarkFailed, Mark
    <3> QED BY <3>1, <3>2 DEF IInv, HandlerInv
  <2>2. ASSUME NEW p \in Pods, SyncFail(p) \/ SyncMark(p) PROVE FALSE
    <3>1. sy[p].order = o /\ sy[p].pc \in {"fail", "mark"}
      BY <2>2 DEF SyncFail, SyncMark, UpdateTradeStatus, IInv, TypeOK
    <3> QED BY <3>1, SyncOrder DEF PendingOrders, Accepted
  <2> QED BY <2>1, <2>2
          DEF Step, HandlerStep, SyncStep, Gate, ReadClaims, Submit, HandlerCash,
              HandlerPosition, Propose, SyncBegin, SyncSkip, SyncRead, SyncAgent, SyncCash,
              SyncPosition, BrokerFill, BrokerCancel, Abort
<1>2. CASE brk'[o] = brk[o] BY <1>1, <1>2 DEF Live
<1>3. CASE brk'[o] # brk[o]
  <2>1. ASSUME NEW h \in Handlers, Submit(h) PROVE hd[h].pc = "submit" /\ hd[h].order = o
    BY <1>3, <2>1 DEF Submit, Submitted, Execute, IInv, TypeOK
  <2>2. ASSUME NEW t \in Orders, BrokerFill(t) \/ BrokerCancel(t) PROVE brk[o].st = "working"
    BY <1>3, <2>2 DEF BrokerFill, BrokerCancel, Execute, IInv, TypeOK
  <2> QED BY <1>1, <1>3, <2>1, <2>2
          DEF Live, Step, HandlerStep, SyncStep, Gate, ReadClaims, Record, MarkFailed, Mark,
              HandlerCash, HandlerPosition, Propose, SyncBegin, SyncSkip, SyncRead, SyncFail,
              SyncAgent, SyncMark, SyncCash, SyncPosition, Abort
<1> QED BY <1>2, <1>3

LEMMA BuyNext ==
  ASSUME OnePod, NoLoss, "late_reply" \notin Faults, BuyInv, [Next]_vars
  PROVE  BuyInv'
<1>1. IInv' BY NextSafe DEF BuyInv
<1>2. CASE UNCHANGED vars
  BY <1>1, <1>2
  DEF BuyInv, vars, Careful, Followed, Live, Traced, Owed, Carried, OneRequest, OneBuy, Buying,
      PendingOrders, Accepted
<1>3. CASE Step
  <2>1. Careful' /\ \A o \in Orders : Followed(o)'
    BY <1>3, StepFollows DEF BuyInv, Following
  <2>2. OneRequest'
    <3> SUFFICES ASSUME NEW h \in Handlers, NEW k \in Handlers, hd'[h].pc # "idle",
                        hd'[k].pc # "idle", hd'[h].order.agent = hd'[k].order.agent, h # k
                 PROVE  FALSE
      BY DEF OneRequest
    <3> DEFINE GoesOn(j) == hd[j].pc # "idle" /\ hd'[j].order = hd[j].order
               Begins(j) == /\ \A i \in Handlers \ {j} : hd'[i] = hd[i]
                            /\ ~Busy(hd'[j].order.agent)
    <3>1. GoesOn(h) \/ Begins(h) BY <1>3, ThreadSteps DEF BuyInv
    <3>2. GoesOn(k) \/ Begins(k) BY <1>3, ThreadSteps DEF BuyInv
    <3>3. CASE GoesOn(h) /\ GoesOn(k) BY <3>3 DEF BuyInv, OneRequest
    <3>4. CASE Begins(h) BY <3>4 DEF Busy
    <3>5. CASE Begins(k) BY <3>5 DEF Busy
    <3> QED BY <3>1, <3>2, <3>3, <3>4, <3>5
  <2>3. ASSUME NEW o \in Orders, Buying(o)', ~Buying(o)
        PROVE  \E h \in Handlers : /\ hd[h].pc = "gate" /\ hd[h].order = o
                                  /\ PendingBuys(o.agent) = {}
    <3>1. o.side = "buy" BY <2>3 DEF Buying
    <3>2. ~Live(o)' BY <1>3, <2>3, <3>1, LiveSteps DEF BuyInv, Buying, Past
    <3>3. PICK h \in Handlers : hd'[h].pc \in Past /\ hd'[h].order = o
      BY <2>3, <3>2 DEF Buying
    <3>4. hd[h].order = o /\ (hd[h].pc \in Past \/ (hd[h].pc = "gate" /\ PendingBuys(o.agent) = {}))
      BY <1>3, <3>1, <3>3, ThreadSteps DEF BuyInv, Past
    <3> QED BY <2>3, <3>1, <3>4 DEF Buying
  <2>4. ASSUME NEW o \in Orders, NEW h \in Handlers, hd[h].pc = "gate", hd[h].order = o,
               PendingBuys(o.agent) = {}, NEW u \in Orders, Buying(u), u.agent = o.agent
        PROVE  FALSE
    <3>1. u.side = "buy" BY <2>4 DEF Buying
    <3>2. ASSUME NEW k \in Handlers, hd[k].pc \in Past, hd[k].order = u PROVE FALSE
      BY <2>4, <3>2 DEF BuyInv, OneRequest, Past
    <3>3. Live(u) BY <2>4, <3>2 DEF Buying
    <3>4. u \in PendingOrders BY <3>2, <3>3 DEF BuyInv, Followed, Traced, Past
    <3> QED BY <2>4, <3>1, <3>4 DEF PendingBuys
  <2>5. OneBuy'
    <3> SUFFICES ASSUME NEW o \in Orders, NEW u \in Orders, Buying(o)', Buying(u)',
                        o.agent = u.agent
                 PROVE  o = u
      BY DEF OneBuy
    <3>1. CASE Buying(o) /\ Buying(u) BY <3>1 DEF BuyInv, OneBuy
    <3>2. CASE ~Buying(o) /\ ~Buying(u)
      <4>1. PICK h \in Handlers : hd[h].pc = "gate" /\ hd[h].order = o BY <2>3, <3>2
      <4>2. PICK k \in Handlers : hd[k].pc = "gate" /\ hd[k].order = u BY <2>3, <3>2
      <4> QED BY <4>1, <4>2 DEF BuyInv, OneRequest
    <3>3. CASE ~Buying(o) /\ Buying(u) BY <2>3, <2>4, <3>3
    <3>4. CASE Buying(o) /\ ~Buying(u) BY <2>3, <2>4, <3>4
    <3> QED BY <3>1, <3>2, <3>3, <3>4
  <2> QED BY <1>1, <2>1, <2>2, <2>5 DEF BuyInv
<1>4. ~\E p \in Pods : Crash(p) BY DEF Crash, NoLoss
<1> QED BY <1>2, <1>3, <1>4 DEF Next

LEMMA AtMostOne ==
  ASSUME NEW S, \A x, y \in S : x = y
  PROVE  Cardinality(S) <= 1
<1>1. CASE S = {} BY <1>1, FS_EmptySet
<1>2. CASE S # {}
  <2>1. PICK x : x \in S BY <1>2
  <2>2. S = {x} BY <2>1
  <2> QED BY <2>2, FS_Singleton
<1> QED BY <1>1, <1>2

\* "One order in flight per agent", with one pod, as long as no process dies, no call of
\* the database or reply of the broker is lost, and the agent waits for its replies:
\* however many agents, symbols and threads, no agent has two buys at the broker.
THEOREM OneBuyAtATime ==
  ASSUME OnePod, NoLoss, "late_reply" \notin Faults PROVE Spec => []OneBuyInFlight
<1>1. Init => BuyInv
  <2> SUFFICES ASSUME Init PROVE BuyInv OBVIOUS
  <2>1. IInv BY InitSafe
  <2>2. /\ \A o \in Orders : trade[o].status = "none" /\ brk[o].st = "none"
        /\ \A h \in Handlers : hd[h].pc = "idle"
        /\ \A p \in Pods : sy[p].pc = "idle"
    BY DEF Init, NoTrade, IdleHandler, IdleSync, Pass
  <2> QED BY <2>1, <2>2
          DEF BuyInv, Careful, Followed, Live, Owed, OneRequest, OneBuy, Buying, Past
<1>2. BuyInv => OneBuyInFlight
  <2> SUFFICES ASSUME BuyInv, NEW a \in Agents PROVE Cardinality(InFlight(a)) <= 1
    BY DEF OneBuyInFlight
  <2>1. \A o \in InFlight(a) : o \in Orders /\ Buying(o) /\ o.agent = a
    BY DEF InFlight, Buying, Live
  <2>2. \A o, u \in InFlight(a) : o = u BY <2>1 DEF BuyInv, OneBuy
  <2> QED BY <2>2, AtMostOne
<1>3. BuyInv /\ [Next]_vars => BuyInv' BY BuyNext
<1> QED BY <1>1, <1>2, <1>3, PTL DEF Spec

----------------------------------------------------------------------------
\* Money.  A fill is written to a balance as the balance read earlier and what the whole
\* order moves.  As long as the balance of an agent was never written from a stale one it
\* is the start cash and the dues of its orders; and as long as no request books its own
\* fill the one sync pass is the only writer, and no balance it has read is ever stale.

Own(a) == {o \in Orders : o.agent = a}
Dues == [o \in Orders |-> IF booked[o] > 0 THEN Delta(o, brk[o].qty) ELSE 0]

\* the provers need telling
LEMMA MinusZero == ASSUME NEW n \in Int, n = 0 PROVE -n = 0
<1>1. \A k \in Int : -k = 0 - k OBVIOUS
<1>2. PICK m \in Int : m = -n BY <1>1
<1>3. m = 0 - n BY <1>1, <1>2
<1>4. m = 0 BY <1>3
<1> QED BY <1>2, <1>4

\* The size of an order, to the broker and to the ledger.
Sized(o) ==
  /\ brk[o].st = "none" => brk[o].got = 0
  /\ brk[o].st = "filled" => brk[o].got = brk[o].qty
  /\ ~o.auto /\ brk[o].st # "none" => trade[o].qty = brk[o].qty

LEMMA SizedStays ==
  ASSUME IInv, \A o \in Orders : Sized(o), Step
  PROVE  \A o \in Orders : Sized(o)'
<1> SUFFICES ASSUME NEW t \in Orders PROVE Sized(t)' OBVIOUS
<1>0. TypeOK /\ Sized(t) /\ RowInv(t) BY DEF IInv
<1>1. CASE UNCHANGED <<trade, brk>> BY <1>0, <1>1 DEF Sized
<1>2. ASSUME NEW o, NEW st, NEW id, UpdateTradeStatus(o, st, id), UNCHANGED brk
      PROVE  Sized(t)'
  <2>1. trade'[t].qty = trade[t].qty BY <1>0, <1>2 DEF UpdateTradeStatus, TypeOK, TradeRow
  <2> QED BY <1>0, <1>2, <2>1 DEF Sized
<1>3. ASSUME NEW o \in Orders, NEW st, NEW q, NEW got, Execute(o, st, q, got), UNCHANGED trade,
             st # "none", st = "filled" => got = q, ~o.auto => trade[o].qty = q
      PROVE  Sized(t)'
  <2>1. /\ brk'[o].st = st /\ brk'[o].qty = q /\ brk'[o].got = got
        /\ \A u \in Orders \ {o} : brk'[u] = brk[u]
    BY <1>0, <1>3, Executed
  <2> QED BY <1>0, <1>3, <2>1 DEF Sized
<1>4. ASSUME NEW h \in Handlers, HandlerStep(h) PROVE Sized(t)'
  <2> PICK o : o = hd[h].order OBVIOUS
  <2>0. hd[h].pc # "idle" => o \in Orders /\ HandlerInv(h) /\ ~o.auto
    BY DEF IInv, HandlerInv
  <2>1. CASE Record(h)
    <3>1. hd[h].pc = "record" /\ UNCHANGED brk /\ \A u \in Orders \ {o} : trade'[u] = trade[u]
      BY <1>0, <2>1 DEF Record, TypeOK
    <3>2. trade[o].status = "none" BY <2>0, <3>1 DEF HandlerInv
    <3>3. t = o => brk[t].st = "none" BY <1>0, <2>0, <3>1, <3>2 DEF RowInv
    <3> QED BY <1>0, <3>1, <3>3 DEF Sized
  <2>2. CASE Submit(h)
    <3>1. o \in Orders /\ UNCHANGED trade BY <2>0, <2>2 DEF Submit
    <3> PICK q \in Nat : q = trade[o].qty BY <1>0, <3>1 DEF TypeOK, TradeRow
    <3>2. PICK outcome : Submitted(o, q, outcome) BY <2>2 DEF Submit
    <3>3. CASE UNCHANGED <<brk, held>> BY <1>1, <3>1, <3>3
    <3>4. CASE \E st \in {"working", "filled"}, got \in Nat : Placed(o, q, outcome, st, got)
      <4> PICK st \in {"working", "filled"}, got \in Nat : Placed(o, q, outcome, st, got)
        BY <3>4
      <4> QED BY <1>3, <3>1 DEF Placed
    <3> QED BY <3>1, <3>2, <3>3, <3>4, SubmittedSteps
  <2>3. CASE MarkFailed(h) \/ Mark(h) BY <1>2, <2>3 DEF MarkFailed, Mark
  <2> QED BY <1>1, <1>4, <2>1, <2>2, <2>3
          DEF HandlerStep, Gate, ReadClaims, HandlerCash, HandlerPosition
<1>5. ASSUME NEW p \in Pods, SyncStep(p) PROVE Sized(t)'
  <2>1. CASE SyncFail(p) \/ SyncMark(p) BY <1>2, <2>1 DEF SyncFail, SyncMark
  <2> QED BY <1>1, <1>5, <2>1
          DEF SyncStep, SyncBegin, SyncSkip, SyncRead, SyncAgent, SyncCash, SyncPosition
<1>6. ASSUME NEW o \in Orders, BrokerFill(o) \/ BrokerCancel(o) PROVE Sized(t)'
  <2>1. brk[o].st = "working" /\ UNCHANGED trade BY <1>6 DEF BrokerFill, BrokerCancel
  <2>2. ~o.auto => trade[o].qty = brk[o].qty BY <2>1 DEF Sized
  <2>3. CASE BrokerFill(o) BY <1>3, <2>1, <2>2, <2>3 DEF BrokerFill
  <2>4. CASE BrokerCancel(o)
    <3>1. PICK got : Execute(o, "canceled", brk[o].qty, got) BY <2>4 DEF BrokerCancel
    <3> QED BY <1>3, <2>1, <2>2, <3>1
  <2> QED BY <1>6, <2>3, <2>4
<1> QED BY <1>1, <1>4, <1>5, <1>6 DEF Step, Propose, Abort

\* The dues change only where a fill is booked.
LEMMA DuesStay ==
  ASSUME IInv, \A o \in Orders : Sized(o), Step, \A p \in Pods : ~SyncCash(p),
         \A h \in Handlers : ~HandlerCash(h)
  PROVE  Dues' = Dues /\ cash' = cash /\ stale' = stale
<1>0. TypeOK /\ \A o \in Orders : RowInv(o) BY DEF IInv
<1>1. UNCHANGED <<cash, stale, booked>>
  BY DEF Step, HandlerStep, SyncStep, Gate, ReadClaims, Record, Submit, MarkFailed,
         Mark, HandlerPosition, Propose, SyncBegin, SyncSkip, SyncRead, SyncFail,
         SyncAgent, SyncMark, SyncPosition, BrokerFill, BrokerCancel, Abort
<1>2. ASSUME NEW o \in Orders, booked[o] > 0 PROVE brk'[o].qty = brk[o].qty
  <2>1. trade[o].status = "filled" BY <1>0, <1>2 DEF RowInv
  <2>2. ASSUME NEW h \in Handlers, Submit(h) PROVE brk'[o] = brk[o]
    <3>1. HandlerInv(h) /\ hd[h].pc = "submit" BY <2>2 DEF IInv, Submit
    <3> PICK t : t = hd[h].order OBVIOUS
    <3>2. t \in Orders /\ t # o BY <2>1, <3>1 DEF HandlerInv
    <3> PICK q \in Nat : q = trade[t].qty BY <1>0, <3>2 DEF TypeOK, TradeRow
    <3>3. PICK outcome : Submitted(t, q, outcome) BY <2>2 DEF Submit
    <3>4. CASE UNCHANGED <<brk, held>> BY <3>4
    <3>5. CASE \E st \in {"working", "filled"}, got \in Nat : Placed(t, q, outcome, st, got)
      BY <1>0, <3>2, <3>5, Executed DEF Placed
    <3> QED BY <3>2, <3>3, <3>4, <3>5, SubmittedSteps
  <2>3. ASSUME NEW t \in Orders, BrokerFill(t) \/ BrokerCancel(t) PROVE brk'[o].qty = brk[o].qty
    <3>1. PICK st, got : Execute(t, st, brk[t].qty, got)
      BY <2>3 DEF BrokerFill, BrokerCancel
    <3> QED BY <1>0, <3>1, Executed
  <2>4. CASE UNCHANGED brk BY <2>4
  <2> QED BY <2>2, <2>3, <2>4
          DEF Step, HandlerStep, SyncStep, Gate, ReadClaims, Record, MarkFailed, Mark,
              HandlerCash, HandlerPosition, Propose, SyncBegin, SyncSkip, SyncRead, SyncFail,
              SyncAgent, SyncMark, SyncCash, SyncPosition, Abort
<1>3. ASSUME NEW o \in Orders PROVE Dues'[o] = Dues[o] BY <1>1, <1>2 DEF Dues
<1>4. Dues' = [o \in Orders |-> Dues'[o]] /\ Dues = [o \in Orders |-> Dues[o]] BY DEF Dues
<1>5. Dues' = Dues BY <1>3, <1>4
<1> QED BY <1>1, <1>5

\* Every balance never written from a stale one is the start cash and the agent's dues.
Settled == \A a \in Agents \ stale : cash[a] = StartCash + Total(Dues, Own(a))

LEMMA DuesInts ==
  ASSUME TypeOK, IsFiniteSet(Orders)
  PROVE  /\ \A S \in SUBSET Orders : Ints(Dues, S) /\ IsFiniteSet(S)
         /\ \A a : Own(a) \in SUBSET Orders
<1>1. ASSUME NEW o \in Orders PROVE Dues[o] \in Int
  <2>1. brk[o].qty \in Nat BY DEF TypeOK, BrokerOrder
  <2>2. Delta(o, brk[o].qty) \in Int BY <2>1, DeltaInt
  <2> QED BY <2>2 DEF Dues
<1> QED BY <1>1, FS_Subset DEF Ints, Own

\* A fill is booked as a whole: the balance read was the row's, or the agent is stale.
LEMMA BookSettles ==
  ASSUME TypeOK, IsFiniteSet(Orders), Settled, NEW o \in Orders, booked[o] = 0, brk' = brk,
         NEW bal \in Int, NEW q, BookFill(o, bal, q), q = brk[o].qty
  PROVE  Settled'
<1> PICK d : d = Delta(o, brk[o].qty) OBVIOUS
<1>1. o.agent \in Agents /\ d \in Int /\ brk[o].qty \in Nat
  BY OrderFields, DeltaInt DEF TypeOK, BrokerOrder
<1>2. booked'[o] = 1 /\ \A t \in Orders \ {o} : booked'[t] = booked[t]
  BY DEF BookFill, TypeOK
<1>3. Dues[o] = 0 /\ Dues'[o] = d /\ \A t \in Orders \ {o} : Dues'[t] = Dues[t]
  BY <1>2 DEF Dues
<1>4. /\ cash'[o.agent] = bal + d
      /\ \A a \in Agents \ {o.agent} : cash'[a] = cash[a]
      /\ stale \subseteq stale' /\ (o.agent \notin stale' => bal = cash[o.agent])
  BY <1>1 DEF BookFill, TypeOK
<1> SUFFICES ASSUME NEW a \in Agents \ stale' PROVE cash'[a] = StartCash + Total(Dues', Own(a))
  BY DEF Settled, Own
<1>5. Ints(Dues, Own(a)) /\ IsFiniteSet(Own(a)) BY DuesInts
<1>6. Total(Dues, Own(a)) \in Int BY <1>5, TotalInt
<1>7. cash[a] = StartCash + Total(Dues, Own(a)) /\ StartCash \in Int
  BY <1>4, StartAssumption DEF Settled
<1>8. CASE a = o.agent
  <2>1. o \in Own(a) /\ \A t \in Own(a) \ {o} : Dues'[t] = Dues[t]
    BY <1>3, <1>8 DEF Own
  <2>2. Total(Dues', Own(a)) = Total(Dues, Own(a)) - Dues[o] + d
    BY <1>1, <1>3, <1>5, <2>1, TotalChange
  <2> QED BY <1>1, <1>3, <1>4, <1>6, <1>7, <1>8, <2>2
<1>9. CASE a # o.agent
  <2>1. \A t \in Own(a) : Dues'[t] = Dues[t] BY <1>3, <1>9 DEF Own
  <2>2. Total(Dues', Own(a)) = Total(Dues, Own(a)) BY <1>5, <2>1, TotalSame
  <2> QED BY <1>4, <1>7, <1>9, <2>2
<1> QED BY <1>8, <1>9

LEMMA SettledStays ==
  ASSUME IsFiniteSet(Orders), IInv, \A o \in Orders : Sized(o), Settled, Step
  PROVE  Settled'
<1>0. TypeOK BY DEF IInv
<1>1. CASE (\A p \in Pods : ~SyncCash(p)) /\ \A h \in Handlers : ~HandlerCash(h)
  BY <1>1, DuesStay DEF Settled
<1>2. ASSUME NEW p \in Pods, SyncCash(p) PROVE Settled'
  <2> PICK o : o = sy[p].order OBVIOUS
  <2>0. SyncInv(p) /\ sy[p] \in SyncState BY DEF IInv, TypeOK
  <2>1. /\ sy[p].pc = "cash" /\ BookFill(o, sy[p].bal, brk[o].got) /\ brk' = brk
        /\ o \in Orders /\ booked[o] = 0 /\ brk[o].st = "filled" /\ sy[p].bal \in Int
    BY <1>2, <2>0 DEF SyncCash, SyncInv, SyncState
  <2>2. brk[o].got = brk[o].qty BY <2>1 DEF Sized
  <2> QED BY <1>0, <2>1, <2>2, BookSettles
<1>3. ASSUME NEW h \in Handlers, HandlerCash(h) PROVE Settled'
  <2> PICK o : o = hd[h].order OBVIOUS
  <2>0. HandlerInv(h) /\ hd[h] \in HandlerState BY DEF IInv, TypeOK
  <2>1. /\ hd[h].pc = "cash" /\ BookFill(o, hd[h].bal, trade[o].qty) /\ brk' = brk
        /\ o \in Orders /\ booked[o] = 0 /\ trade[o].status = "filled" /\ ~o.auto
        /\ hd[h].bal \in Int
    BY <1>3, <2>0 DEF HandlerCash, HandlerInv, HandlerState
  <2>2. trade[o].qty = brk[o].qty
    <3>1. RowInv(o) /\ Sized(o) BY <2>1 DEF IInv
    <3>2. brk[o].st # "none" BY <2>1, <3>1 DEF RowInv, Sized
    <3> QED BY <2>1, <3>1, <3>2 DEF Sized
  <2> QED BY <1>0, <2>1, <2>2, BookSettles
<1> QED BY <1>1, <1>2, <1>3

\* the requests write no balance
NoPayer == \A h \in Handlers : hd[h].pc \notin {"cash", "position"} /\ ~hd[h].filled

\* The balance a pass works with is the balance of the row.
Fresh == \A p \in Pods : sy[p].pc \in {"mark", "cash"} => sy[p].bal = cash[sy[p].order.agent]

LEMMA ThreadsDoNotPay ==
  ASSUME IInv, NoPayer, ~OwnFills, NoLoss, Step
  PROVE  NoPayer'
<1> DEFINE Fine(e) == e.pc \notin {"cash", "position"} /\ ~e.filled
<1> SUFFICES ASSUME NEW h \in Handlers PROVE Fine(hd'[h]) BY DEF NoPayer
<1>0. /\ hd[h] \in HandlerState /\ Fine(hd[h]) /\ Fine(IdleHandler)
      /\ \A k \in Handlers : \A e : Handle(k, e) => hd'[h] = IF k = h THEN e ELSE hd[h]
  BY DEF IInv, TypeOK, Handle, IdleHandler, NoPayer
<1> DEFINE Goal == Fine(hd'[h])
<1>1. ASSUME hd'[h] = hd[h] PROVE Goal BY <1>0, <1>1
<1>2. ASSUME NEW k \in Handlers, NEW o \in Orders, Propose(k, o) PROVE Goal
  <2> DEFINE e == [IdleHandler EXCEPT !.pc = "gate", !.order = o, !.bal = cash[o.agent]]
  <2>1. Fine(e) /\ Handle(k, e) BY <1>2 DEF Propose, IdleHandler
  <2> HIDE DEF e
  <2> QED BY <1>0, <2>1
<1>3. ASSUME HandlerStep(h) PROVE Goal
  <2>0. \A pc : pc \notin {"cash", "position"} => Fine([hd[h] EXCEPT !.pc = pc])
    BY <1>0 DEF HandlerState
  <2>1. CASE Gate(h)
    <3>1. hd'[h] = [hd[h] EXCEPT !.pc = "claims"] \/ hd'[h] = IdleHandler
      BY <1>0, <2>1 DEF Gate
    <3> QED BY <1>0, <2>0, <3>1
  <2>2. CASE ReadClaims(h)
    <3>1. PICK taken : hd'[h] = [hd[h] EXCEPT !.pc = "record", !.taken = taken]
      BY <1>0, <2>2 DEF ReadClaims
    <3> QED BY <1>0, <3>1 DEF HandlerState
  <2>3. CASE Record(h)
    <3>1. hd'[h] = [hd[h] EXCEPT !.pc = "submit"] \/ hd'[h] = IdleHandler
      BY <1>0, <2>3 DEF Record
    <3> QED BY <1>0, <2>0, <3>1
  <2>4. CASE Submit(h)
    <3>1. PICK outcome \in {"working", "filled", "failed"} :
            /\ Submitted(hd[h].order, trade[hd[h].order].qty, outcome)
            /\ Handle(h, [hd[h] EXCEPT !.pc = IF outcome = "failed" THEN "failed" ELSE "mark",
                                       !.filled = (outcome = "filled")])
      BY <2>4 DEF Submit
    <3> DEFINE pc == IF outcome = "failed" THEN "failed" ELSE "mark"
               filled == outcome = "filled"
    <3>2. ~filled BY <3>1 DEF Submitted, OwnFills
    <3>3. pc \notin {"cash", "position"} OBVIOUS
    <3>4. hd'[h] = [hd[h] EXCEPT !.pc = pc, !.filled = filled] BY <1>0, <3>1
    <3> HIDE DEF pc, filled
    <3> QED BY <1>0, <3>2, <3>3, <3>4 DEF HandlerState
  <2>5. CASE MarkFailed(h) \/ Mark(h)
    <3>1. hd'[h] = IdleHandler BY <1>0, <2>5 DEF MarkFailed, Mark
    <3> QED BY <1>0, <3>1
  <2>6. ~HandlerCash(h) /\ ~HandlerPosition(h) BY <1>0 DEF HandlerCash, HandlerPosition
  <2> HIDE DEF Goal
  <2> QED BY <1>3, <2>1, <2>2, <2>3, <2>4, <2>5, <2>6 DEF HandlerStep
<1>4. ASSUME NEW k \in Handlers \ {h}, HandlerStep(k) PROVE Goal
  <2>1. \E e : Handle(k, e)
    BY <1>4 DEF HandlerStep, Gate, ReadClaims, Record, Submit, MarkFailed, Mark, HandlerCash,
                HandlerPosition
  <2> QED BY <1>0, <1>1, <2>1
<1>5. ~Abort BY DEF Abort, NoLoss
<1>6. ASSUME UNCHANGED hd PROVE Goal BY <1>1, <1>6
<1>7. CASE \E p \in Pods : SyncStep(p)
  BY <1>6, <1>7 DEF SyncStep, SyncBegin, SyncSkip, SyncRead, SyncFail, SyncAgent, SyncMark,
                    SyncCash, SyncPosition
<1>8. CASE \E o \in Orders : BrokerFill(o) \/ BrokerCancel(o)
  BY <1>6, <1>8 DEF BrokerFill, BrokerCancel
<1> HIDE DEF Fine
<1> QED BY <1>2, <1>3, <1>4, <1>5, <1>7, <1>8 DEF Step


LEMMA FreshStays == ASSUME OnePod, IInv, NoPayer, Fresh, Step PROVE Fresh'
<1> SUFFICES ASSUME NEW p \in Pods, sy'[p].pc \in {"mark", "cash"}
             PROVE  sy'[p].bal = cash'[sy'[p].order.agent]
  BY DEF Fresh
<1>0. /\ sy[p] \in SyncState
      /\ \A q \in Pods : q = p /\ \A e : Sync(q, e) => sy'[p] = e
  BY DEF IInv, TypeOK, Sync, OnePod
<1>1. CASE SyncAgent(p)
  <2>1. PICK b : b = cash[sy[p].order.agent] OBVIOUS
  <2>2. sy'[p] = [sy[p] EXCEPT !.pc = "mark", !.bal = b] /\ cash' = cash
    BY <1>0, <1>1, <2>1 DEF SyncAgent
  <2> QED BY <1>0, <2>1, <2>2 DEF SyncState
<1>2. CASE SyncMark(p)
  <2>1. sy'[p] = [sy[p] EXCEPT !.pc = "cash"] /\ cash' = cash /\ sy[p].pc = "mark"
    BY <1>0, <1>2 DEF SyncMark
  <2> QED BY <1>0, <2>1 DEF SyncState, Fresh
<1>3. CASE sy'[p] = sy[p] /\ cash' = cash BY <1>3 DEF Fresh
<1>4. CASE SyncCash(p)
  <2>1. sy'[p] = [sy[p] EXCEPT !.pc = "position"] BY <1>0, <1>4 DEF SyncCash
  <2>2. sy'[p].pc = "position" BY <1>0, <2>1 DEF SyncState
  <2> QED BY <2>2
<1>5. \A rows : Pass(rows).pc \in {"idle", "next"} BY DEF Pass
<1>6. CASE SyncBegin(p) \/ SyncFail(p) \/ SyncPosition(p) \/ \E o \in Orders : SyncSkip(p, o)
  <2>1. sy'[p].pc \in {"idle", "next"}
    BY <1>0, <1>5, <1>6 DEF SyncBegin, SyncFail, SyncPosition, SyncSkip, NextRow
  <2> QED BY <2>1
<1>7. CASE \E o \in Orders : SyncRead(p, o)
  <2>1. PICK o \in Orders : SyncRead(p, o) BY <1>7
  <2> DEFINE pc == IF brk[o].st = "filled" THEN "agent" ELSE "fail"
  <2>2. sy'[p] = [sy[p] EXCEPT !.pc = pc, !.order = o] BY <1>0, <2>1 DEF SyncRead
  <2>3. pc \in {"agent", "fail"} OBVIOUS
  <2> HIDE DEF pc
  <2>4. sy'[p].pc = pc BY <1>0, <2>2 DEF SyncState
  <2> QED BY <2>3, <2>4
<1>8. CASE UNCHANGED <<sy, cash>> BY <1>3, <1>8
<1>9. CASE SyncStep(p) BY <1>1, <1>2, <1>4, <1>6, <1>7, <1>9 DEF SyncStep
<1>10. CASE Abort
  <2>1. sy'[p] = sy[p] \/ sy'[p] = IdleSync BY <1>10, DropSteps DEF Dropped, IInv
  <2>2. cash' = cash BY <1>10 DEF Abort
  <2>3. IdleSync.pc = "idle" BY <1>5 DEF IdleSync, Pass
  <2> QED BY <1>3, <2>1, <2>2, <2>3
<1> QED BY <1>0, <1>8, <1>9, <1>10
        DEF Step, NoPayer, HandlerStep, Gate, ReadClaims, Record, Submit, MarkFailed, Mark,
            HandlerCash, HandlerPosition, Propose, BrokerFill, BrokerCancel


LEMMA NothingStale ==
  ASSUME IInv, NoPayer, Fresh, stale = {}, Step
  PROVE  stale' = {}
<1>1. ASSUME NEW p \in Pods, SyncCash(p) PROVE stale' = {}
  <2> PICK o : o = sy[p].order OBVIOUS
  <2>1. sy[p].bal = cash[o.agent] BY <1>1 DEF SyncCash, Fresh
  <2>2. stale' = stale \cup {a \in {o.agent} : sy[p].bal # cash[a]}
    BY <1>1 DEF SyncCash, BookFill
  <2> QED BY <2>1, <2>2
<1> QED BY <1>1
        DEF Step, NoPayer, HandlerStep, SyncStep, Gate, ReadClaims, Record, Submit, MarkFailed,
            Mark, HandlerCash, HandlerPosition, Propose, SyncBegin, SyncSkip, SyncRead, SyncFail,
            SyncAgent, SyncMark, SyncPosition, BrokerFill, BrokerCancel, Abort

\* Moved as a sum of a function's values.
LEMMA MovedTotal ==
  \A a : Moved(a) = Total([o \in Orders |-> Delta(o, Due(o))], Own(a))
<1> SUFFICES ASSUME NEW a
             PROVE  Moved(a) = Total([o \in Orders |-> Delta(o, Due(o))], Own(a))
  OBVIOUS
<1> DEFINE f == [o \in Orders |-> Delta(o, Due(o))]
           S == {o \in Orders : o.agent = a}
           Sum(g) == [s \in SUBSET S |-> IF s = {} THEN 0 ELSE f[First(s)] + g[s \ {First(s)}]]
           Fold(g) == [s \in SUBSET S |-> IF s = {} THEN 0
                         ELSE Delta(First(s), Due(First(s))) + g[s \ {First(s)}]]
<1>1. \A s \in SUBSET S : s # {} => f[First(s)] = Delta(First(s), Due(First(s)))
  BY FirstIn
<1>2. \A g : Sum(g) = Fold(g) BY <1>1
<1>3. Moved(a) = (CHOOSE g : g = Fold(g))[S]
  BY DEF Moved, MapThenSumSet, MapThenFoldSet, First
<1>4. Total(f, S) = (CHOOSE g : g = Sum(g))[S]
  BY DEF Total, MapThenSumSet, MapThenFoldSet, First
<1>5. (CHOOSE g : g = Sum(g)) = (CHOOSE g : g = Fold(g))
  <2> HIDE DEF Sum, Fold
  <2> QED BY <1>2
<1>6. Own(a) = S BY DEF Own
<1> HIDE DEF Sum, Fold
<1> QED BY <1>3, <1>4, <1>5, <1>6

\* An order at rest is due as a whole if it was booked, and not due at all if it was not.
LEMMA DueAtRest ==
  ASSUME IInv, Quiet, \A o \in Orders : Followed(o), NEW o \in Orders
  PROVE  Due(o) = IF booked[o] > 0 THEN brk[o].qty ELSE 0
<1>1. booked[o] \in Nat /\ RowInv(o) BY DEF IInv, TypeOK
<1>2. CASE booked[o] > 0 BY <1>1, <1>2 DEF RowInv, Due
<1>3. CASE booked[o] = 0
  <2>1. ~Traced(o) /\ ~Carried(o) BY DEF Traced, Carried, Quiet
  <2>2. ~Live(o) /\ ~Owed(o) BY <2>1 DEF Followed
  <2> QED BY <1>3, <2>2 DEF Live, Owed, Due
<1> QED BY <1>1, <1>2, <1>3

PaidInv ==
  /\ IInv /\ Careful /\ \A o \in Orders : Followed(o) /\ Sized(o)
  /\ Settled
  /\ ~OwnFills => NoPayer /\ Fresh /\ stale = {}

LEMMA PaidNext ==
  ASSUME OnePod, NoLoss, IsFiniteSet(Orders), PaidInv, [Next]_vars
  PROVE  PaidInv'
<1>1. IInv' BY NextSafe DEF PaidInv
<1>2. CASE UNCHANGED vars
  <2>1. Careful' /\ \A o \in Orders : Followed(o)' /\ Sized(o)'
    BY <1>2 DEF PaidInv, vars, Careful, Followed, Live, Traced, Owed, Carried, PendingOrders,
                Accepted, Sized
  <2>2. Settled' BY <1>2 DEF PaidInv, vars, Settled, Dues, Own
  <2>3. ~OwnFills => NoPayer' /\ Fresh' /\ stale' = {}
    BY <1>2 DEF PaidInv, vars, NoPayer, Fresh
  <2> QED BY <1>1, <2>1, <2>2, <2>3 DEF PaidInv, OwnFills
<1>3. CASE Step
  <2>1. Careful' /\ \A o \in Orders : Followed(o)'
    BY <1>3, StepFollows DEF PaidInv, Following
  <2>2. (\A o \in Orders : Sized(o)') /\ Settled'
    BY <1>3, SizedStays, SettledStays DEF PaidInv
  <2>3. ~OwnFills => NoPayer' /\ Fresh' /\ stale' = {}
    BY <1>3, ThreadsDoNotPay, FreshStays, NothingStale DEF PaidInv
  <2> QED BY <1>1, <2>1, <2>2, <2>3 DEF PaidInv, OwnFills
<1>4. ~\E p \in Pods : Crash(p) BY DEF Crash, NoLoss
<1> QED BY <1>2, <1>3, <1>4 DEF Next

\* No money is lost or made up: with one pod, as long as no process dies and no call of the
\* database and no reply of the broker is lost, every balance is, whenever nothing is in
\* progress, what it was at the start and what its orders are due, however many agents,
\* orders and threads there are, however their requests interleave with the order sync, and
\* whatever part of an order the broker fills.  Where a request may book its own fill, an
\* agent whose balance was ever written from one read too early is excepted, as there the
\* code loses what was written in between; where none may, no agent is.
THEOREM BalancesAreTheBrokers ==
  ASSUME OnePod, NoLoss, IsFiniteSet(Orders)
  PROVE  Spec => []CashMatchesBroker
<1>1. Init => PaidInv
  <2> SUFFICES ASSUME Init PROVE PaidInv OBVIOUS
  <2>1. IInv BY InitSafe
  <2>2. /\ \A o \in Orders : trade[o].status = "none" /\ brk[o].st = "none" /\ brk[o].got = 0
        /\ \A o \in Orders : booked[o] = 0
        /\ \A h \in Handlers : hd[h].pc = "idle" /\ ~hd[h].filled
        /\ \A p \in Pods : sy[p].pc = "idle"
        /\ \A a \in Agents : cash[a] = StartCash
        /\ stale = {}
    BY DEF Init, NoTrade, IdleHandler, IdleSync, Pass
  <2>3. Settled
    <3> SUFFICES ASSUME NEW a \in Agents PROVE StartCash = StartCash + Total(Dues, Own(a))
      BY <2>2 DEF Settled
    <3>1. \A o \in Own(a) : Dues[o] = 0 BY <2>2 DEF Dues, Own
    <3>2. IsFiniteSet(Own(a)) BY <2>1, DuesInts DEF IInv
    <3>3. Total(Dues, Own(a)) = 0 BY <3>1, <3>2, TotalZero
    <3> QED BY <3>3, StartAssumption
  <2> QED BY <2>1, <2>2, <2>3
          DEF PaidInv, Careful, Followed, Live, Owed, Sized, NoPayer, Fresh
<1>2. PaidInv => CashMatchesBroker
  <2> SUFFICES ASSUME PaidInv, Quiet, NEW a \in Agents, a \notin stale
               PROVE  cash[a] = StartCash + Moved(a)
    BY DEF CashMatchesBroker, PaidInv
  <2> DEFINE f == [o \in Orders |-> Delta(o, Due(o))]
  <2>1. ASSUME NEW o \in Own(a) PROVE f[o] = Dues[o]
    <3>1. o \in Orders /\ booked[o] \in Nat BY DEF Own, PaidInv, IInv, TypeOK
    <3>2. Due(o) = IF booked[o] > 0 THEN brk[o].qty ELSE 0 BY <3>1, DueAtRest DEF PaidInv
    <3>3. CASE booked[o] > 0 BY <3>1, <3>2, <3>3 DEF Dues
    <3>4. CASE booked[o] = 0
      <4> PICK n \in Int : n = 0 OBVIOUS
      <4>1. -n = 0 BY MinusZero
      <4>2. Delta(o, n) = 0 BY <4>1 DEF Delta
      <4>3. Dues[o] = 0 /\ Due(o) = n BY <3>1, <3>2, <3>4 DEF Dues
      <4> QED BY <3>1, <4>2, <4>3
    <3> QED BY <3>1, <3>3, <3>4
  <2>2. IsFiniteSet(Own(a)) BY DuesInts DEF PaidInv, IInv
  <2> HIDE DEF f
  <2>3. Total(f, Own(a)) = Total(Dues, Own(a)) BY <2>1, <2>2, TotalSame
  <2>4. Moved(a) = Total(f, Own(a)) BY MovedTotal DEF f
  <2> QED BY <2>3, <2>4 DEF PaidInv, Settled
<1>3. PaidInv /\ [Next]_vars => PaidInv' BY PaidNext
<1> QED BY <1>1, <1>2, <1>3, PTL DEF Spec

----------------------------------------------------------------------------
\* Positions.  What the broker holds of a symbol is what the positions say and what is in
\* transit: filled and not yet applied to a position, less what was applied as filled and
\* is not.

Owing(o) ==
  \/ booked[o] = 0
  \/ \E p \in Pods : sy[p].pc = "position" /\ sy[p].order = o
  \/ \E h \in Handlers : hd[h].pc = "position" /\ hd[h].order = o

Transit ==
  [o \in Orders |-> Shares(o, IF Owing(o) THEN brk[o].got ELSE brk[o].got - brk[o].qty)]

Of(s) == {o \in Orders : o.symbol = s}

Column(q, s) == [a \in Agents |-> q[a][s]]

Held ==
  \A s \in Symbols \ oversold :
    held[s] = Total(Column(pos, s), Agents) + Total(Transit, Of(s))

OwingSame == \A o \in Orders : Owing(o)' <=> Owing(o)

\* A thread or a pass goes on, and is not about to apply a fill before or after.
LEMMA ThreadOwes ==
  ASSUME TypeOK, NEW h \in Handlers, NEW e, Handle(h, e), e.pc # "position",
         hd[h].pc # "position", UNCHANGED <<booked, sy>>
  PROVE  OwingSame
<1>1. hd'[h] = e /\ \A k \in Handlers \ {h} : hd'[k] = hd[k] BY DEF Handle, TypeOK
<1> QED BY <1>1 DEF Owing, OwingSame

LEMMA PassOwes ==
  ASSUME TypeOK, NEW p \in Pods, NEW e, Sync(p, e), e.pc # "position",
         sy[p].pc # "position", UNCHANGED <<booked, hd>>
  PROVE  OwingSame
<1>1. sy'[p] = e /\ \A q \in Pods \ {p} : sy'[q] = sy[q] BY DEF Sync, TypeOK
<1> QED BY <1>1 DEF Owing, OwingSame

LEMMA HandlerOwes ==
  ASSUME IInv, NEW h \in Handlers, HandlerStep(h), ~HandlerPosition(h)
  PROVE  OwingSame
<1>0. TypeOK /\ hd[h] \in HandlerState /\ IdleHandler.pc = "idle"
  BY DEF IInv, TypeOK, IdleHandler
<1>1. CASE Gate(h)
  <2>1. PICK e : Handle(h, e) /\ (e = IdleHandler \/ e = [hd[h] EXCEPT !.pc = "claims"])
    BY <1>1 DEF Gate
  <2>2. e.pc # "position" BY <1>0, <2>1 DEF HandlerState
  <2> QED BY <1>0, <1>1, <2>1, <2>2, ThreadOwes DEF Gate
<1>2. CASE ReadClaims(h)
  <2>1. PICK taken : Handle(h, [hd[h] EXCEPT !.pc = "record", !.taken = taken])
    BY <1>2 DEF ReadClaims
  <2> DEFINE e == [hd[h] EXCEPT !.pc = "record", !.taken = taken]
  <2>2. e.pc # "position" /\ Handle(h, e) BY <1>0, <2>1 DEF HandlerState
  <2> HIDE DEF e
  <2> QED BY <1>0, <1>2, <2>2, ThreadOwes DEF ReadClaims
<1>3. CASE Record(h)
  <2>1. PICK e : Handle(h, e) /\ (e = IdleHandler \/ e = [hd[h] EXCEPT !.pc = "submit"])
    BY <1>3 DEF Record
  <2>2. e.pc # "position" BY <1>0, <2>1 DEF HandlerState
  <2> QED BY <1>0, <1>3, <2>1, <2>2, ThreadOwes DEF Record
<1>4. CASE Submit(h)
  <2>1. PICK outcome :
          Handle(h, [hd[h] EXCEPT !.pc = IF outcome = "failed" THEN "failed" ELSE "mark",
                                  !.filled = (outcome = "filled")])
    BY <1>4 DEF Submit
  <2> DEFINE pc == IF outcome = "failed" THEN "failed" ELSE "mark"
             e == [hd[h] EXCEPT !.pc = pc, !.filled = (outcome = "filled")]
  <2>2. pc # "position" OBVIOUS
  <2>3. Handle(h, e) BY <2>1
  <2> HIDE DEF pc
  <2>4. e.pc # "position" BY <1>0, <2>2 DEF HandlerState
  <2> HIDE DEF e
  <2> QED BY <1>0, <1>4, <2>3, <2>4, ThreadOwes DEF Submit
<1>5. CASE MarkFailed(h) BY <1>0, <1>5, ThreadOwes DEF MarkFailed
<1>6. CASE Mark(h)
  <2>1. PICK e : Handle(h, e) /\ (e = IdleHandler \/ e = [hd[h] EXCEPT !.pc = "cash"])
    BY <1>6 DEF Mark
  <2>2. e.pc # "position" BY <1>0, <2>1 DEF HandlerState
  <2> QED BY <1>0, <1>6, <2>1, <2>2, ThreadOwes DEF Mark
<1>7. CASE HandlerCash(h)
  <2> PICK o : o = hd[h].order OBVIOUS
  <2> DEFINE e == [hd[h] EXCEPT !.pc = "position"]
  <2>1. HandlerInv(h) BY DEF IInv
  <2>2. e.pc = "position" /\ e.order = o BY <1>0 DEF HandlerState
  <2>3. /\ hd[h].pc = "cash" /\ booked[o] = 0 /\ o \in Orders /\ UNCHANGED sy
        /\ booked' = [booked EXCEPT ![o] = @ + 1] /\ Handle(h, e)
    BY <1>7, <2>1 DEF HandlerCash, BookFill, HandlerInv
  <2> HIDE DEF e
  <2>4. hd'[h].pc = "position" /\ hd'[h].order = o /\ \A k \in Handlers \ {h} : hd'[k] = hd[k]
    BY <1>0, <2>2, <2>3 DEF Handle, TypeOK
  <2>5. booked'[o] = 1 /\ \A t \in Orders \ {o} : booked'[t] = booked[t]
    BY <1>0, <2>3 DEF TypeOK
  <2> QED BY <2>3, <2>4, <2>5 DEF Owing, OwingSame
<1> QED BY <1>1, <1>2, <1>3, <1>4, <1>5, <1>6, <1>7 DEF HandlerStep

LEMMA SyncOwes ==
  ASSUME IInv, NEW p \in Pods, SyncStep(p), ~SyncPosition(p)
  PROVE  OwingSame
<1>0. TypeOK /\ sy[p] \in SyncState /\ \A rows : Pass(rows).pc # "position"
  BY DEF IInv, TypeOK, Pass
<1>1. CASE SyncBegin(p) BY <1>0, <1>1, PassOwes DEF SyncBegin
<1>2. CASE SyncFail(p) BY <1>0, <1>2, PassOwes DEF SyncFail, NextRow
<1>3. CASE \E o \in Orders : SyncSkip(p, o) BY <1>0, <1>3, PassOwes DEF SyncSkip, NextRow
<1>4. CASE SyncMark(p)
  <2> DEFINE e == [sy[p] EXCEPT !.pc = "cash"]
  <2>1. e.pc # "position" /\ Sync(p, e) BY <1>0, <1>4 DEF SyncMark, SyncState
  <2> HIDE DEF e
  <2> QED BY <1>0, <1>4, <2>1, PassOwes DEF SyncMark
<1>5. CASE SyncAgent(p)
  <2> PICK b : b = cash[sy[p].order.agent] OBVIOUS
  <2> DEFINE e == [sy[p] EXCEPT !.pc = "mark", !.bal = b]
  <2>1. e.pc # "position" /\ Sync(p, e) BY <1>0, <1>5 DEF SyncAgent, SyncState
  <2> HIDE DEF e
  <2> QED BY <1>0, <1>5, <2>1, PassOwes DEF SyncAgent
<1>6. CASE \E o \in Orders : SyncRead(p, o)
  <2>1. PICK o \in Orders : SyncRead(p, o) BY <1>6
  <2> DEFINE pc == IF brk[o].st = "filled" THEN "agent" ELSE "fail"
             e == [sy[p] EXCEPT !.pc = pc, !.order = o]
  <2>2. pc # "position" OBVIOUS
  <2>3. Sync(p, e) BY <2>1 DEF SyncRead
  <2> HIDE DEF pc
  <2>4. e.pc # "position" BY <1>0, <2>2 DEF SyncState
  <2> HIDE DEF e
  <2> QED BY <1>0, <2>1, <2>3, <2>4, PassOwes DEF SyncRead
<1>7. CASE SyncCash(p)
  <2> PICK o : o = sy[p].order OBVIOUS
  <2> DEFINE e == [sy[p] EXCEPT !.pc = "position"]
  <2>1. SyncInv(p) BY DEF IInv
  <2>2. e.pc = "position" /\ e.order = o BY <1>0 DEF SyncState
  <2>3. /\ sy[p].pc = "cash" /\ booked[o] = 0 /\ o \in Orders /\ UNCHANGED hd
        /\ booked' = [booked EXCEPT ![o] = @ + 1] /\ Sync(p, e)
    BY <1>0, <1>7, <2>1 DEF SyncCash, BookFill, SyncInv, SyncState
  <2> HIDE DEF e
  <2>4. sy'[p].pc = "position" /\ sy'[p].order = o /\ \A q \in Pods \ {p} : sy'[q] = sy[q]
    BY <1>0, <2>2, <2>3 DEF Sync, TypeOK
  <2>5. booked'[o] = 1 /\ \A t \in Orders \ {o} : booked'[t] = booked[t]
    BY <1>0, <2>3 DEF TypeOK
  <2> QED BY <2>3, <2>4, <2>5 DEF Owing, OwingSame
<1> QED BY <1>1, <1>2, <1>3, <1>4, <1>5, <1>6, <1>7 DEF SyncStep

\* What is owed to a position changes only where the fill is applied.
LEMMA OwingStays ==
  ASSUME NoLoss, IInv, Step, \A p \in Pods : ~SyncPosition(p),
         \A h \in Handlers : ~HandlerPosition(h)
  PROVE  UNCHANGED <<pos, oversold>> /\ OwingSame
<1>0. TypeOK /\ ~Abort BY DEF IInv, Abort, NoLoss
<1>1. UNCHANGED <<pos, oversold>>
  BY <1>0 DEF Step, HandlerStep, SyncStep, Gate, ReadClaims, Record, Submit, MarkFailed,
              Mark, HandlerCash, Propose, SyncBegin, SyncSkip, SyncRead,
              SyncFail, SyncAgent, SyncMark, SyncCash, BrokerFill, BrokerCancel
<1>2. ASSUME UNCHANGED <<booked, sy, hd>> PROVE OwingSame
  <2>1. booked' = booked /\ sy' = sy /\ hd' = hd BY <1>2
  <2> QED BY <2>1 DEF Owing, OwingSame
<1>3. ASSUME NEW h \in Handlers, NEW o \in Orders, Propose(h, o) PROVE OwingSame
  <2> PICK b : b = cash[o.agent] OBVIOUS
  <2> DEFINE e == [IdleHandler EXCEPT !.pc = "gate", !.order = o, !.bal = b]
  <2>1. e.pc # "position" /\ Handle(h, e) BY <1>3 DEF Propose, IdleHandler
  <2> HIDE DEF e
  <2> QED BY <1>0, <1>3, <2>1, ThreadOwes DEF Propose
<1> QED BY <1>0, <1>1, <1>2, <1>3, HandlerOwes, SyncOwes
        DEF Step, BrokerFill, BrokerCancel

LEMMA OrderSums ==
  ASSUME TypeOK, IsFiniteSet(Orders), NEW s
  PROVE  IsFiniteSet(Of(s)) /\ Ints(Transit, Of(s)) /\ Total(Transit, Of(s)) \in Int
<1>1. ASSUME NEW o \in Orders PROVE Transit[o] \in Int
  <2> PICK n \in Int : n = IF Owing(o) THEN brk[o].got ELSE brk[o].got - brk[o].qty
    BY DEF TypeOK, BrokerOrder
  <2>1. Shares(o, n) \in Int BY DeltaInt
  <2> QED BY <2>1 DEF Transit
<1>2. IsFiniteSet(Of(s)) BY FS_Subset DEF Of
<1>3. Ints(Transit, Of(s)) BY <1>1 DEF Ints, Of
<1> QED BY <1>2, <1>3, TotalInt

LEMMA ColumnSums ==
  ASSUME NEW q \in [Agents -> [Symbols -> Nat]], IsFiniteSet(Agents), NEW s \in Symbols
  PROVE  Ints(Column(q, s), Agents) /\ Total(Column(q, s), Agents) \in Int
<1>1. Ints(Column(q, s), Agents) BY DEF Ints, Column
<1> QED BY <1>1, TotalInt

LEMMA SharesMinus ==
  ASSUME NEW o, NEW x \in Int, NEW y \in Int
  PROVE  Shares(o, x - y) = Shares(o, x) - Shares(o, y)
BY DEF Shares

\* The broker executes an order: what it moves is in transit.
LEMMA ExecuteHeld ==
  ASSUME TypeOK, IsFiniteSet(Orders), IsFiniteSet(Agents), Held, UNCHANGED <<pos, oversold>>,
         OwingSame, NEW o \in Orders, NEW st, NEW q \in Nat, NEW got \in Nat,
         Execute(o, st, q, got), Owing(o) \/ q = brk[o].qty
  PROVE  Held'
<1> PICK old \in Nat : old = brk[o].got BY DEF TypeOK, BrokerOrder
<1> PICK size \in Nat : size = brk[o].qty BY DEF TypeOK, BrokerOrder
<1> PICK d \in Int : d = Shares(o, got - old) BY DeltaInt
<1>1. o.symbol \in Symbols BY OrderFields
<1>2. brk'[o].got = got /\ brk'[o].qty = q /\ \A t \in Orders \ {o} : brk'[t] = brk[t]
  BY Executed
<1>3. \A t \in Orders \ {o} : Transit'[t] = Transit[t]
  BY <1>2 DEF Transit, OwingSame
<1>4. Transit'[o] = Transit[o] + d /\ Transit'[o] \in Int
  <2>1. d = Shares(o, got) - Shares(o, old) BY SharesMinus
  <2>2. Shares(o, got) \in Int /\ Shares(o, old) \in Int /\ Shares(o, size) \in Int
    BY DeltaInt
  <2>3. CASE Owing(o)
    <3>1. Transit[o] = Shares(o, old) /\ Transit'[o] = Shares(o, got)
      BY <1>2, <2>3 DEF Transit, OwingSame
    <3> QED BY <2>1, <2>2, <3>1
  <2>4. CASE ~Owing(o)
    <3>1. Transit[o] = Shares(o, old - size) /\ Transit'[o] = Shares(o, got - size)
      BY <1>2, <2>4 DEF Transit, OwingSame
    <3>2. Shares(o, old - size) = Shares(o, old) - Shares(o, size) BY DEF Shares
    <3>3. Shares(o, got - size) = Shares(o, got) - Shares(o, size) BY DEF Shares
    <3> QED BY <2>1, <2>2, <3>1, <3>2, <3>3
  <2> QED BY <2>3, <2>4
<1>5. /\ held'[o.symbol] = held[o.symbol] + d
      /\ \A s \in Symbols \ {o.symbol} : held'[s] = held[s]
  BY <1>1 DEF Execute, TypeOK
<1> SUFFICES ASSUME NEW s \in Symbols \ oversold
             PROVE  held'[s] = Total(Column(pos, s), Agents) + Total(Transit', Of(s))
  BY DEF Held, Of, Column
<1>6. IsFiniteSet(Of(s)) /\ Ints(Transit, Of(s)) /\ Total(Transit, Of(s)) \in Int
  BY OrderSums
<1>7. Total(Column(pos, s), Agents) \in Int BY ColumnSums DEF TypeOK
<1>8. held[s] = Total(Column(pos, s), Agents) + Total(Transit, Of(s)) BY DEF Held
<1>9. CASE s = o.symbol
  <2>1. o \in Of(s) /\ \A t \in Of(s) \ {o} : Transit'[t] = Transit[t] BY <1>3, <1>9 DEF Of
  <2>2. Transit[o] \in Int BY <1>6, <2>1 DEF Ints
  <2> PICK v \in Int : v = Transit'[o] BY <1>4
  <2>3. Total(Transit', Of(s)) = Total(Transit, Of(s)) - Transit[o] + v
    BY <1>6, <2>1, TotalChange
  <2>4. Total(Transit', Of(s)) = Total(Transit, Of(s)) + d BY <1>4, <1>6, <2>2, <2>3
  <2> QED BY <1>5, <1>6, <1>7, <1>8, <1>9, <2>4
<1>10. CASE s # o.symbol
  <2>1. \A t \in Of(s) : Transit'[t] = Transit[t] BY <1>3, <1>10 DEF Of
  <2>2. Total(Transit', Of(s)) = Total(Transit, Of(s)) BY <1>6, <2>1, TotalSame
  <2> QED BY <1>5, <1>8, <1>10, <2>2
<1> QED BY <1>9, <1>10

\* A fill that is about to be applied is booked, and in no other hand: were it not booked,
\* it would be in the hand of a thread that is about to book it.
Applied(o) ==
  /\ booked[o] # 0 /\ Owing(o) /\ ~Owing(o)'
  /\ \A t \in Orders \ {o} : Owing(t)' <=> Owing(t)

LEMMA SyncApplies ==
  ASSUME OnePod, IInv, \A o \in Orders : Followed(o) /\ Sized(o), NEW p \in Pods, SyncPosition(p)
  PROVE  /\ sy[p].order \in Orders /\ Applied(sy[p].order)
         /\ brk[sy[p].order].got = brk[sy[p].order].qty
<1> PICK o : o = sy[p].order OBVIOUS
<1>0. /\ SyncInv(p) /\ sy[p] \in SyncState /\ TypeOK /\ sy[p].pc = "position"
      /\ UNCHANGED <<booked, hd>>
  BY DEF IInv, TypeOK, SyncPosition
<1>1. o \in Orders /\ trade[o].status = "filled" /\ brk[o].st = "filled"
  BY <1>0 DEF SyncInv, SyncState
<1>2. \A h \in Handlers : hd[h].pc # "idle" => hd[h].order # o
  BY <1>0 DEF IInv, Exclusive
<1>3. ~Carried(o) BY <1>0, <1>2 DEF Carried, OnePod
<1>4. booked[o] # 0 BY <1>1, <1>3 DEF Followed, Owed
<1>5. sy'[p].pc # "position" /\ \A q \in Pods : q = p
  <2>1. \A rows : Pass(rows).pc # "position" BY DEF Pass
  <2> QED BY <1>0, <2>1 DEF SyncPosition, NextRow, Sync, TypeOK, OnePod
<1>6. Applied(o) BY <1>0, <1>2, <1>4, <1>5 DEF Applied, Owing
<1> QED BY <1>1, <1>6 DEF Sized

LEMMA HandlerApplies ==
  ASSUME OnePod, IInv, \A o \in Orders : Followed(o) /\ Sized(o), NEW h \in Handlers,
         HandlerPosition(h)
  PROVE  /\ hd[h].order \in Orders /\ Applied(hd[h].order)
         /\ trade[hd[h].order].qty = brk[hd[h].order].qty
<1> PICK o : o = hd[h].order OBVIOUS
<1>0. /\ HandlerInv(h) /\ TypeOK /\ hd[h].pc = "position" /\ UNCHANGED <<booked, sy>>
      /\ Handle(h, IdleHandler)
  BY DEF IInv, HandlerPosition
<1>1. o \in Orders /\ trade[o].status = "filled" /\ ~o.auto BY <1>0 DEF HandlerInv
<1>2. /\ \A k \in Handlers \ {h} : hd[k].order # o
      /\ \A p \in Pods : sy[p].pc \notin {"idle", "next"} => sy[p].order # o
  BY <1>0, ThreadHolds
<1>3. ~Carried(o) BY <1>0, <1>2 DEF Carried
<1>4. booked[o] # 0 BY <1>1, <1>3 DEF Followed, Owed
<1>5. hd'[h].pc = "idle" /\ \A k \in Handlers \ {h} : hd'[k] = hd[k]
  BY <1>0 DEF Handle, TypeOK, IdleHandler
<1>6. Applied(o) BY <1>0, <1>2, <1>4, <1>5 DEF Applied, Owing
<1>7. RowInv(o) /\ Sized(o) BY <1>1 DEF IInv
<1>8. brk[o].st # "none" BY <1>1, <1>7 DEF RowInv, Sized
<1> QED BY <1>1, <1>6, <1>7, <1>8 DEF Sized

\* Applying a fill takes the whole order out of transit.
LEMMA ApplyHeld ==
  ASSUME TypeOK, IsFiniteSet(Orders), IsFiniteSet(Agents), Held, NEW o \in Orders, Applied(o),
         NEW q, q = brk[o].qty, ApplyFill(o, q), UNCHANGED <<brk, held>>
  PROVE  Held'
<1> PICK got \in Nat : got = brk[o].got BY DEF TypeOK, BrokerOrder
<1> PICK size \in Nat : size = q BY DEF TypeOK, BrokerOrder
<1> PICK a \in Agents : a = o.agent BY OrderFields
<1> PICK s \in Symbols : s = o.symbol BY OrderFields
<1> PICK d \in Int : d = Shares(o, size) BY DeltaInt
<1> PICK n \in Nat : n = pos[a][s] BY DEF TypeOK
<1>1. o.side \in {"buy", "sell"} BY OrderFields
<1>2. /\ Transit'[o] = Transit[o] - d /\ Transit[o] \in Int
      /\ \A t \in Orders \ {o} : Transit'[t] = Transit[t]
  <2>1. Transit[o] = Shares(o, got) /\ Transit'[o] = Shares(o, got - size)
    BY DEF Transit, Applied
  <2>2. Shares(o, got - size) = Shares(o, got) - d BY SharesMinus
  <2>3. Shares(o, got) \in Int BY DeltaInt
  <2>4. \A t \in Orders \ {o} : Transit'[t] = Transit[t] BY DEF Transit, Applied
  <2> QED BY <2>1, <2>2, <2>3, <2>4
<1>3. o \in Of(s) BY DEF Of
<1>4. s \notin oversold' => pos'[a][s] = n + d
  <2>1. pos'[a][s] = IF o.side = "buy" THEN n + size ELSE IF n > size THEN n - size ELSE 0
    BY DEF ApplyFill, TypeOK
  <2>2. s \notin oversold' => ~(o.side = "sell" /\ n < size) BY DEF ApplyFill
  <2>3. CASE o.side = "buy" BY <2>1, <2>3 DEF Shares
  <2>4. CASE o.side = "sell"
    <3>1. d = -size BY <2>4 DEF Shares
    <3> QED BY <2>1, <2>2, <2>4, <3>1
  <2> QED BY <1>1, <2>3, <2>4
<1>5. \A b \in Agents : \A u \in Symbols : b # a \/ u # s => pos'[b][u] = pos[b][u]
  BY DEF ApplyFill, TypeOK
<1>6. oversold \subseteq oversold' BY DEF ApplyFill
<1>7. ASSUME NEW u \in Symbols \ oversold'
      PROVE  held'[u] = Total(Column(pos', u), Agents) + Total(Transit', Of(u))
  <2>1. /\ IsFiniteSet(Of(u)) /\ Ints(Transit, Of(u)) /\ Total(Transit, Of(u)) \in Int
        /\ Ints(Column(pos, u), Agents) /\ Total(Column(pos, u), Agents) \in Int
    BY OrderSums, ColumnSums DEF TypeOK
  <2>2. held'[u] = Total(Column(pos, u), Agents) + Total(Transit, Of(u)) BY <1>6 DEF Held
  <2>3. CASE u = s
    <3> PICK v \in Int : v = Transit[o] - d BY <1>2
    <3>1. Total(Transit', Of(u)) = Total(Transit, Of(u)) - Transit[o] + v
      <4>1. \A t \in Of(u) \ {o} : Transit'[t] = Transit[t] BY <1>2 DEF Of
      <4> QED BY <1>2, <1>3, <2>1, <2>3, <4>1, TotalChange
    <3>2. Total(Column(pos', u), Agents) = Total(Column(pos, u), Agents) - n + (n + d)
      <4>1. /\ Column(pos, u)[a] = n /\ Column(pos', u)[a] = n + d
            /\ \A b \in Agents \ {a} : Column(pos', u)[b] = Column(pos, u)[b]
        BY <1>4, <1>5, <2>3 DEF Column
      <4> QED BY <2>1, <4>1, TotalChange
    <3> PICK x \in Int, y \in Int : x = Total(Column(pos, u), Agents) /\ y = Total(Transit, Of(u))
      BY <2>1
    <3>3. (x - n) + (n + d) = x + d /\ x + y = (x + d) + (y - d) OBVIOUS
    <3>4. Total(Column(pos', u), Agents) = x + d BY <3>2, <3>3
    <3>5. Total(Transit', Of(u)) = y - d BY <1>2, <3>1
    <3>6. held'[u] = x + y BY <2>2
    <3> QED BY <3>3, <3>4, <3>5, <3>6
  <2>4. CASE u # s
    <3>1. Total(Transit', Of(u)) = Total(Transit, Of(u))
      <4>1. \A t \in Of(u) : Transit'[t] = Transit[t] BY <1>2, <2>4 DEF Of
      <4> QED BY <2>1, <4>1, TotalSame
    <3>2. Total(Column(pos', u), Agents) = Total(Column(pos, u), Agents)
      <4>1. \A b \in Agents : Column(pos', u)[b] = Column(pos, u)[b]
        BY <1>5, <2>4 DEF Column
      <4> QED BY <4>1, TotalSame
    <3> QED BY <2>2, <3>1, <3>2
  <2> QED BY <2>3, <2>4
<1> QED BY <1>7 DEF Held, Of, Column

LEMMA HeldStays ==
  ASSUME OnePod, NoLoss, IsFiniteSet(Orders), IsFiniteSet(Agents), IInv, Held,
         \A o \in Orders : Followed(o) /\ Sized(o), Step
  PROVE  Held'
<1>0. TypeOK BY DEF IInv
<1>1. ASSUME NEW p \in Pods, SyncPosition(p) PROVE Held'
  <2> PICK o : o = sy[p].order OBVIOUS
  <2>1. o \in Orders /\ Applied(o) /\ brk[o].got = brk[o].qty BY <1>1, SyncApplies
  <2>2. ApplyFill(o, brk[o].got) /\ UNCHANGED <<brk, held>> BY <1>1 DEF SyncPosition
  <2> QED BY <1>0, <2>1, <2>2, ApplyHeld
<1>2. ASSUME NEW h \in Handlers, HandlerPosition(h) PROVE Held'
  <2> PICK o : o = hd[h].order OBVIOUS
  <2>1. o \in Orders /\ Applied(o) /\ trade[o].qty = brk[o].qty BY <1>2, HandlerApplies
  <2>2. ApplyFill(o, trade[o].qty) /\ UNCHANGED <<brk, held>> BY <1>2 DEF HandlerPosition
  <2> QED BY <1>0, <2>1, <2>2, ApplyHeld
<1>3. CASE (\A p \in Pods : ~SyncPosition(p)) /\ \A h \in Handlers : ~HandlerPosition(h)
  <2>1. UNCHANGED <<pos, oversold>> /\ OwingSame BY <1>3, OwingStays
  <2>2. ASSUME UNCHANGED <<brk, held>> PROVE Held'
    <3>1. \A o \in Orders : Transit'[o] = Transit[o] BY <2>1, <2>2 DEF Transit, OwingSame
    <3>2. Transit' = [o \in Orders |-> Transit'[o]] /\ Transit = [o \in Orders |-> Transit[o]]
      BY DEF Transit
    <3>3. Transit' = Transit BY <3>1, <3>2
    <3> QED BY <2>1, <2>2, <3>3 DEF Held, Of, Column
  <2>3. ASSUME NEW h \in Handlers, Submit(h) PROVE Held'
    <3> PICK o : o = hd[h].order OBVIOUS
    <3>1. hd[h].pc = "submit" /\ o \in Orders /\ HandlerInv(h)
      BY <2>3, ThreadHolds DEF Submit, IInv
    <3>2. Owing(o)
      <4>1. trade[o].status = "accepted" /\ RowInv(o) /\ booked[o] \in Nat
        BY <3>1 DEF HandlerInv, IInv, TypeOK
      <4> QED BY <4>1 DEF RowInv, Owing
    <3> PICK q \in Nat : q = trade[o].qty BY <1>0, <3>1 DEF TypeOK, TradeRow
    <3>3. PICK outcome : Submitted(o, q, outcome) BY <2>3 DEF Submit
    <3>4. CASE \E st \in {"working", "filled"}, got \in Nat : Placed(o, q, outcome, st, got)
      <4> PICK st \in {"working", "filled"}, got \in Nat : Placed(o, q, outcome, st, got)
        BY <3>4
      <4>1. Execute(o, st, q, got) BY DEF Placed
      <4> QED BY <1>0, <2>1, <3>1, <3>2, <4>1, ExecuteHeld
    <3> QED BY <2>2, <3>1, <3>3, <3>4, SubmittedSteps
  <2>4. ASSUME NEW o \in Orders, BrokerFill(o) \/ BrokerCancel(o) PROVE Held'
    <3> PICK q \in Nat : q = brk[o].qty BY <1>0 DEF TypeOK, BrokerOrder
    <3>1. \E st : \E got \in Nat : Execute(o, st, q, got)
      <4>1. CASE BrokerFill(o) BY <4>1 DEF BrokerFill
      <4>2. CASE BrokerCancel(o)
        <5>1. PICK got \in brk[o].got .. q : Execute(o, "canceled", q, got)
          BY <4>2 DEF BrokerCancel
        <5>2. got \in Nat BY <1>0 DEF TypeOK, BrokerOrder
        <5> QED BY <5>1, <5>2
      <4> QED BY <2>4, <4>1, <4>2
    <3>2. PICK st : \E got \in Nat : Execute(o, st, q, got) BY <3>1
    <3> PICK got \in Nat : Execute(o, st, q, got) BY <3>2
    <3> QED BY <1>0, <2>1, ExecuteHeld
  <2> QED BY <1>3, <2>2, <2>3, <2>4
    DEF Step, HandlerStep, SyncStep, Gate, ReadClaims, Record, MarkFailed, Mark,
        HandlerCash, Propose, SyncBegin, SyncSkip, SyncRead, SyncFail,
        SyncAgent, SyncMark, SyncCash, Abort
<1> QED BY <1>1, <1>2, <1>3

\* What the positions of all agents come to, as a sum of a function's values.
LEMMA ColumnTotal ==
  \A q, s : MapThenSumSet(LAMBDA a : q[a][s], Agents) = Total(Column(q, s), Agents)
<1> SUFFICES ASSUME NEW q, NEW s
             PROVE  MapThenSumSet(LAMBDA a : q[a][s], Agents) = Total(Column(q, s), Agents)
  OBVIOUS
<1> DEFINE f == Column(q, s)
           Sum(g) == [t \in SUBSET Agents |-> IF t = {} THEN 0 ELSE f[First(t)] + g[t \ {First(t)}]]
           Fold(g) == [t \in SUBSET Agents |-> IF t = {} THEN 0
                         ELSE q[First(t)][s] + g[t \ {First(t)}]]
<1>1. \A t \in SUBSET Agents : t # {} => f[First(t)] = q[First(t)][s] BY FirstIn DEF Column
<1>2. \A g : Sum(g) = Fold(g) BY <1>1
<1>3. MapThenSumSet(LAMBDA a : q[a][s], Agents) = (CHOOSE g : g = Fold(g))[Agents]
  BY DEF MapThenSumSet, MapThenFoldSet, First
<1>4. Total(f, Agents) = (CHOOSE g : g = Sum(g))[Agents]
  BY DEF Total, MapThenSumSet, MapThenFoldSet, First
<1>5. (CHOOSE g : g = Sum(g)) = (CHOOSE g : g = Fold(g))
  <2> HIDE DEF Sum, Fold
  <2> QED BY <1>2
<1> HIDE DEF Sum, Fold, f
<1>6. MapThenSumSet(LAMBDA a : q[a][s], Agents) = Total(f, Agents) BY <1>3, <1>4, <1>5
<1> QED BY <1>6 DEF f

\* Missed as a sum of a function's values.
LEMMA MissedTotal ==
  \A s : Missed(s) = Total([o \in Orders |-> Shares(o, brk[o].got - Due(o))], Of(s))
<1> SUFFICES ASSUME NEW s
             PROVE  Missed(s) = Total([o \in Orders |-> Shares(o, brk[o].got - Due(o))], Of(s))
  OBVIOUS
<1> DEFINE f == [o \in Orders |-> Shares(o, brk[o].got - Due(o))]
           S == {o \in Orders : o.symbol = s}
           Sum(g) == [t \in SUBSET S |-> IF t = {} THEN 0 ELSE f[First(t)] + g[t \ {First(t)}]]
           Fold(g) == [t \in SUBSET S |-> IF t = {} THEN 0
                         ELSE Shares(First(t), brk[First(t)].got - Due(First(t)))
                                + g[t \ {First(t)}]]
<1>1. \A t \in SUBSET S :
        t # {} => f[First(t)] = Shares(First(t), brk[First(t)].got - Due(First(t)))
  BY FirstIn
<1>2. \A g : Sum(g) = Fold(g) BY <1>1
<1>3. Missed(s) = (CHOOSE g : g = Fold(g))[S]
  BY DEF Missed, MapThenSumSet, MapThenFoldSet, First
<1>4. Total(f, S) = (CHOOSE g : g = Sum(g))[S]
  BY DEF Total, MapThenSumSet, MapThenFoldSet, First
<1>5. (CHOOSE g : g = Sum(g)) = (CHOOSE g : g = Fold(g))
  <2> HIDE DEF Sum, Fold
  <2> QED BY <1>2
<1>6. Of(s) = S BY DEF Of
<1> HIDE DEF Sum, Fold
<1> QED BY <1>3, <1>4, <1>5, <1>6

HeldInv == IInv /\ Careful /\ (\A o \in Orders : Followed(o) /\ Sized(o)) /\ Held

LEMMA HeldNext ==
  ASSUME OnePod, NoLoss, IsFiniteSet(Orders), IsFiniteSet(Agents), HeldInv, [Next]_vars
  PROVE  HeldInv'
<1>1. IInv' BY NextSafe DEF HeldInv
<1>2. CASE UNCHANGED vars
  <2>1. Careful' /\ \A o \in Orders : Followed(o)' /\ Sized(o)'
    BY <1>2 DEF HeldInv, vars, Careful, Followed, Live, Traced, Owed, Carried, PendingOrders,
                Accepted, Sized
  <2>2. Held' BY <1>2 DEF HeldInv, vars, Held, Transit, Owing, Of, Column
  <2> QED BY <1>1, <2>1, <2>2 DEF HeldInv
<1>3. CASE Step
  <2>1. Careful' /\ \A o \in Orders : Followed(o)'
    BY <1>3, StepFollows DEF HeldInv, Following
  <2>2. \A o \in Orders : Sized(o)' BY <1>3, SizedStays DEF HeldInv
  <2>3. Held' BY <1>3, HeldStays DEF HeldInv
  <2> QED BY <1>1, <2>1, <2>2, <2>3 DEF HeldInv
<1>4. ~\E p \in Pods : Crash(p) BY DEF Crash, NoLoss
<1> QED BY <1>2, <1>3, <1>4 DEF Next

\* No share is lost or made up, under the same conditions: whenever nothing is in progress
\* the positions of all agents together are what the broker holds of a symbol, but for the
\* filled part of orders the ledger has as failed and the unfilled part of orders it has as
\* filled, for any number of agents, symbols, orders and threads.  A symbol is excepted once
\* an agent was filled on a sell of more than its row had: the code deletes that row.
THEOREM PositionsAreTheBrokers ==
  ASSUME OnePod, NoLoss, IsFiniteSet(Orders), IsFiniteSet(Agents)
  PROVE  Spec => []PositionsMatchBroker
<1>1. Init => HeldInv
  <2> SUFFICES ASSUME Init PROVE HeldInv OBVIOUS
  <2>1. IInv BY InitSafe
  <2>2. /\ \A o \in Orders : trade[o].status = "none" /\ brk[o].st = "none"
        /\ \A o \in Orders : brk[o].got = 0 /\ booked[o] = 0
        /\ \A h \in Handlers : hd[h].pc = "idle" /\ ~hd[h].filled
        /\ \A p \in Pods : sy[p].pc = "idle"
        /\ pos = StartQty /\ held = StartHeld
    BY DEF Init, NoTrade, IdleHandler, IdleSync, Pass
  <2>3. Held
    <3> SUFFICES ASSUME NEW s \in Symbols
                 PROVE  StartHeld[s] = Total(Column(StartQty, s), Agents) + Total(Transit, Of(s))
      BY <2>2 DEF Held
    <3>1. ASSUME NEW o \in Of(s) PROVE Transit[o] = 0
      <4>1. o \in Orders /\ brk[o].got = 0 /\ Owing(o) BY <2>2 DEF Of, Owing
      <4> PICK n \in Int : n = 0 OBVIOUS
      <4>2. -n = 0 BY MinusZero
      <4>3. Shares(o, brk[o].got) = 0 BY <4>1, <4>2 DEF Shares
      <4> QED BY <4>1, <4>3 DEF Transit
    <3>2. IsFiniteSet(Of(s)) BY <2>1, OrderSums DEF IInv
    <3>3. Total(Transit, Of(s)) = 0 BY <3>1, <3>2, TotalZero
    <3>4. StartHeld[s] = Total(Column(StartQty, s), Agents) BY StartAssumption, ColumnTotal
    <3>5. Total(Column(StartQty, s), Agents) \in Int BY ColumnSums, StartAssumption
    <3> QED BY <3>3, <3>4, <3>5
  <2> QED BY <2>1, <2>2, <2>3 DEF HeldInv, Careful, Followed, Live, Owed, Sized
<1>2. HeldInv => PositionsMatchBroker
  <2> SUFFICES ASSUME HeldInv, Quiet, NEW s \in Symbols \ oversold
               PROVE  held[s] = MapThenSumSet(LAMBDA a : pos[a][s], Agents) + Missed(s)
    BY DEF PositionsMatchBroker
  <2> DEFINE f == [o \in Orders |-> Shares(o, brk[o].got - Due(o))]
  <2>1. ASSUME NEW o \in Of(s) PROVE f[o] = Transit[o]
    <3>1. o \in Orders /\ booked[o] \in Nat /\ brk[o].got \in Nat
      BY DEF Of, HeldInv, IInv, TypeOK, BrokerOrder
    <3>2. Due(o) = IF booked[o] > 0 THEN brk[o].qty ELSE 0 BY <3>1, DueAtRest DEF HeldInv
    <3>3. Owing(o) <=> booked[o] = 0 BY DEF Owing, Quiet
    <3>4. brk[o].got - Due(o) = IF Owing(o) THEN brk[o].got ELSE brk[o].got - brk[o].qty
      BY <3>1, <3>2, <3>3
    <3> QED BY <3>1, <3>4 DEF Transit
  <2>2. IsFiniteSet(Of(s)) BY OrderSums DEF HeldInv, IInv
  <2> HIDE DEF f
  <2>3. Total(f, Of(s)) = Total(Transit, Of(s)) BY <2>1, <2>2, TotalSame
  <2>4. Missed(s) = Total(f, Of(s)) BY MissedTotal DEF f
  <2>5. held[s] = Total(Column(pos, s), Agents) + Missed(s) BY <2>3, <2>4 DEF HeldInv, Held
  <2> QED BY <2>5, ColumnTotal
<1>3. HeldInv /\ [Next]_vars => HeldInv' BY HeldNext
<1> QED BY <1>1, <1>2, <1>3, PTL DEF Spec

----------------------------------------------------------------------------
\* Refinement.

LEMMA LifeSteps ==
  ASSUME TypeOK, NEW o \in Orders, NEW row, trade' = [trade EXCEPT ![o] = row]
  PROVE  Life' = [Life EXCEPT ![o] = row.status]
BY DEF TypeOK, Life

Same == UNCHANGED <<Life, booked>>

LEMMA HandlerRefines == ASSUME IInv, NEW h \in Handlers, HandlerStep(h) PROVE Book!Next \/ Same
<1> DEFINE o == hd[h].order
<1>0. HandlerInv(h) /\ TypeOK /\ (hd[h].pc # "idle" => o \in Orders)
  BY DEF IInv, HandlerInv
<1>1. CASE Record(h)
  <2>1. PICK row : /\ trade' = [trade EXCEPT ![o] = row]
                   /\ row.status \in {"accepted", "rejected"}
    BY <1>1 DEF Record
  <2>2. hd[h].pc = "record" /\ UNCHANGED booked BY <1>1 DEF Record
  <2>3. o \in Orders /\ Life[o] = "none" BY <1>0, <2>2 DEF HandlerInv, Life
  <2>4. Life' = [Life EXCEPT ![o] = row.status] BY <1>0, <2>1, <2>3, LifeSteps
  <2>5. Book!Begin(o) BY <2>1, <2>2, <2>3, <2>4 DEF Book!Begin
  <2> QED BY <2>3, <2>5 DEF Book!Next
<1>2. CASE MarkFailed(h)
  <2> DEFINE row == [trade[o] EXCEPT !.status = "failed", !.id = FALSE]
  <2>1. hd[h].pc = "failed" /\ UNCHANGED booked /\ trade' = [trade EXCEPT ![o] = row]
    BY <1>2 DEF MarkFailed, UpdateTradeStatus
  <2>2. o \in Orders /\ Life[o] = "accepted" BY <1>0, <2>1 DEF HandlerInv, Life
  <2>3. row.status = "failed" BY <1>0, <2>2 DEF TypeOK, TradeRow
  <2> HIDE DEF row
  <2>4. Life' = [Life EXCEPT ![o] = "failed"]
    <3>1. Life' = [Life EXCEPT ![o] = row.status] BY <1>0, <2>1, <2>2, <2>3, LifeSteps
    <3> QED BY <2>2, <2>3, <3>1
  <2>5. Book!End(o) BY <2>1, <2>2, <2>4 DEF Book!End
  <2> QED BY <2>2, <2>5 DEF Book!Next
<1>3. CASE Mark(h)
  <2> DEFINE st == IF hd[h].filled THEN "filled" ELSE "accepted"
             row == [trade[o] EXCEPT !.status = st, !.id = TRUE]
  <2>1. hd[h].pc = "mark" /\ UNCHANGED booked /\ trade' = [trade EXCEPT ![o] = row]
    BY <1>3 DEF Mark, UpdateTradeStatus
  <2>2. o \in Orders /\ Life[o] = "accepted" BY <1>0, <2>1 DEF HandlerInv, Life
  <2>3. row.status = st /\ st \in {"accepted", "filled"} BY <1>0, <2>2 DEF TypeOK, TradeRow
  <2> HIDE DEF row, st
  <2>4. Life' = [Life EXCEPT ![o] = st] BY <1>0, <2>1, <2>2, <2>3, LifeSteps
  <2>5. CASE st = "filled"
    <3>1. Book!End(o) BY <2>1, <2>2, <2>4, <2>5 DEF Book!End
    <3> QED BY <2>2, <3>1 DEF Book!Next
  <2>6. CASE st = "accepted"
    BY <2>1, <2>2, <2>4, <2>6 DEF Same, Life
  <2> QED BY <2>3, <2>5, <2>6
<1>4. CASE HandlerCash(h)
  <2>1. /\ hd[h].pc = "cash" /\ UNCHANGED trade
        /\ booked' = [booked EXCEPT ![o] = @ + 1]
    BY <1>4 DEF HandlerCash, BookFill
  <2>2. o \in Orders /\ Life[o] = "filled" /\ booked[o] = 0
    BY <1>0, <2>1 DEF HandlerInv, Life
  <2>3. Book!Book(o) BY <2>1, <2>2 DEF Book!Book, Life
  <2> QED BY <2>2, <2>3 DEF Book!Next
<1> QED BY <1>1, <1>2, <1>3, <1>4
        DEF HandlerStep, Gate, ReadClaims, Submit, HandlerPosition, Same, Life

LEMMA SyncRefines == ASSUME IInv, NEW p \in Pods, SyncStep(p) PROVE Book!Next \/ Same
<1> DEFINE o == sy[p].order
<1>0. SyncInv(p) /\ TypeOK /\ sy[p].todo \subseteq Orders BY DEF IInv, TypeOK, SyncState
<1>1. ASSUME sy[p].pc \in {"fail", "mark"} PROVE o \in Orders /\ Life[o] = "accepted"
  BY <1>1, SyncOrder DEF PendingOrders, Accepted, Life
<1>2. CASE SyncFail(p)
  <2> DEFINE row == [trade[o] EXCEPT !.status = "failed", !.id = FALSE]
  <2>1. sy[p].pc = "fail" /\ UNCHANGED booked /\ trade' = [trade EXCEPT ![o] = row]
    BY <1>2 DEF SyncFail, UpdateTradeStatus
  <2>2. row.status = "failed" BY <1>0, <1>1, <2>1 DEF TypeOK, TradeRow
  <2> HIDE DEF row
  <2>3. Life' = [Life EXCEPT ![o] = "failed"]
    <3>1. Life' = [Life EXCEPT ![o] = row.status] BY <1>0, <1>1, <2>1, <2>2, LifeSteps
    <3> QED BY <2>2, <3>1
  <2>4. Book!End(o) BY <1>1, <2>1, <2>3 DEF Book!End
  <2> QED BY <1>1, <2>1, <2>4 DEF Book!Next
<1>3. CASE SyncMark(p)
  <2> DEFINE row == [trade[o] EXCEPT !.status = "filled", !.id = TRUE]
  <2>1. sy[p].pc = "mark" /\ UNCHANGED booked /\ trade' = [trade EXCEPT ![o] = row]
    BY <1>3 DEF SyncMark, UpdateTradeStatus
  <2>2. row.status = "filled" BY <1>0, <1>1, <2>1 DEF TypeOK, TradeRow
  <2> HIDE DEF row
  <2>3. Life' = [Life EXCEPT ![o] = "filled"]
    <3>1. Life' = [Life EXCEPT ![o] = row.status] BY <1>0, <1>1, <2>1, <2>2, LifeSteps
    <3> QED BY <2>2, <3>1
  <2>4. Book!End(o) BY <1>1, <2>1, <2>3 DEF Book!End
  <2> QED BY <1>1, <2>1, <2>4 DEF Book!Next
<1>4. CASE SyncCash(p)
  <2>1. /\ sy[p].pc = "cash" /\ UNCHANGED trade
        /\ booked' = [booked EXCEPT ![o] = @ + 1]
    BY <1>4 DEF SyncCash, BookFill
  <2>2. o \in Orders /\ Life[o] = "filled" /\ booked[o] = 0
    BY <1>0, <2>1 DEF SyncInv, Life
  <2>3. Book!Book(o) BY <2>1, <2>2 DEF Book!Book, Life
  <2> QED BY <2>2, <2>3 DEF Book!Next
<1> QED BY <1>2, <1>3, <1>4
        DEF SyncStep, SyncBegin, SyncSkip, SyncRead, SyncAgent, SyncPosition, Same, Life

LEMMA NextRefines == ASSUME IInv, [Next]_vars PROVE Book!Next \/ Same
<1>1. CASE \E h \in Handlers : HandlerStep(h) BY <1>1, HandlerRefines
<1>2. CASE \E p \in Pods : SyncStep(p) BY <1>2, SyncRefines
<1>3. CASE UNCHANGED <<trade, booked>> BY <1>3 DEF Same, Life
<1> QED BY <1>1, <1>2, <1>3
        DEF Next, Step, vars, Propose, BrokerFill, BrokerCancel, Abort, Crash

\* Every step of the ledger is a step of FillBook or changes nothing FillBook speaks of:
\* with one pod an order ends once and its fill is booked once.
THEOREM LedgerImplementsFillBook == ASSUME OnePod PROVE Spec => ImplementsFillBook
<1>1. Init => Book!Init BY DEF Init, Book!Init, Life, NoTrade
<1>2. IInv /\ [Next]_vars => [Book!Next]_<<Life, booked>> BY NextRefines DEF Same
<1> QED BY <1>1, <1>2, OnePodInvariant, PTL DEF Spec, ImplementsFillBook, Book!Spec
=============================================================================
