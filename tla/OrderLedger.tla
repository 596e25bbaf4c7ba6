---------------------------- MODULE OrderLedger ----------------------------
(***************************************************************************)
(* How the Controller's ledger learns what the broker did with an order.   *)
(*                                                                         *)
(* Three kinds of actor share the ledger tables: the Flask threads serving *)
(* POST /propose (app.propose), the scheduler's order sync                 *)
(* (app.sync_orders) and the broker, which fills and cancels orders on its *)
(* own.  Every db.* function is one transaction and every broker call is   *)
(* one round trip, so every one of them is one step here; what a handler   *)
(* read earlier it keeps in its own record and may use when it is stale.   *)
(*                                                                         *)
(* A unit of any symbol costs one unit of money throughout, so that        *)
(* quantities and money can be compared: price moves are TrailingStop's.   *)
(***************************************************************************)
EXTENDS Integers, FiniteSets, FiniteSetsExt

CONSTANTS
  Agents,      \* agent rows, all of status 'active'
  Symbols,
  Orders,      \* the orders that may be asked for: one id (uuid4) each
  NoOrder,
  Pods,        \* controller processes alive at once: 1, or 2 while a rollout overlaps
  Slots,       \* Flask threads of a pod
  StartCash,   \* current_balance of every agent at the start
  StartQty,    \* positions at the start: [Agents -> [Symbols -> Nat]]
  StartHeld,   \* ... and what the broker holds then: their sum
  Divisor,     \* 1 / max_position_pct
  Faults       \* which of the outcomes in FaultKinds the environment shows

FaultKinds == {"crash", "submit_error", "lost_reply", "instant_fill", "cancel",
               "partial_cancel", "part_reply", "late_reply", "read_error", "db_error"}

\* qty is what the agent asks for; auto marks the sells enforce_exits makes itself.
OrderShape == [agent : Agents, symbol : Symbols, side : {"buy", "sell"},
               qty : Nat, auto : BOOLEAN, n : Nat]

ASSUME OrdersAssumption == Orders \subseteq OrderShape /\ NoOrder \notin Orders
ASSUME StartAssumption ==
  /\ StartCash \in Nat
  /\ StartQty \in [Agents -> [Symbols -> Nat]]
  /\ StartHeld \in [Symbols -> Nat]
  /\ \A s \in Symbols : StartHeld[s] = MapThenSumSet(LAMBDA a : StartQty[a][s], Agents)
ASSUME DivisorAssumption == Divisor \in Nat \ {0}
ASSUME FaultsAssumption == Faults \subseteq FaultKinds

VARIABLES
  trade,    \* table trades: status, whether alpaca_order_id is set, qty
  cash,     \* agents.current_balance
  pos,      \* table positions: qty by agent and symbol
  brk,      \* the broker's record of an order: state, quantity, filled quantity
  held,     \* what the broker's account holds of a symbol
  booked,   \* history: how many times an order's fill was written to current_balance
  stale,    \* history: agents whose balance was written from one that was no longer theirs
  oversold, \* history: symbols of which a position was asked for more than it had
  hd,       \* Flask threads inside propose()
  sy        \* the sync_orders job of each pod

vars == <<trade, cash, pos, brk, held, booked, stale, oversold, hd, sy>>

Handlers == Pods \X Slots

IdleHandler == [pc |-> "idle", order |-> NoOrder, bal |-> 0, taken |-> FALSE,
                filled |-> FALSE]

\* a sync pass between two rows, `rows` left to do
Pass(rows) == [pc |-> IF rows = {} THEN "idle" ELSE "next", order |-> NoOrder,
               bal |-> 0, todo |-> rows]
IdleSync == Pass({})

HandlerPC == {"idle", "gate", "claims", "record", "submit", "mark", "failed",
              "cash", "position"}
SyncPC    == {"idle", "next", "fail", "agent", "mark", "cash", "position"}

NoTrade == [status |-> "none", id |-> FALSE, qty |-> 0]

TradeRow     == [status : {"none", "accepted", "rejected", "filled", "failed"},
                 id : BOOLEAN, qty : Nat]
BrokerOrder  == [st : {"none", "working", "filled", "canceled"}, qty : Nat, got : Nat]
HandlerState == [pc : HandlerPC, order : Orders \cup {NoOrder}, bal : Int,
                 taken : BOOLEAN, filled : BOOLEAN]
SyncState    == [pc : SyncPC, order : Orders \cup {NoOrder}, bal : Int, todo : SUBSET Orders]

TypeOK ==
  /\ trade \in [Orders -> TradeRow]
  /\ cash \in [Agents -> Int]
  /\ pos \in [Agents -> [Symbols -> Nat]]
  /\ brk \in [Orders -> BrokerOrder]
  /\ held \in [Symbols -> Int]
  /\ booked \in [Orders -> Nat]
  /\ stale \subseteq Agents
  /\ oversold \subseteq Symbols
  /\ hd \in [Handlers -> HandlerState]
  /\ sy \in [Pods -> SyncState]

Init ==
  /\ trade = [o \in Orders |-> NoTrade]
  /\ cash = [a \in Agents |-> StartCash]
  /\ pos = StartQty
  /\ brk = [o \in Orders |-> [st |-> "none", qty |-> 0, got |-> 0]]
  /\ held = StartHeld
  /\ booked = [o \in Orders |-> 0]
  /\ stale = {}
  /\ oversold = {}
  /\ hd = [h \in Handlers |-> IdleHandler]
  /\ sy = [p \in Pods |-> IdleSync]

----------------------------------------------------------------------------
\* The tables' queries and updates (db.py).

Accepted == {o \in Orders : trade[o].status = "accepted"}

\* Mutants of PendingOrders: rows already filled are listed again; sells are forgotten.
PendingOrdersAgain == {o \in Orders : trade[o].status \in {"accepted", "filled"} /\ trade[o].id}
PendingBuyOrders == {o \in Accepted : trade[o].id /\ o.side = "buy"}

\* db.pending_orders
PendingOrders == {o \in Accepted : trade[o].id}

\* db.agent_pending_buys
PendingBuys(a) == {o \in PendingOrders : o.agent = a /\ o.side = "buy"}

\* db.symbols_claimed_by_others, for orders less than a day old
ClaimedByOthers(a) ==
  {s \in Symbols : \/ \E b \in Agents \ {a} : pos[b][s] > 0
                   \/ \E o \in Accepted : o.agent # a /\ o.side = "buy" /\ o.symbol = s}

\* db.update_trade_status: the row's alpaca_order_id is overwritten with the argument
UpdateTradeStatus(o, status, id) ==
  trade' = [trade EXCEPT ![o].status = status, ![o].id = id]

\* the cash a fill of quantity q moves into the agent's balance
Delta(o, q) == IF o.side = "sell" THEN q ELSE -q

\* Mutant of BookFill: the sign of a sell is forgotten.
BookFillUnsigned(o, bal, q) ==
  /\ cash' = [cash EXCEPT ![o.agent] = bal - q]
  /\ booked' = [booked EXCEPT ![o] = @ + 1]
  /\ stale' = stale \cup {a \in {o.agent} : bal # cash[a]}

\* db.update_balance with a value computed from the balance read earlier
BookFill(o, bal, q) ==
  /\ cash' = [cash EXCEPT ![o.agent] = bal + Delta(o, q)]
  /\ booked' = [booked EXCEPT ![o] = @ + 1]
  /\ stale' = stale \cup {a \in {o.agent} : bal # cash[a]}

\* db.apply_fill_to_position: a sell of more than the row has deletes the row
ApplyFill(o, q) ==
  /\ pos' = [pos EXCEPT ![o.agent][o.symbol] =
               IF o.side = "buy" THEN @ + q ELSE IF @ > q THEN @ - q ELSE 0]
  /\ oversold' = oversold \cup {s \in {o.symbol} : o.side = "sell" /\ pos[o.agent][s] < q}

\* risk.validate_proposal's sizing of an approved proposal; 0 means not approved
SizedQty(o, bal) ==
  LET budget == IF bal > 0 THEN bal \div Divisor ELSE 0
  IN  IF o.side = "sell" \/ o.qty <= budget THEN o.qty ELSE budget

----------------------------------------------------------------------------
\* The broker.

\* the net quantity of an order, as the broker's account sees it
Shares(o, q) == IF o.side = "buy" THEN q ELSE -q

\* the broker refuses to sell what is not there or is already being sold
Sellable(s) ==
  held[s] - MapThenSumSet(LAMBDA o : brk[o].qty - brk[o].got,
                          {o \in Orders : /\ o.symbol = s
                                          /\ o.side = "sell"
                                          /\ brk[o].st = "working"})

BrokerTakes(o, q) == o.side = "sell" => q <= Sellable(o.symbol)

\* the order is now in state st, with got of its quantity filled in all
Execute(o, st, q, got) ==
  /\ brk' = [brk EXCEPT ![o] = [st |-> st, qty |-> q, got |-> got]]
  /\ held' = [held EXCEPT ![o.symbol] = @ + Shares(o, got - brk[o].got)]

BrokerFill(o) ==
  /\ brk[o].st = "working"
  /\ Execute(o, "filled", brk[o].qty, brk[o].qty)
  /\ UNCHANGED <<trade, cash, stale, pos, oversold, booked, hd, sy>>

\* canceled, expired, rejected or suspended, perhaps with a part of it filled
BrokerCancel(o) ==
  /\ brk[o].st = "working" /\ "cancel" \in Faults
  /\ \E got \in brk[o].got .. brk[o].qty :
       /\ got = brk[o].got \/ (got < brk[o].qty /\ "partial_cancel" \in Faults)
       /\ Execute(o, "canceled", brk[o].qty, got)
  /\ UNCHANGED <<trade, cash, stale, pos, oversold, booked, hd, sy>>

\* submit_market_order for an order of quantity q: what the broker did, what the caller
\* saw.  A reply with a filled_avg_price is taken for a full fill; one of an order that is
\* only part filled has it too.
Submitted(o, q, outcome) ==
  \/ /\ outcome = "working"
     /\ BrokerTakes(o, q)
     /\ Execute(o, "working", q, 0)
  \/ /\ outcome = "filled" /\ "instant_fill" \in Faults
     /\ BrokerTakes(o, q)
     /\ Execute(o, "filled", q, q)
  \/ /\ outcome = "filled" /\ "part_reply" \in Faults
     /\ BrokerTakes(o, q)
     /\ \E got \in 1 .. q - 1 : Execute(o, "working", q, got)
  \/ /\ outcome = "failed"
     /\ "submit_error" \in Faults \/ ~BrokerTakes(o, q)
     /\ UNCHANGED <<brk, held>>
  \/ /\ outcome = "failed" /\ "lost_reply" \in Faults
     /\ BrokerTakes(o, q)
     /\ Execute(o, "working", q, 0)

----------------------------------------------------------------------------
\* POST /propose.  The agent has one request outstanding, unless the reply is
\* later than the 15 seconds it waits (agent.run_cycle) and it asks again.

\* the thread goes on with e in hand
Handle(h, e) == hd' = [hd EXCEPT ![h] = e]

Busy(a) == \E h \in Handlers : hd[h].pc # "idle" /\ hd[h].order.agent = a

Unused(o) == trade[o].status = "none" /\ \A h \in Handlers : hd[h].order # o

\* db.get_agent
Propose(h, o) ==
  /\ hd[h].pc = "idle"
  /\ ~o.auto /\ Unused(o)
  /\ ~Busy(o.agent) \/ "late_reply" \in Faults
  /\ Handle(h, [IdleHandler EXCEPT !.pc = "gate", !.order = o, !.bal = cash[o.agent]])
  /\ UNCHANGED <<trade, cash, stale, pos, oversold, brk, held, booked, sy>>

\* Mutant of Gate: a buy is let through while another is pending.
GateOpen(h) ==
  /\ hd[h].pc = "gate"
  /\ \/ Handle(h, [hd[h] EXCEPT !.pc = "claims"])
     \/ Handle(h, IdleHandler)
  /\ UNCHANGED <<trade, cash, stale, pos, oversold, brk, held, booked, sy>>

\* db.agent_pending_buys.  No quote, a risk-off regime and a tripped cost
\* breaker end the request here too.
Gate(h) ==
  LET o == hd[h].order IN
  /\ hd[h].pc = "gate"
  /\ \/ /\ o.side = "buy" => PendingBuys(o.agent) = {}
        /\ Handle(h, [hd[h] EXCEPT !.pc = "claims"])
     \/ Handle(h, IdleHandler)
  /\ UNCHANGED <<trade, cash, stale, pos, oversold, brk, held, booked, sy>>

\* db.symbols_claimed_by_others
ReadClaims(h) ==
  LET o == hd[h].order IN
  /\ hd[h].pc = "claims"
  /\ Handle(h, [hd[h] EXCEPT !.pc = "record",
               !.taken = (o.side = "buy" /\ o.symbol \in ClaimedByOthers(o.agent))])
  /\ UNCHANGED <<trade, cash, stale, pos, oversold, brk, held, booked, sy>>

\* Mutants of Record: the status argument is left at its default; the row is left for later.
RecordProposed(h) ==
  /\ hd[h].pc = "record"
  /\ trade' = [trade EXCEPT ![hd[h].order] = [status |-> "proposed", id |-> FALSE, qty |-> 0]]
  /\ Handle(h, IdleHandler)
  /\ UNCHANGED <<cash, stale, pos, oversold, brk, held, booked, sy>>
RecordLater(h) ==
  /\ hd[h].pc = "record" /\ ~hd[h].taken
  /\ Handle(h, [hd[h] EXCEPT !.pc = "submit"])
  /\ UNCHANGED <<trade, cash, stale, pos, oversold, brk, held, booked, sy>>

\* risk.validate_proposal on what was read, then db.record_trade.  A proposal it
\* refuses is recorded 'rejected', and any proposal may be (stop-loss, dip-buy,
\* daily loss, day trades: RiskGate).
Record(h) ==
  LET o == hd[h].order
      q == SizedQty(o, hd[h].bal)
  IN
  /\ hd[h].pc = "record"
  /\ \/ /\ ~hd[h].taken /\ q > 0
        /\ trade' = [trade EXCEPT ![o] = [status |-> "accepted", id |-> FALSE, qty |-> q]]
        /\ Handle(h, [hd[h] EXCEPT !.pc = "submit"])
     \/ /\ trade' = [trade EXCEPT ![o] = [status |-> "rejected", id |-> FALSE, qty |-> 0]]
        /\ Handle(h, IdleHandler)
  /\ UNCHANGED <<cash, stale, pos, oversold, brk, held, booked, sy>>

\* alpaca_client.submit_market_order
Submit(h) ==
  LET o == hd[h].order IN
  /\ hd[h].pc = "submit"
  /\ \E outcome \in {"working", "filled", "failed"} :
       /\ Submitted(o, trade[o].qty, outcome)
       /\ Handle(h, [hd[h] EXCEPT !.pc = IF outcome = "failed" THEN "failed" ELSE "mark",
                                  !.filled = (outcome = "filled")])
  /\ UNCHANGED <<trade, cash, stale, pos, oversold, booked, sy>>

\* db.update_trade_status(client_order_id, "failed", reject_reason=...)
MarkFailed(h) ==
  /\ hd[h].pc = "failed"
  /\ UpdateTradeStatus(hd[h].order, "failed", FALSE)
  /\ Handle(h, IdleHandler)
  /\ UNCHANGED <<cash, stale, pos, oversold, brk, held, booked, sy>>

\* db.update_trade_status with the broker's order id
Mark(h) ==
  /\ hd[h].pc = "mark"
  /\ UpdateTradeStatus(hd[h].order, IF hd[h].filled THEN "filled" ELSE "accepted", TRUE)
  /\ Handle(h, IF hd[h].filled THEN [hd[h] EXCEPT !.pc = "cash"] ELSE IdleHandler)
  /\ UNCHANGED <<cash, stale, pos, oversold, brk, held, booked, sy>>

\* db.update_balance, from the balance read at the top of the request
HandlerCash(h) ==
  LET o == hd[h].order IN
  /\ hd[h].pc = "cash"
  /\ BookFill(o, hd[h].bal, trade[o].qty)
  /\ Handle(h, [hd[h] EXCEPT !.pc = "position"])
  /\ UNCHANGED <<trade, pos, oversold, brk, held, sy>>

\* db.apply_fill_to_position
HandlerPosition(h) ==
  LET o == hd[h].order IN
  /\ hd[h].pc = "position"
  /\ ApplyFill(o, trade[o].qty)
  /\ Handle(h, IdleHandler)
  /\ UNCHANGED <<trade, cash, stale, brk, held, booked, sy>>

HandlerStep(h) ==
  \/ Gate(h) \/ ReadClaims(h) \/ Record(h) \/ Submit(h) \/ MarkFailed(h)
  \/ Mark(h) \/ HandlerCash(h) \/ HandlerPosition(h)

----------------------------------------------------------------------------
\* sync_orders: one job per pod (max_instances=1), its pass over the rows
\* db.pending_orders returned when it began.  The order of the pass is left open.

Sync(p, e) == sy' = [sy EXCEPT ![p] = e]

SyncBegin(p) ==
  /\ sy[p].pc = "idle"
  /\ PendingOrders # {}
  /\ Sync(p, Pass(PendingOrders))
  /\ UNCHANGED <<trade, cash, stale, pos, oversold, brk, held, booked, hd>>

\* the pass goes on to the next row, or is over
NextRow(p, o) == Sync(p, Pass(sy[p].todo \ {o}))

\* alpaca_client.get_order answers that the order is still working, or cannot be read
SyncSkip(p, o) ==
  /\ sy[p].pc = "next" /\ o \in sy[p].todo
  /\ brk[o].st = "working" \/ "read_error" \in Faults
  /\ NextRow(p, o)
  /\ UNCHANGED <<trade, cash, stale, pos, oversold, brk, held, booked, hd>>

\* Mutant of SyncRead: a canceled order is taken for a filled one.
SyncReadAnyEnd(p, o) ==
  /\ sy[p].pc = "next" /\ o \in sy[p].todo
  /\ brk[o].st \in {"filled", "canceled"}
  /\ Sync(p, [sy[p] EXCEPT !.pc = "agent", !.order = o])
  /\ UNCHANGED <<trade, cash, stale, pos, oversold, brk, held, booked, hd>>

\* alpaca_client.get_order answers that the order is filled, or is dead
SyncRead(p, o) ==
  /\ sy[p].pc = "next" /\ o \in sy[p].todo
  /\ brk[o].st \in {"filled", "canceled"}
  /\ Sync(p, [sy[p] EXCEPT !.pc = IF brk[o].st = "filled" THEN "agent" ELSE "fail",
                           !.order = o])
  /\ UNCHANGED <<trade, cash, stale, pos, oversold, brk, held, booked, hd>>

SyncFail(p) ==
  /\ sy[p].pc = "fail"
  /\ UpdateTradeStatus(sy[p].order, "failed", FALSE)
  /\ NextRow(p, sy[p].order)
  /\ UNCHANGED <<cash, stale, pos, oversold, brk, held, booked, hd>>

\* db.get_agent
SyncAgent(p) ==
  /\ sy[p].pc = "agent"
  /\ Sync(p, [sy[p] EXCEPT !.pc = "mark", !.bal = cash[sy[p].order.agent]])
  /\ UNCHANGED <<trade, cash, stale, pos, oversold, brk, held, booked, hd>>

\* Mutant of SyncMark: the row is left 'accepted'.
SyncMarkLater(p) ==
  /\ sy[p].pc = "mark"
  /\ Sync(p, [sy[p] EXCEPT !.pc = "cash"])
  /\ UNCHANGED <<trade, cash, stale, pos, oversold, brk, held, booked, hd>>

SyncMark(p) ==
  /\ sy[p].pc = "mark"
  /\ UpdateTradeStatus(sy[p].order, "filled", TRUE)
  /\ Sync(p, [sy[p] EXCEPT !.pc = "cash"])
  /\ UNCHANGED <<cash, stale, pos, oversold, brk, held, booked, hd>>

SyncCash(p) ==
  LET o == sy[p].order IN
  /\ sy[p].pc = "cash"
  /\ BookFill(o, sy[p].bal, brk[o].got)
  /\ Sync(p, [sy[p] EXCEPT !.pc = "position"])
  /\ UNCHANGED <<trade, pos, oversold, brk, held, hd>>

\* Mutant of SyncPosition: the position is not updated.
SyncNoPosition(p) ==
  /\ sy[p].pc = "position"
  /\ NextRow(p, sy[p].order)
  /\ UNCHANGED <<trade, cash, stale, pos, oversold, brk, held, booked, hd>>

SyncPosition(p) ==
  LET o == sy[p].order IN
  /\ sy[p].pc = "position"
  /\ ApplyFill(o, brk[o].got)
  /\ NextRow(p, o)
  /\ UNCHANGED <<trade, cash, stale, brk, held, booked, hd>>

SyncStep(p) ==
  \/ SyncBegin(p) \/ SyncFail(p) \/ SyncAgent(p) \/ SyncMark(p)
  \/ SyncCash(p) \/ SyncPosition(p)
  \/ \E o \in Orders : SyncSkip(p, o) \/ SyncRead(p, o)

----------------------------------------------------------------------------
\* The pod dies between two steps (SIGKILL, node loss, rollout): every thread of
\* it is gone, the tables and the broker are as they were.  It restarts at once.
Crash(p) ==
  /\ "crash" \in Faults
  /\ hd' = [h \in Handlers |-> IF h[1] = p THEN IdleHandler ELSE hd[h]]
  /\ sy' = [sy EXCEPT ![p] = IdleSync]
  /\ UNCHANGED <<trade, cash, stale, pos, oversold, brk, held, booked>>

\* A database call raises: the transaction is rolled back, and the request, or the
\* whole sync pass, ends where it is while the pod goes on.
Abort ==
  /\ "db_error" \in Faults
  /\ \/ \E h \in Handlers : /\ hd[h].pc \notin {"idle", "submit"}
                             /\ Handle(h, IdleHandler)
                             /\ UNCHANGED sy
     \/ \E p \in Pods : /\ sy[p].pc \notin {"idle", "next"}
                         /\ Sync(p, IdleSync)
                         /\ UNCHANGED hd
  /\ UNCHANGED <<trade, cash, stale, pos, oversold, brk, held, booked>>

Step ==
  \/ Abort
  \/ \E h \in Handlers : HandlerStep(h)
  \/ \E h \in Handlers, o \in Orders : Propose(h, o)
  \/ \E p \in Pods : SyncStep(p)
  \/ \E o \in Orders : BrokerFill(o) \/ BrokerCancel(o)

Next == Step \/ \E p \in Pods : Crash(p)

Spec == Init /\ [][Next]_vars

\* The scheduler runs sync_orders again and again, a request runs to its end, the
\* broker ends every order, and an order that can be read is not unreadable for ever.
Fairness ==
  /\ \A h \in Handlers : WF_vars(HandlerStep(h))
  /\ \A p \in Pods : WF_vars(SyncStep(p))
  /\ \A p \in Pods, o \in Orders : SF_vars(SyncRead(p, o))
  /\ \A o \in Orders : WF_vars(BrokerFill(o) \/ BrokerCancel(o))

FairSpec == Spec /\ Fairness
----------------------------------------------------------------------------
\* Properties

\* The trades table and the balances implement FillBook: no matter how requests,
\* order syncs, crashes and lost replies interleave, a row never leaves an ended
\* status and a fill reaches the balance at most once (one pod).
Life == [o \in Orders |-> trade[o].status]
Book == INSTANCE FillBook WITH life <- Life
ImplementsFillBook == Book!Spec

\* Money is moved for an order only after the broker filled it, or filled a part of it and
\* said so in its reply, and after its row says so: whatever is lost or crashes, no balance
\* ever holds a fill of an order the broker did not begin to fill.
Real(o) ==
  \/ brk[o].st = "filled"
  \/ "part_reply" \in Faults /\ brk[o].got > 0
BookedIsReal ==
  \A o \in Orders : booked[o] > 0 => trade[o].status = "filled" /\ Real(o)

\* The ledger is written ahead of the broker: an order the broker knows has a row, so
\* that an order whose reply or whose process was lost can still be traced.
WrittenAhead == \A o \in Orders : brk[o].st # "none" => trade[o].status # "none"

\* Why the two above hold, in a form that every step preserves: what each program
\* point has made of its order's row, and that no two threads hold the same order.
RowInv(o) ==
  /\ trade[o].status = "none" => ~trade[o].id /\ booked[o] = 0
  /\ trade[o].status = "none" /\ ~o.auto => brk[o].st = "none"
  /\ booked[o] > 0 => trade[o].status = "filled" /\ booked[o] = 1
  /\ trade[o].status = "filled" => Real(o)

HandlerInv(h) ==
  LET e == hd[h]
      o == e.order
  IN  e.pc # "idle" =>
        /\ o \in Orders /\ ~o.auto
        /\ e.pc \in {"gate", "claims", "record"} => trade[o].status = "none"
        /\ e.pc \in {"submit", "failed", "mark"} => trade[o].status = "accepted" /\ ~trade[o].id
        /\ e.pc = "mark" /\ e.filled => Real(o)
        /\ e.pc \in {"cash", "position"} => trade[o].status = "filled"
        /\ e.pc = "cash" => booked[o] = 0

SyncInv(p) ==
  LET e == sy[p]
      o == e.order
  IN  /\ e.pc \notin {"idle", "next"} => o \in e.todo
      /\ \A t \in e.todo : t \in PendingOrders \/ (t = o /\ e.pc \in {"cash", "position"})
      /\ e.pc \in {"agent", "mark", "cash", "position"} => brk[o].st = "filled"
      /\ e.pc \in {"cash", "position"} => trade[o].status = "filled"
      /\ e.pc = "cash" => booked[o] = 0

\* a fill is in the hand of one thread only
Exclusive ==
  /\ \A h, k \in Handlers : hd[h].pc # "idle" /\ hd[k].order = hd[h].order => h = k
  /\ \A h \in Handlers, p \in Pods :
       sy[p].pc \in {"cash", "position"} /\ hd[h].pc # "idle" => hd[h].order # sy[p].order

IInv ==
  /\ TypeOK
  /\ \A o \in Orders : RowInv(o)
  /\ \A h \in Handlers : HandlerInv(h)
  /\ \A p \in Pods : SyncInv(p)
  /\ Exclusive

\* An order some running thread has in hand.
InHand(o) ==
  \/ \E h \in Handlers : hd[h].pc # "idle" /\ hd[h].order = o
  \/ \E p \in Pods : sy[p].pc \notin {"idle", "next"} /\ sy[p].order = o

\* "One order in flight per agent": an agent never has two buys at the broker that
\* its ledger row has not seen the end of (the pending-buys check in propose).
InFlight(a) ==
  {o \in Orders : /\ o.agent = a /\ o.side = "buy"
                  /\ brk[o].st \in {"working", "filled"} /\ trade[o].status # "filled"}
OneBuyInFlight == \A a \in Agents : Cardinality(InFlight(a)) <= 1

\* When nothing is in progress, every order the broker filled, and every order a reply
\* with a price was taken for filled, is in the agent's balance once and whole, and nothing
\* else is: no fill was lost, doubled or booked in another size, while requests and the
\* order sync write the same balance.  An agent is excepted once its balance was written
\* from a stale one, and only where a request may book its own fill (propose reads the
\* balance at its top and writes it after the fill).
Quiet ==
  /\ \A h \in Handlers : hd[h].pc = "idle"
  /\ \A p \in Pods : sy[p].pc = "idle"
  /\ \A o \in Orders : brk[o].st # "working"
  /\ PendingOrders = {}
OwnFills == {"instant_fill", "part_reply"} \cap Faults # {}
Due(o) == IF brk[o].st = "filled" \/ trade[o].status = "filled" THEN brk[o].qty ELSE 0
Moved(a) == MapThenSumSet(LAMBDA o : Delta(o, Due(o)), {o \in Orders : o.agent = a})
CashMatchesBroker ==
  Quiet => \A a \in Agents :
    cash[a] # StartCash + Moved(a) => OwnFills /\ a \in stale

\* ... and what the broker holds is what the positions of all agents say, but for what it
\* filled of an order the ledger has as failed, or did not fill of one the ledger has as
\* filled.  A symbol is excepted once a fill took more from a position than it had.
Missed(s) ==
  MapThenSumSet(LAMBDA o : Shares(o, brk[o].got - Due(o)), {o \in Orders : o.symbol = s})
PositionsMatchBroker ==
  Quiet => \A s \in Symbols \ oversold :
    held[s] = MapThenSumSet(LAMBDA a : pos[a][s], Agents) + Missed(s)

\* One agent per symbol: a symbol two agents hold or are buying is never allowed to
\* come about (risk.validate_proposal's diversification check).
Exposed(a, s) ==
  \/ pos[a][s] > 0
  \/ \E o \in Orders : /\ o.agent = a /\ o.symbol = s /\ o.side = "buy"
                       /\ brk[o].st \in {"working", "filled"} /\ booked[o] = 0
OneAgentPerSymbol ==
  \A s \in Symbols : \A a, b \in Agents : Exposed(a, s) /\ Exposed(b, s) => a = b

\* No fill is written to a balance twice.
BookedAtMostOnce == \A o \in Orders : booked[o] <= 1

\* Every fill at the broker reaches the balance in the end.
EveryFillBooked == \A o \in Orders : brk[o].st = "filled" ~> booked[o] > 0
=============================================================================
