----------------------------- MODULE ExitLedger -----------------------------
(***************************************************************************)
(* OrderLedger composed with the Controller's own seller,                  *)
(* app.enforce_exits: every pass it compares each open position with what  *)
(* the broker holds (app._reconcile_position_qty) and sells the ones whose *)
(* stop is hit.  It shares the tables with /propose and sync_orders, takes *)
(* no account of sells already under way, and submits before it records.   *)
(*                                                                         *)
(* Whether a stop is hit is decided by the price alone here: `fallen` is   *)
(* the set of symbols whose price is at or under their stop.  How the stop *)
(* is computed is TrailingStop's.                                          *)
(***************************************************************************)
EXTENDS OrderLedger

CONSTANTS
  Events,       \* what may happen outside: EventKinds
  MaxCredited   \* bound on the units of a symbol credited as closed outside

EventKinds == {"manual_close", "positions_unreadable", "price_falls"}

ASSUME EventsAssumption == Events \subseteq EventKinds /\ MaxCredited \in Nat

VARIABLES
  ex,        \* the enforce_exits job of each pod
  fallen,    \* symbols whose stop is hit
  credited   \* history: units credited to balances as closed outside, for MaxCredited

exVars == <<ex, fallen, credited>>
xvars  == <<vars, exVars>>

\* a row of db.list_open_positions
Row == [agent : Agents, symbol : Symbols, qty : Nat]

ExitPC == {"idle", "list", "next", "credit", "clear", "trueup", "price",
           "agent", "submit", "record", "mark", "cash", "position"}

AutoOrders(r) == {o \in Orders : o.auto /\ o.agent = r.agent /\ o.symbol = r.symbol}

IdleExit == [pc |-> "idle", rows |-> {}, row |-> {}, bal |-> 0,
             seen |-> [s \in Symbols |-> 0], order |-> NoOrder, filled |-> FALSE]

\* row holds the one row being worked on; seen is broker_position_qtys' answer.
ExitTypeOK ==
  /\ ex \in [Pods -> [pc : ExitPC, rows : SUBSET Row, row : SUBSET Row, bal : Int,
                      seen : [Symbols -> Int], order : Orders \cup {NoOrder},
                      filled : BOOLEAN]]
  /\ fallen \subseteq Symbols
  /\ credited \in [Symbols -> Nat]

XInit ==
  /\ Init
  /\ ex = [p \in Pods |-> IdleExit]
  /\ fallen = {}
  /\ credited = [s \in Symbols |-> 0]

----------------------------------------------------------------------------
\* alpaca_client.broker_position_qtys: an empty dict when the call fails, which
\* the caller reads as "the broker holds none of it".
ExitBegin(p) ==
  /\ ex[p].pc = "idle"
  /\ \E seen \in {held} \cup IF "positions_unreadable" \in Events
                             THEN {[s \in Symbols |-> 0]} ELSE {} :
       ex' = [ex EXCEPT ![p].pc = "list", ![p].seen = seen]
  /\ UNCHANGED <<vars, fallen, credited>>

OpenRows ==
  {r \in {[agent |-> a, symbol |-> s, qty |-> pos[a][s]] : a \in Agents, s \in Symbols} :
     r.qty > 0}

\* db.list_open_positions
ExitList(p) ==
  /\ ex[p].pc = "list"
  /\ ex' = [ex EXCEPT ![p] = IF OpenRows = {} THEN IdleExit
                             ELSE [@ EXCEPT !.pc = "next", !.rows = OpenRows]]
  /\ UNCHANGED <<vars, fallen, credited>>

\* Mutant of ExitNext: a symbol the broker does not list is taken for one not to check.
ExitNextUnlisted(p, r) ==
  /\ ex[p].pc = "next" /\ r \in ex[p].rows
  /\ LET actual == ex[p].seen[r.symbol] IN
     ex' = [ex EXCEPT ![p].rows = @ \ {r}, ![p].row = {r}, ![p].bal = cash[r.agent],
                      ![p].pc = IF actual >= r.qty \/ actual <= 0 THEN "price" ELSE "trueup"]
  /\ UNCHANGED <<vars, fallen, credited>>

\* db.get_agent for the next row, and _reconcile_position_qty's comparison
ExitNext(p, r) ==
  /\ ex[p].pc = "next" /\ r \in ex[p].rows
  /\ LET actual == ex[p].seen[r.symbol] IN
     ex' = [ex EXCEPT ![p].rows = @ \ {r}, ![p].row = {r}, ![p].bal = cash[r.agent],
                      ![p].pc = IF actual >= r.qty THEN "price"
                                ELSE IF actual <= 0 THEN "credit" ELSE "trueup"]
  /\ UNCHANGED <<vars, fallen, credited>>

\* what the pass does when it is through with a row
RowDone(e) ==
  IF e.rows = {} THEN IdleExit
  ELSE [e EXCEPT !.pc = "next", !.row = {}, !.bal = 0, !.order = NoOrder, !.filled = FALSE]

\* gone at the broker: db.update_balance(balance read + proceeds)
ExitCredit(p, r) ==
  /\ ex[p].pc = "credit" /\ r \in ex[p].row
  /\ credited[r.symbol] + r.qty <= MaxCredited
  /\ cash' = [cash EXCEPT ![r.agent] = ex[p].bal + r.qty]
  /\ stale' = stale \cup {a \in {r.agent} : ex[p].bal # cash[a]}
  /\ credited' = [credited EXCEPT ![r.symbol] = @ + r.qty]
  /\ ex' = [ex EXCEPT ![p].pc = "clear"]
  /\ UNCHANGED <<trade, pos, oversold, brk, held, booked, hd, sy, fallen>>

\* db.set_position_qty(agent, symbol, 0)
ExitClear(p, r) ==
  /\ ex[p].pc = "clear" /\ r \in ex[p].row
  /\ pos' = [pos EXCEPT ![r.agent][r.symbol] = 0]
  /\ ex' = [ex EXCEPT ![p] = RowDone(@)]
  /\ UNCHANGED <<trade, cash, stale, oversold, brk, held, booked, hd, sy, fallen, credited>>

\* Mutant of ExitTrueUp: the pass goes on with the difference.
ExitTrueUpDifference(p, r) ==
  LET actual == ex[p].seen[r.symbol] IN
  /\ ex[p].pc = "trueup" /\ r \in ex[p].row
  /\ pos' = [pos EXCEPT ![r.agent][r.symbol] = IF @ = 0 THEN 0 ELSE actual]
  /\ ex' = [ex EXCEPT ![p].pc = "price", ![p].row = {[r EXCEPT !.qty = actual - r.qty]}]
  /\ UNCHANGED <<trade, cash, stale, oversold, brk, held, booked, hd, sy, fallen, credited>>

\* db.set_position_qty(agent, symbol, actual): an UPDATE, so a row that is gone stays gone
ExitTrueUp(p, r) ==
  LET actual == ex[p].seen[r.symbol] IN
  /\ ex[p].pc = "trueup" /\ r \in ex[p].row
  /\ pos' = [pos EXCEPT ![r.agent][r.symbol] = IF @ = 0 THEN 0 ELSE actual]
  /\ ex' = [ex EXCEPT ![p].pc = "price", ![p].row = {[r EXCEPT !.qty = actual]}]
  /\ UNCHANGED <<trade, cash, stale, oversold, brk, held, booked, hd, sy, fallen, credited>>

\* no price can be had, or the stop is not hit: on to the next row
ExitKeep(p, r) ==
  /\ ex[p].pc = "price" /\ r \in ex[p].row
  /\ r.symbol \notin fallen \/ "read_error" \in Faults
  /\ ex' = [ex EXCEPT ![p] = RowDone(@)]
  /\ UNCHANGED <<vars, fallen, credited>>

\* Mutant of ExitStop: the comparison is the wrong way round.
ExitStopAbove(p, r) ==
  /\ ex[p].pc = "price" /\ r \in ex[p].row
  /\ r.symbol \notin fallen
  /\ ex' = [ex EXCEPT ![p].pc = "agent"]
  /\ UNCHANGED <<vars, fallen, credited>>

\* the stop is hit
ExitStop(p, r) ==
  /\ ex[p].pc = "price" /\ r \in ex[p].row
  /\ r.symbol \in fallen
  /\ ex' = [ex EXCEPT ![p].pc = "agent"]
  /\ UNCHANGED <<vars, fallen, credited>>

\* db.get_agent, again
ExitAgent(p, r) ==
  /\ ex[p].pc = "agent" /\ r \in ex[p].row
  /\ ex' = [ex EXCEPT ![p].pc = "submit", ![p].bal = cash[r.agent]]
  /\ UNCHANGED <<vars, fallen, credited>>

\* alpaca_client.submit_market_order under a fresh exit-... id; a failure is logged
\* and the row left for the next pass
ExitSubmit(p, r, o) ==
  /\ ex[p].pc = "submit" /\ r \in ex[p].row
  /\ o \in AutoOrders(r) /\ brk[o].st = "none" /\ trade[o].status = "none"
  /\ \A q \in Pods : ex[q].order # o
  /\ \E outcome \in {"working", "filled", "failed"} :
       /\ Submitted(o, r.qty, outcome)
       /\ ex' = [ex EXCEPT ![p] = IF outcome = "failed" THEN RowDone(@)
                                  ELSE [@ EXCEPT !.pc = "record", !.order = o,
                                                 !.filled = outcome = "filled"]]
  /\ UNCHANGED <<trade, cash, stale, pos, oversold, booked, hd, sy, fallen, credited>>

\* db.record_trade, with alpaca_order_id still NULL
ExitRecord(p, r) ==
  /\ ex[p].pc = "record" /\ r \in ex[p].row
  /\ trade' = [trade EXCEPT ![ex[p].order] =
                 [status |-> IF ex[p].filled THEN "filled" ELSE "accepted",
                  id |-> FALSE, qty |-> r.qty]]
  /\ ex' = [ex EXCEPT ![p].pc = "mark"]
  /\ UNCHANGED <<cash, stale, pos, oversold, brk, held, booked, hd, sy, fallen, credited>>

\* Mutants of ExitMark: the order id is not stored; an order that filled at once stays
\* 'accepted' for the sync to book too.
ExitMarkWithoutId(p) ==
  /\ ex[p].pc = "mark"
  /\ UpdateTradeStatus(ex[p].order, IF ex[p].filled THEN "filled" ELSE "accepted", FALSE)
  /\ ex' = [ex EXCEPT ![p] = IF ex[p].filled THEN [@ EXCEPT !.pc = "cash"] ELSE RowDone(@)]
  /\ UNCHANGED <<cash, stale, pos, oversold, brk, held, booked, hd, sy, fallen, credited>>
ExitMarkAccepted(p) ==
  /\ ex[p].pc = "mark"
  /\ UpdateTradeStatus(ex[p].order, "accepted", TRUE)
  /\ ex' = [ex EXCEPT ![p] = IF ex[p].filled THEN [@ EXCEPT !.pc = "cash"] ELSE RowDone(@)]
  /\ UNCHANGED <<cash, stale, pos, oversold, brk, held, booked, hd, sy, fallen, credited>>

\* db.update_trade_status with the broker's order id
ExitMark(p) ==
  /\ ex[p].pc = "mark"
  /\ UpdateTradeStatus(ex[p].order, IF ex[p].filled THEN "filled" ELSE "accepted", TRUE)
  /\ ex' = [ex EXCEPT ![p] = IF ex[p].filled THEN [@ EXCEPT !.pc = "cash"] ELSE RowDone(@)]
  /\ UNCHANGED <<cash, stale, pos, oversold, brk, held, booked, hd, sy, fallen, credited>>

\* db.update_balance
ExitCash(p) ==
  /\ ex[p].pc = "cash"
  /\ BookFill(ex[p].order, ex[p].bal, trade[ex[p].order].qty)
  /\ ex' = [ex EXCEPT ![p].pc = "position"]
  /\ UNCHANGED <<trade, pos, oversold, brk, held, hd, sy, fallen, credited>>

\* db.apply_fill_to_position
ExitPosition(p) ==
  /\ ex[p].pc = "position"
  /\ ApplyFill(ex[p].order, trade[ex[p].order].qty)
  /\ ex' = [ex EXCEPT ![p] = RowDone(@)]
  /\ UNCHANGED <<trade, cash, stale, brk, held, booked, hd, sy, fallen, credited>>

ExitStep(p) ==
  \/ ExitBegin(p) \/ ExitList(p)
  \/ \E r \in ex[p].rows : ExitNext(p, r)
  \/ \E r \in ex[p].row :
       \/ ExitCredit(p, r) \/ ExitClear(p, r) \/ ExitTrueUp(p, r)
       \/ ExitKeep(p, r) \/ ExitStop(p, r) \/ ExitAgent(p, r)
       \/ (\E o \in Orders : ExitSubmit(p, r, o)) \/ ExitRecord(p, r)
  \/ ExitMark(p) \/ ExitCash(p) \/ ExitPosition(p)

----------------------------------------------------------------------------
\* Outside the Controller.

\* the owner sells all the broker holds of a symbol by hand
ManualClose(s) ==
  /\ "manual_close" \in Events
  /\ held[s] > 0 /\ Sellable(s) = held[s]
  /\ held' = [held EXCEPT ![s] = 0]
  /\ UNCHANGED <<trade, cash, stale, pos, oversold, brk, booked, hd, sy, ex, fallen, credited>>

\* the price of a symbol falls to its stop, or recovers
PriceMoves(s) ==
  /\ "price_falls" \in Events
  /\ fallen' = IF s \in fallen THEN fallen \ {s} ELSE fallen \cup {s}
  /\ UNCHANGED <<vars, ex, credited>>

XCrash(p) ==
  /\ Crash(p)
  /\ ex' = [ex EXCEPT ![p] = IdleExit]
  /\ UNCHANGED <<fallen, credited>>

\* a database call of the exit pass raises, and the pass ends
ExitAbort(p) ==
  /\ "db_error" \in Faults
  /\ ex[p].pc \notin {"idle", "submit"}
  /\ ex' = [ex EXCEPT ![p] = IdleExit]
  /\ UNCHANGED <<vars, fallen, credited>>

XNext ==
  \/ Step /\ UNCHANGED exVars
  \/ \E p \in Pods : ExitStep(p) \/ ExitAbort(p) \/ XCrash(p)
  \/ \E s \in Symbols : ManualClose(s) \/ PriceMoves(s)

XSpec == XInit /\ [][XNext]_xvars

\* enforce_exits runs again and again too, a price that can be had is not
\* unavailable for ever, nor does a broker that can take an order fail to for ever.
ExitTaken(p) ==
  \E r \in ex[p].row, o \in Orders : ExitSubmit(p, r, o) /\ ex'[p].pc = "record"

XFairness ==
  /\ Fairness
  /\ \A p \in Pods : WF_xvars(ExitStep(p))
  /\ \A p \in Pods : SF_xvars(\E r \in ex[p].row : ExitStop(p, r))
  /\ \A p \in Pods : SF_xvars(ExitTaken(p))

XFairSpec == XSpec /\ XFairness

----------------------------------------------------------------------------
\* Properties

\* With the exits' orders among them, a row still never leaves an ended status and a
\* fill is still written to a balance at most once (one pod), whatever crashes.
ExitsImplementFillBook == Book!Spec

\* A fill the broker made, of an exit order too, is booked, listed by pending_orders
\* or in the hand of a running thread.
NoExitForgotten ==
  \A o \in Orders : brk[o].st = "filled" /\ booked[o] = 0 =>
    o \in PendingOrders \/ InHand(o) \/ \E p \in Pods : ex[p].order = o

\* "the backstop that always fires regardless": a position whose stop stays hit is
\* sold at the broker and leaves the ledger, whatever else trades (README, Exits).
StopFires ==
  \A s \in Symbols :
    <>[](s \in fallen) => []<>(held[s] <= 0 /\ \A a \in Agents : pos[a][s] = 0)

\* A position the owner closed by hand does not stay in the ledger for ever, failing
\* to sell on every pass (app._reconcile_position_qty).
ClosedOutsideIsCleared ==
  \A s \in Symbols : <>[](held[s] <= 0) => <>[](\A a \in Agents : pos[a][s] = 0)
=============================================================================
