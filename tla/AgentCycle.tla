----------------------------- MODULE AgentCycle -----------------------------
(***************************************************************************)
(* The agents' loop (agent.py) against the controller: the heartbeat that  *)
(* says whether to think and what is left of the account's daily budget of *)
(* model calls, the shortlist, the decision whether the model is worth     *)
(* asking, the call and its usage report, and the proposal.  Beside them   *)
(* run the cost breaker at the end of every reconcile pass and the         *)
(* periodic sync of what the model provider has really billed.             *)
(*                                                                         *)
(* The shortlist is one symbol and its price, in half steps of the agent's *)
(* fingerprint (one step is 2 %).  A holding is the band its change since  *)
(* entry lies in.  One call costs one unit, a closed trade makes or loses  *)
(* one.  What propose checks besides the regime and the breaker is         *)
(* OrderLedger's and RiskGate's: here any proposal may be turned down.     *)
(* Only a live account keeps the breaker's figures: on paper nothing reads *)
(* them.  Trades and usage rows may fall out of their trailing week; the   *)
(* bills of the whole behaviour lie in theirs, which is a day longer.      *)
(***************************************************************************)
EXTENDS Integers, FiniteSets

CONSTANTS
    Agents,
    DailyCallBudget,    \* daily_call_budget, one pool for the account
    MaxPrice,           \* prices are 0..MaxPrice
    Scenes              \* who is active, what they hold at first, whether the
                        \* account is live, and the bounds of a behaviour: its
                        \* model calls, and the events (moves of the market,
                        \* exits, bills, failing calls, lost quotes, restarts,
                        \* culls, days, weeks)

Bands == {"mid", "profit", "loss"}
Crossings == {"profit", "loss"}
NoPrice == -1

ASSUME CycleAssumption ==
    /\ IsFiniteSet(Agents)
    /\ {DailyCallBudget, MaxPrice} \subseteq Nat \ {0}
    /\ Scenes \subseteq [agents : SUBSET Agents, held : {"none"} \union Bands,
                          live : BOOLEAN, calls : Nat, events : Nat]

VARIABLES
    agent,      \* per pod: where run_cycle stands and its local variables
    context,    \* per pod: _last_context, lost with the process
    row,        \* per agent: its row, its position, its orders in flight, and
                \* its filled sells that are not yet booked (due)
    market,     \* the candidate's price, the session, the regime
    budget,     \* the api_usage table, and the calls really made
    books,      \* what was billed; of the trailing week the sells marked filled
                \* and the profit booked; all the sells there ever were (trades)
    breaker,    \* _cost_breaker and the pass that sets it
    left,       \* what the bounds leave
    seen        \* history: what the model has been shown of each agent

vars == <<agent, context, row, market, budget, books, breaker, left, seen>>

Event == left.events > 0 /\ left' = [left EXCEPT !.events = @ - 1]
Fine == left' = left

-----------------------------------------------------------------------------
(* What the calls of the day leave of the account's budget.                *)
\* Mutant of BudgetRemaining: off by one.
BudgetRemainingOver == budget.used <= DailyCallBudget

BudgetRemaining == budget.used < DailyCallBudget

(* Stocks are thought about while the exchange is open; an asset that      *)
(* always trades is a market that never closes.                            *)
ShouldThink == market.open

(* The bucket of a price: Python's round of its logarithm, half to even.   *)
Fingerprint(p) ==
    LET half == p % 2 IN
    IF half = 0 THEN p \div 2
    ELSE IF (p \div 2) % 2 = 0 THEN p \div 2 ELSE p \div 2 + 1

(* Spend as the controller sees it: the bills once there are any, of up to *)
(* eight calendar days, else an estimate from the calls reported in the    *)
(* last 168 hours.                                                         *)
\* Mutant of ActualCost: bills and estimate are added.
ActualCostBoth == books.billed + budget.logged

ActualCost == IF books.billed > 0 THEN books.billed ELSE budget.logged

Idle == [pc |-> "sleep", held |-> "none", price |-> 0, decision |-> "hold",
         refused |-> FALSE]
Fresh == [fingerprint |-> NoPrice, action |-> "hold", escalated |-> {}]

Go(a, pc) == agent' = [agent EXCEPT ![a].pc = pc]
Sleep(a) == agent' = [agent EXCEPT ![a] = Idle]

-----------------------------------------------------------------------------
(* One cycle of an agent.                                                  *)

(* The holding the controller reports: h, which is what it is unless its   *)
(* price cannot be had.  Then it is given as worth what was paid for it,   *)
(* and the agent will forget a crossing the holding is still past.         *)
Reports(a, h) ==
    \/ Fine /\ h = row[a].held /\ UNCHANGED seen
    \/ /\ Event
       /\ row[a].held \in Crossings /\ h = "mid"
       /\ seen' = [seen EXCEPT ![a].crossed = @ \union {row[a].held}]

(* POST /heartbeat.  A call that fails leaves the agent asleep for another *)
(* thirty seconds, which changes nothing here.                             *)
Heartbeat(a) ==
    /\ agent[a].pc = "sleep"
    /\ \/ /\ row[a].active /\ ShouldThink /\ BudgetRemaining
          /\ \E h \in Bands \union {"none"} :
                /\ Reports(a, h)
                /\ agent' = [agent EXCEPT ![a] =
                                [Idle EXCEPT !.pc = "screen", !.held = h]]
       \/ /\ ~(row[a].active /\ ShouldThink /\ BudgetRemaining)
          /\ agent' = [agent EXCEPT ![a] = [Idle EXCEPT !.refused = TRUE]]
          /\ UNCHANGED <<left, seen>>
    /\ UNCHANGED <<context, row, market, budget, books, breaker>>

(* _position_events: has the holding of this heartbeat newly crossed?      *)
\* Mutant of NewlyCrossed: only gains count.
NewlyCrossedUp(a) ==
    agent[a].held = "profit" /\ "profit" \notin context[a].escalated

NewlyCrossed(a) ==
    /\ agent[a].held \in Crossings
    /\ agent[a].held \notin context[a].escalated

\* Mutant of Escalated: nothing is remembered.
EscalatedForgotten(a) == {}

Escalated(a) ==
    CASE agent[a].held = "none" -> context[a].escalated
      [] agent[a].held = "mid" -> {}
      [] OTHER -> context[a].escalated \union {agent[a].held}

WorthAsking(a) ==
    \/ NewlyCrossed(a)
    \/ Fingerprint(market.price) # context[a].fingerprint
    \/ context[a].action # "hold"

(* GET /screen and _worth_asking.  A crossing is remembered here, before   *)
(* the model has been asked.                                               *)
Screen(a) ==
    /\ agent[a].pc = "screen"
    /\ \/ /\ Fine
          /\ context' = [context EXCEPT ![a].escalated = Escalated(a)]
          /\ IF WorthAsking(a)
               THEN agent' = [agent EXCEPT ![a] =
                              [@ EXCEPT !.pc = "ask", !.price = market.price]]
               ELSE Sleep(a)
          /\ seen' = IF NewlyCrossed(a)
                       THEN [seen EXCEPT ![a].crossed = @ \ {agent[a].held}] ELSE seen
       \/ Event /\ Sleep(a) /\ UNCHANGED <<context, seen>>
    /\ UNCHANGED <<row, market, budget, books, breaker>>

(* The model is asked about the shortlist and the holding of the heartbeat.*)
(* An answer cut short ("cut") lacks its action, its symbol, its quantity  *)
(* or its reasoning.                                                       *)
AskModel(a) ==
    /\ agent[a].pc = "ask"
    /\ \/ /\ left.calls > 0
          /\ left' = [left EXCEPT !.calls = @ - 1]
          /\ \E d \in {"hold", "buy", "sell", "cut"} :
                /\ agent' = [agent EXCEPT ![a] = [@ EXCEPT !.pc = "usage", !.decision = d]]
                /\ seen' = [seen EXCEPT ![a].heard = @ \union {agent[a].held},
                                        ![a].price = agent[a].price,
                                        ![a].news = @ /\ d = "cut"]
          /\ budget' = [budget EXCEPT !.spent = @ + 1, !.today = @ + 1]
       \/ /\ Event \/ (left.calls = 0 /\ Fine)
          /\ Sleep(a) /\ UNCHANGED budget
          /\ seen' = [seen EXCEPT ![a].unheard = @ \union {agent[a].held}]
    /\ UNCHANGED <<context, row, market, books, breaker>>

(* POST /usage writes the row the daily budget counts; a report that fails *)
(* is only logged.                                                         *)
ReportUsage(a) ==
    /\ agent[a].pc = "usage"
    /\ \/ /\ Fine
          /\ budget' = [budget EXCEPT !.used = @ + 1, !.logged = @ + 1]
       \/ Event /\ budget' = [budget EXCEPT !.lost = @ + 1]
    /\ Go(a, "settle")
    /\ UNCHANGED <<context, row, market, books, breaker, seen>>

\* Mutant of Holds: the early return is dropped.
HoldsNever(a) == FALSE

Holds(a) == agent[a].decision = "hold"

(* POST /decision (its failure is only logged), then the shortlist counts  *)
(* as answered, and a hold ends the cycle.  So does an answer cut short,   *)
(* whose missing field raises: it leaves the last action as it was.        *)
Settle(a) ==
    /\ agent[a].pc = "settle"
    /\ context' = [context EXCEPT
                     ![a].fingerprint = Fingerprint(agent[a].price),
                     ![a].action = IF Holds(a) THEN "hold" ELSE @]
    /\ IF Holds(a) \/ agent[a].decision = "cut" THEN Sleep(a) ELSE Go(a, "propose")
    /\ UNCHANGED <<row, market, budget, books, breaker, left, seen>>

(* propose lets an order through: the agent is active, the regime leaves   *)
(* some exposure, a buy finds the breaker untripped and no buy in flight.  *)
MayExecute(a) ==
    /\ row[a].active
    /\ ~market.braked
    /\ agent[a].decision = "buy" => ~breaker.tripped /\ row[a].buys = 0

Executed(a) ==
    /\ MayExecute(a)
    /\ row' = IF agent[a].decision = "buy"
                THEN [row EXCEPT ![a].buys = @ + 1] ELSE [row EXCEPT ![a].sells = @ + 1]

(* POST /propose.  A trade that was executed is remembered as the last     *)
(* action, and a refusal counts as a hold.  A reply that never comes (the  *)
(* agent waits fifteen seconds) leaves the last action as it was, one that *)
(* cannot be read counts as a hold; either way the trade may have gone     *)
(* through.                                                                *)
Propose(a) ==
    /\ agent[a].pc = "propose"
    /\ \/ /\ Fine /\ Executed(a)
          /\ context' = [context EXCEPT ![a].action = agent[a].decision]
          /\ seen' = [seen EXCEPT ![a].news = TRUE]
       \/ /\ Fine /\ UNCHANGED <<row, seen>>
          /\ context' = [context EXCEPT ![a].action = "hold"]
       \/ /\ Event
          /\ Executed(a) \/ UNCHANGED row
          /\ \/ UNCHANGED context /\ seen' = [seen EXCEPT ![a].news = TRUE]
             \/ context' = [context EXCEPT ![a].action = "hold"] /\ UNCHANGED seen
    /\ Sleep(a)
    /\ UNCHANGED <<market, budget, books, breaker>>

(* Kubernetes restarts a pod: its memory is gone, the usage of a call under*)
(* way is never reported.                                                  *)
Restart(a) ==
    /\ row[a].active /\ Event
    /\ Sleep(a)
    /\ context' = [context EXCEPT ![a] = Fresh]
    /\ budget' = IF agent[a].pc = "usage"
                   THEN [budget EXCEPT !.lost = @ + 1] ELSE budget
    /\ seen' = [seen EXCEPT ![a].price = NoPrice]
    /\ UNCHANGED <<row, market, books, breaker>>

AgentStep(a) ==
    \/ Heartbeat(a) \/ Screen(a) \/ AskModel(a)
    \/ ReportUsage(a) \/ Settle(a) \/ Propose(a)

-----------------------------------------------------------------------------
(* What happens to an agent's row and position meanwhile.                  *)

(* A fill is found: a buy is booked, a sell is first only marked filled.   *)
Filled(a) ==
    /\ \/ /\ row[a].buys > 0
          /\ row' = [row EXCEPT ![a].buys = @ - 1,
                                ![a].held = IF @ = "none" THEN "mid" ELSE @]
          /\ UNCHANGED books
       \/ /\ row[a].sells > 0
          /\ row' = [row EXCEPT ![a].sells = @ - 1, ![a].due = @ + 1]
          /\ books' = IF breaker.live
                        THEN [books EXCEPT !.sells = @ + 1, !.trades = @ + 1] ELSE books
    /\ UNCHANGED <<agent, context, market, budget, breaker, left, seen>>

(* apply_fill_to_position books a sell, two transactions after its mark:   *)
(* the position goes, and its profit or loss is written down.  A booking   *)
(* that fails is never repeated, a sell of nothing books nothing.          *)
Booked(a) ==
    /\ row[a].due > 0
    /\ \/ /\ Fine /\ row[a].held # "none"
          /\ row' = [row EXCEPT ![a].due = @ - 1, ![a].held = "none"]
          /\ IF breaker.live
               THEN \E gain \in {-1, 1} : books' = [books EXCEPT !.profit = @ + gain]
               ELSE UNCHANGED books
          /\ seen' = [seen EXCEPT ![a].heard = {}]
       \/ /\ IF row[a].held = "none" THEN Fine ELSE Event
          /\ row' = [row EXCEPT ![a].due = @ - 1]
          /\ UNCHANGED <<books, seen>>
    /\ UNCHANGED <<agent, context, market, budget, breaker>>

(* An order comes to nothing.                                              *)
OrderFails(a) ==
    /\ Event
    /\ \/ row[a].buys > 0 /\ row' = [row EXCEPT ![a].buys = @ - 1]
       \/ row[a].sells > 0 /\ row' = [row EXCEPT ![a].sells = @ - 1]
    /\ UNCHANGED <<agent, context, market, budget, books, breaker, seen>>

(* enforce_exits orders a position sold; a fill in its reply is marked and *)
(* booked like any other.                                                  *)
AutoExit(a) ==
    /\ Event
    /\ row[a].held # "none"
    /\ row' = [row EXCEPT ![a].sells = @ + 1]
    /\ UNCHANGED <<agent, context, market, budget, books, breaker, seen>>

(* reconcile culls an agent: its cycle goes on until the next heartbeat.   *)
Cull(a) ==
    /\ row[a].active /\ Event
    /\ row' = [row EXCEPT ![a].active = FALSE]
    /\ UNCHANGED <<agent, context, market, budget, books, breaker, seen>>

(* A holding's price takes it into another band.                           *)
BandMoves(a) ==
    /\ Event
    /\ row[a].held # "none"
    /\ \E b \in Bands \ {row[a].held} :
          /\ row' = [row EXCEPT ![a].held = b]
          /\ seen' = [seen EXCEPT ![a].crossed = @ \union ({b} \ {"mid"})]
    /\ UNCHANGED <<agent, context, market, budget, books, breaker>>

RowStep(a) ==
    \/ Filled(a) \/ Booked(a) \/ OrderFails(a)
    \/ AutoExit(a) \/ Cull(a) \/ BandMoves(a)

(* The candidate's price, the exchange's session or the regime changes.    *)
MarketMoves ==
    /\ Event
    /\ \/ \E p \in {market.price - 1, market.price + 1} \intersect (0..MaxPrice) :
             market' = [market EXCEPT !.price = p]
       \/ market' = [market EXCEPT !.open = ~@]
       \/ market' = [market EXCEPT !.braked = ~@]
    /\ UNCHANGED <<agent, context, row, budget, books, breaker, seen>>

(* CURRENT_DATE changes: the rows of yesterday no longer count.            *)
NewDay ==
    /\ Event
    /\ budget' = [budget EXCEPT !.used = 0, !.today = 0, !.lost = 0]
    /\ UNCHANGED <<agent, context, row, market, books, breaker, seen>>

-----------------------------------------------------------------------------
(* The cost breaker of a live account.                                     *)

(* sync_api_costs stores what the provider reports, which lags behind what *)
(* was spent; a report that fails stores nothing.                          *)
SyncApiCosts ==
    /\ breaker.live /\ Event
    /\ \E b \in books.billed + 1..budget.spent : books' = [books EXCEPT !.billed = b]
    /\ UNCHANGED <<agent, context, row, market, budget, breaker, seen>>

(* The trades and the usage rows so far are more than 168 hours old; the   *)
(* bills of their days still count.                                        *)
WeekPasses ==
    /\ breaker.live /\ Event
    /\ books' = [books EXCEPT !.sells = 0, !.profit = 0]
    /\ budget' = [budget EXCEPT !.logged = 0]
    /\ UNCHANGED <<agent, context, row, market, breaker, seen>>

Off == [pc |-> "idle", sells |-> 0, cost |-> 0, tripped |-> FALSE, live |-> breaker.live]

(* The end of a reconcile pass counts the sells ...                        *)
BreakerCounts ==
    /\ breaker.live /\ breaker.pc = "idle"
    /\ breaker' = [breaker EXCEPT !.pc = "cost", !.sells = books.sells]
    /\ UNCHANGED <<agent, context, row, market, budget, books, left, seen>>

(* ... adds up the spend ...                                               *)
BreakerCosts ==
    /\ breaker.pc = "cost"
    /\ breaker' = [breaker EXCEPT !.pc = "verdict", !.cost = ActualCost]
    /\ UNCHANGED <<agent, context, row, market, budget, books, left, seen>>

\* Mutant of Outrun: off by one.
OutrunLate == breaker.sells > 1 /\ breaker.cost > books.profit

Outrun == breaker.sells > 0 /\ breaker.cost > books.profit

(* ... then the profit booked, and sets the breaker; an exception in any   *)
(* of the three leaves it.                                                 *)
BreakerVerdict ==
    /\ breaker.pc \in {"cost", "verdict"}
    /\ \/ /\ breaker.pc = "verdict" /\ Fine
          /\ breaker' = [Off EXCEPT !.tripped = Outrun]
       \/ /\ Event
          /\ breaker' = [Off EXCEPT !.tripped = @ \/ breaker.tripped]
    /\ UNCHANGED <<agent, context, row, market, budget, books, seen>>

(* The controller restarts: the breaker is off until the next pass, and a  *)
(* sell that is marked filled but not booked never will be.                *)
ControllerRestart ==
    /\ Event
    /\ breaker' = Off
    /\ row' = [a \in Agents |-> [row[a] EXCEPT !.due = 0]]
    /\ UNCHANGED <<agent, context, market, budget, books, seen>>

BreakerStep == BreakerCounts \/ BreakerCosts \/ BreakerVerdict

-----------------------------------------------------------------------------
Init ==
    /\ agent = [a \in Agents |-> Idle]
    /\ context = [a \in Agents |-> Fresh]
    /\ \E scene \in Scenes :
          /\ left = [calls |-> scene.calls, events |-> scene.events]
          /\ row = [a \in Agents |-> [active |-> a \in scene.agents,
                 held |-> IF a \in scene.agents THEN scene.held ELSE "none",
                 buys |-> 0, sells |-> 0, due |-> 0]]
          /\ breaker = [pc |-> "idle", sells |-> 0, cost |-> 0, tripped |-> FALSE,
                        live |-> scene.live]
    /\ market = [price |-> 1, open |-> TRUE, braked |-> FALSE]
    /\ budget = [used |-> 0, logged |-> 0, spent |-> 0, today |-> 0, lost |-> 0]
    /\ books = [billed |-> 0, sells |-> 0, profit |-> 0, trades |-> 0]
    /\ seen = [a \in Agents |-> [crossed |-> {}, heard |-> {}, unheard |-> {},
                                 price |-> NoPrice, news |-> FALSE]]

Next ==
    \/ \E a \in Agents :
          AgentStep(a) \/ Restart(a) \/ RowStep(a)
    \/ MarketMoves \/ NewDay \/ WeekPasses \/ SyncApiCosts
    \/ BreakerStep \/ ControllerRestart

(* Each agent's loop and the reconcile job go on for ever.                 *)
Fairness ==
    /\ \A a \in Agents : WF_vars(AgentStep(a))
    /\ WF_vars(BreakerStep)

Spec == Init /\ [][Next]_vars /\ Fairness

-----------------------------------------------------------------------------
(* Type correctness of the agents' loop and of what it shares with the     *)
(* controller; an agent proposes only what a complete answer asked for.    *)
CycleTypeOK ==
    /\ agent \in [Agents -> [pc : {"sleep", "screen", "ask", "usage", "settle", "propose"},
                             held : Bands \union {"none"}, price : 0..MaxPrice,
                             decision : {"hold", "buy", "sell", "cut"}, refused : BOOLEAN]]
    /\ context \in [Agents -> [fingerprint : Int, action : {"hold", "buy", "sell"},
                               escalated : SUBSET Crossings]]
    /\ row \in [Agents -> [active : BOOLEAN, held : Bands \union {"none"},
                           buys : Nat, sells : Nat, due : Nat]]
    /\ market \in [price : 0..MaxPrice, open : BOOLEAN, braked : BOOLEAN]
    /\ budget \in [used : Nat, logged : Nat, spent : Nat, today : Nat, lost : Nat]
    /\ books \in [billed : Nat, sells : Nat, profit : Int, trades : Nat]
    /\ breaker \in [pc : {"idle", "cost", "verdict"}, sells : Nat, cost : Nat, tripped : BOOLEAN,
                    live : BOOLEAN]
    /\ left \in [calls : Nat, events : Nat]
    /\ seen \in [Agents -> [crossed : SUBSET Crossings, heard : SUBSET (Bands \union {"none"}),
                            unheard : SUBSET (Bands \union {"none"}),
                            price : {NoPrice} \union (0..MaxPrice), news : BOOLEAN]]
    /\ \A a \in Agents : agent[a].pc = "propose" => agent[a].decision \in {"buy", "sell"}

(* The daily budget is read by the heartbeat and spent some seconds later, *)
(* and every agent may stand between the two: the calls of a day exceed    *)
(* the budget by at most one for every agent but one, and by the calls     *)
(* whose report was lost.                                                  *)
BudgetBound ==
    budget.today <= DailyCallBudget + Cardinality(Agents) - 1 + budget.lost

(* The model is only paid again when there is something it has not been    *)
(* shown: another price, the first shortlist of the process, a proposal    *)
(* since its last complete answer that went through or got no reply, or a  *)
(* crossing of the holding.  The same crossing counts again when a quote   *)
(* was lost meanwhile, which makes the holding look flat.  A proposal that *)
(* was turned down is no reason, nor is an answer that was cut short.      *)
AsksForAReason ==
    [][\A a \in Agents :
         agent[a].pc = "screen" /\ agent'[a].pc = "ask" =>
           \/ agent[a].held \in seen[a].crossed
           \/ seen[a].price # market.price
           \/ seen[a].news]_vars

(* A holding that comes near its stop or its target, and is not marked as  *)
(* known, is shown to the model, unless it goes back, is sold, the agent   *)
(* is told not to think, or its call to the model failed.                  *)
EscalationIsHeard ==
    \A a \in Agents : \A b \in Crossings :
       (row[a].held = b /\ b \notin seen[a].heard /\ b \notin context[a].escalated)
         ~> \/ row[a].held # b
            \/ b \in seen[a].heard
            \/ agent[a].refused
            \/ b \in seen[a].unheard
            \/ left.calls = 0

(* The breaker never trips before a first trade has been closed, and only  *)
(* when more has really been spent than the trailing week has booked as    *)
(* profit, whatever falls between its three reads.  The profit of a sell   *)
(* that is marked filled and not yet booked is not in that figure, so a    *)
(* profitable trade may trip it for a pass.                                *)
TripsForCause ==
    [][~breaker.tripped /\ breaker'.tripped =>
          books.trades > 0 /\ budget.spent > books.profit]_vars

(* The breaker is kept in memory only: whatever restarts and failed passes *)
(* clear it, spend that outruns profit trips it again.                     *)
BreakerComesBack ==
    (breaker.live /\ books.sells > 0 /\ ActualCost > books.profit)
       ~> \/ breaker.tripped
          \/ ~(books.sells > 0 /\ ActualCost > books.profit)
=============================================================================
