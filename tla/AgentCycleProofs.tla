-------------------------- MODULE AgentCycleProofs --------------------------
(***************************************************************************)
(* How far the calls of a day can exceed the daily budget, that the cost   *)
(* breaker trips only for cause, and that the model is asked only about    *)
(* what it has not been shown: for any number of agents, any budget, any   *)
(* prices and any events.                                                  *)
(*                                                                         *)
(* BudgetBound is not inductive: it speaks of calls made, the heartbeat    *)
(* reads calls reported.  BudgetInv counts the agents in between: those the*)
(* heartbeat has let through and whose call is not yet reported (Admitted),*)
(* of which some have made it (Owing).                                     *)
(***************************************************************************)
EXTENDS AgentCycle, FiniteSetTheorems, TLAPS

Admitted == {a \in Agents : agent[a].pc \in {"screen", "ask", "usage"}}
Owing == {a \in Agents : agent[a].pc = "usage"}

(* What an agent's local variables are made of; their values do not matter.*)
AgentShape ==
    /\ agent = [a \in Agents |-> agent[a]]
    /\ \A a \in Agents :
          agent[a] = [pc |-> agent[a].pc, held |-> agent[a].held,
                      price |-> agent[a].price, decision |-> agent[a].decision,
                      refused |-> agent[a].refused]

BudgetShape == budget \in [used : Nat, logged : Nat, spent : Nat, today : Nat, lost : Nat]

Covered ==
    /\ budget.used + Cardinality(Admitted) <= DailyCallBudget + Cardinality(Agents) - 1
    /\ budget.today <= budget.used + Cardinality(Owing) + budget.lost
    /\ budget.logged + Cardinality(Owing) <= budget.spent

BudgetInv == AgentShape /\ BudgetShape /\ Covered

(* A step of one agent's loop leaves it at pc and every other where it is. *)
MovesTo(a, pc) ==
    /\ AgentShape'
    /\ agent'[a].pc = pc
    /\ \A b \in Agents \ {a} : agent'[b].pc = agent[b].pc

LEMMA BudgetPositive == DailyCallBudget \in Nat /\ DailyCallBudget > 0
BY CycleAssumption

LEMMA GoMoves ==
  ASSUME AgentShape, NEW a \in Agents, NEW pc, Go(a, pc) PROVE MovesTo(a, pc)
BY DEF AgentShape, Go, MovesTo

LEMMA SleepMoves ==
  ASSUME AgentShape, NEW a \in Agents, Sleep(a) PROVE MovesTo(a, "sleep")
BY DEF AgentShape, Sleep, Idle, MovesTo

(* An answer moves on one variable of the agent besides its place.         *)
LEMMA AnswerMoves ==
  ASSUME AgentShape, NEW a \in Agents, NEW pc, NEW x,
         \/ agent' = [agent EXCEPT ![a] = [@ EXCEPT !.pc = pc, !.price = x]]
         \/ agent' = [agent EXCEPT ![a] = [@ EXCEPT !.pc = pc, !.decision = x]]
  PROVE  MovesTo(a, pc)
<1>1. CASE agent' = [agent EXCEPT ![a] = [@ EXCEPT !.pc = pc, !.price = x]]
  <2>1. agent' = [b \in Agents |-> agent'[b]] BY <1>1 DEF AgentShape
  <2>2. agent'[a] = [pc |-> agent'[a].pc, held |-> agent'[a].held,
                    price |-> agent'[a].price, decision |-> agent'[a].decision,
                    refused |-> agent'[a].refused] /\ agent'[a].pc = pc
    <3>1. agent'[a] = [agent[a] EXCEPT !.pc = pc, !.price = x]
      BY <1>1 DEF AgentShape
    <3>2. agent[a] = [pc |-> agent[a].pc, held |-> agent[a].held,
                      price |-> agent[a].price, decision |-> agent[a].decision,
                      refused |-> agent[a].refused]
      BY DEF AgentShape
    <3> QED BY <3>1, <3>2
  <2>3. \A b \in Agents \ {a} : agent'[b] = agent[b] BY <1>1 DEF AgentShape
  <2>4. AgentShape' BY <2>1, <2>2, <2>3 DEF AgentShape
  <2> QED BY <2>2, <2>3, <2>4 DEF MovesTo
<1>2. CASE agent' = [agent EXCEPT ![a] = [@ EXCEPT !.pc = pc, !.decision = x]]
  <2>1. agent' = [b \in Agents |-> agent'[b]] BY <1>2 DEF AgentShape
  <2>2. agent'[a] = [pc |-> agent'[a].pc, held |-> agent'[a].held,
                    price |-> agent'[a].price, decision |-> agent'[a].decision,
                    refused |-> agent'[a].refused] /\ agent'[a].pc = pc
    <3>1. agent'[a] = [agent[a] EXCEPT !.pc = pc, !.decision = x]
      BY <1>2 DEF AgentShape
    <3>2. agent[a] = [pc |-> agent[a].pc, held |-> agent[a].held,
                      price |-> agent[a].price, decision |-> agent[a].decision,
                      refused |-> agent[a].refused]
      BY DEF AgentShape
    <3> QED BY <3>1, <3>2
  <2>3. \A b \in Agents \ {a} : agent'[b] = agent[b] BY <1>2 DEF AgentShape
  <2>4. AgentShape' BY <2>1, <2>2, <2>3 DEF AgentShape
  <2> QED BY <2>2, <2>3, <2>4 DEF MovesTo
<1> QED BY <1>1, <1>2

(* What a call and its report do to the counters.                          *)
LEMMA SpendShape ==
  ASSUME BudgetShape, budget' = [budget EXCEPT !.spent = @ + 1, !.today = @ + 1]
  PROVE  /\ BudgetShape' /\ budget'.today = budget.today + 1
         /\ budget'.used = budget.used /\ budget'.lost = budget.lost
         /\ budget'.logged = budget.logged /\ budget'.spent = budget.spent + 1
<1>1. budget' = [used |-> budget.used, logged |-> budget.logged, spent |-> budget.spent + 1,
                 today |-> budget.today + 1, lost |-> budget.lost]
  BY DEF BudgetShape
<1> QED BY <1>1 DEF BudgetShape

LEMMA LoggedShape ==
  ASSUME BudgetShape, budget' = [budget EXCEPT !.used = @ + 1, !.logged = @ + 1]
  PROVE  /\ BudgetShape' /\ budget'.used = budget.used + 1
         /\ budget'.today = budget.today /\ budget'.lost = budget.lost
         /\ budget'.logged = budget.logged + 1 /\ budget'.spent = budget.spent
<1>1. budget' = [used |-> budget.used + 1, logged |-> budget.logged + 1,
                 spent |-> budget.spent, today |-> budget.today, lost |-> budget.lost]
  BY DEF BudgetShape
<1> QED BY <1>1 DEF BudgetShape

(* Both counted sets are finite, and no larger than the set of agents.     *)
LEMMA CountedFinite ==
  /\ IsFiniteSet(Agents) /\ Cardinality(Agents) \in Nat
  /\ IsFiniteSet(Admitted) /\ Cardinality(Admitted) \in Nat
  /\ Cardinality(Admitted) <= Cardinality(Agents)
  /\ IsFiniteSet(Owing) /\ Cardinality(Owing) \in Nat
  /\ Cardinality(Owing) <= Cardinality(Admitted)
<1>1. IsFiniteSet(Agents) BY CycleAssumption
<1>2. Admitted \subseteq Agents /\ Owing \subseteq Admitted BY DEF Admitted, Owing
<1>3. IsFiniteSet(Admitted) /\ Cardinality(Admitted) <= Cardinality(Agents)
  BY <1>1, <1>2, FS_Subset
<1>4. IsFiniteSet(Owing) /\ Cardinality(Owing) <= Cardinality(Admitted)
  BY <1>2, <1>3, FS_Subset
<1> QED BY <1>1, <1>3, <1>4, FS_CardinalityType

(* The same of the state after a step.                                     *)
LEMMA CountedFiniteNext ==
  /\ IsFiniteSet(Admitted') /\ Cardinality(Admitted') \in Nat
  /\ Cardinality(Admitted') <= Cardinality(Agents)
  /\ IsFiniteSet(Owing') /\ Cardinality(Owing') \in Nat
  /\ Cardinality(Owing') <= Cardinality(Admitted')
<1>1. IsFiniteSet(Agents) BY CycleAssumption
<1>2. Admitted' \subseteq Agents /\ Owing' \subseteq Admitted' BY DEF Admitted, Owing
<1>3. IsFiniteSet(Admitted') /\ Cardinality(Admitted') <= Cardinality(Agents)
  BY <1>1, <1>2, FS_Subset
<1>4. IsFiniteSet(Owing') /\ Cardinality(Owing') <= Cardinality(Admitted')
  BY <1>2, <1>3, FS_Subset
<1> QED BY <1>1, <1>3, <1>4, FS_CardinalityType

(* Where no agent's place changes, neither set does.                       *)
LEMMA NobodyMoves ==
  ASSUME \A b \in Agents : agent'[b].pc = agent[b].pc
  PROVE  Admitted' = Admitted /\ Owing' = Owing
BY DEF Admitted, Owing

(* One agent's move adds it to a counted set or takes it out.              *)
LEMMA OneMoves ==
  ASSUME NEW a \in Agents, NEW pc, MovesTo(a, pc)
  PROVE  /\ pc \in {"screen", "ask", "usage"} => Admitted' = Admitted \union {a}
         /\ pc \notin {"screen", "ask", "usage"} => Admitted' = Admitted \ {a}
         /\ pc = "usage" => Owing' = Owing \union {a}
         /\ pc # "usage" => Owing' = Owing \ {a}
BY DEF MovesTo, Admitted, Owing

(* Giving up: the agent leaves Admitted, and Owing if it was not there.    *)
LEMMA Withdraws ==
  ASSUME NEW a \in Agents, NEW pc, MovesTo(a, pc), pc \notin {"screen", "ask", "usage"}
  PROVE  /\ Cardinality(Admitted') =
              Cardinality(Admitted) - (IF a \in Admitted THEN 1 ELSE 0)
         /\ Cardinality(Owing') = Cardinality(Owing) - (IF a \in Owing THEN 1 ELSE 0)
<1>1. Admitted' = Admitted \ {a} /\ Owing' = Owing \ {a} BY OneMoves
<1>2. /\ Cardinality(Admitted \ {a}) =
           IF a \in Admitted THEN Cardinality(Admitted) - 1 ELSE Cardinality(Admitted)
      /\ Cardinality(Owing \ {a}) =
           IF a \in Owing THEN Cardinality(Owing) - 1 ELSE Cardinality(Owing)
  BY CountedFinite, FS_RemoveElement
<1> QED BY <1>1, <1>2, CountedFinite

-----------------------------------------------------------------------------
LEMMA BudgetInit == Init => BudgetInv
<1> SUFFICES ASSUME Init PROVE BudgetInv OBVIOUS
<1>1. AgentShape BY DEF Init, Idle, AgentShape
<1>2. BudgetShape BY DEF Init, BudgetShape
<1>3. Admitted = {} /\ Owing = {} BY DEF Init, Idle, Admitted, Owing
<1>4. Cardinality(Admitted) = 0 /\ Cardinality(Owing) = 0 BY <1>3, FS_EmptySet
<1> QED
  <2>1. /\ budget.used = 0 /\ budget.today = 0 /\ budget.lost = 0
        /\ budget.logged = 0 /\ budget.spent = 0
    BY DEF Init
  <2> QED BY <1>1, <1>2, <1>4, <2>1, CountedFinite, BudgetPositive DEF BudgetInv, Covered

(* An agent refused by its heartbeat, and one it lets through.             *)
Refused == [Idle EXCEPT !.refused = TRUE]
Awake(h) == [Idle EXCEPT !.pc = "screen", !.held = h]

LEMMA RefusedFields ==
  /\ Refused = [pc |-> Refused.pc, held |-> Refused.held, price |-> Refused.price,
                decision |-> Refused.decision, refused |-> Refused.refused]
  /\ Refused.pc = "sleep" /\ Refused.held = "none" /\ Refused.price = 0
  /\ Refused.decision = "hold" /\ Refused.refused = TRUE
<1>1. PICK r, w : r = Idle /\ w = Refused OBVIOUS
<1>2. r = [pc |-> "sleep", held |-> "none", price |-> 0, decision |-> "hold",
           refused |-> FALSE]
  BY <1>1 DEF Idle
<1>3. w = [r EXCEPT !.refused = TRUE] BY <1>1 DEF Refused
<1>4. /\ w = [pc |-> w.pc, held |-> w.held, price |-> w.price,
              decision |-> w.decision, refused |-> w.refused]
      /\ w.pc = "sleep" /\ w.held = "none" /\ w.price = 0
      /\ w.decision = "hold" /\ w.refused = TRUE
  BY <1>2, <1>3
<1> QED BY <1>1, <1>4

LEMMA AwakeFields ==
  ASSUME NEW h
  PROVE  /\ Awake(h) = [pc |-> Awake(h).pc, held |-> Awake(h).held,
                        price |-> Awake(h).price, decision |-> Awake(h).decision,
                        refused |-> Awake(h).refused]
         /\ Awake(h).pc = "screen" /\ Awake(h).held = h /\ Awake(h).price = 0
         /\ Awake(h).decision = "hold" /\ Awake(h).refused = FALSE
<1>1. PICK r, w : r = Idle /\ w = Awake(h) OBVIOUS
<1>2. r = [pc |-> "sleep", held |-> "none", price |-> 0, decision |-> "hold",
           refused |-> FALSE]
  BY <1>1 DEF Idle
<1>3. w = [r EXCEPT !.pc = "screen", !.held = h] BY <1>1 DEF Awake
<1>4. /\ w = [pc |-> w.pc, held |-> w.held, price |-> w.price,
              decision |-> w.decision, refused |-> w.refused]
      /\ w.pc = "screen" /\ w.held = h /\ w.price = 0
      /\ w.decision = "hold" /\ w.refused = FALSE
  BY <1>2, <1>3
<1> QED BY <1>1, <1>4

(* The holding a heartbeat lets an agent through with.                     *)
LEMMA HeartbeatWakes ==
  ASSUME NEW a \in Agents, Heartbeat(a), row[a].active /\ ShouldThink /\ BudgetRemaining
  PROVE  \E h \in Bands \union {"none"} :
            Reports(a, h) /\ agent' = [agent EXCEPT ![a] = Awake(h)]
BY DEF Heartbeat, Awake

LEMMA HeartbeatKeeps ==
  ASSUME BudgetInv, NEW a \in Agents, Heartbeat(a) PROVE BudgetInv'
<1>1. a \notin Admitted /\ a \notin Owing
  BY DEF Heartbeat, Admitted, Owing
<1>2. BudgetShape' /\ budget' = budget BY DEF Heartbeat, BudgetInv, BudgetShape
<1>3. CASE row[a].active /\ ShouldThink /\ BudgetRemaining
  <2>1. MovesTo(a, "screen")
    <3>0. PICK h \in Bands \union {"none"} : agent' = [agent EXCEPT ![a] = Awake(h)]
      BY <1>3, HeartbeatWakes
    <3>1. PICK w : w = Awake(h) OBVIOUS
    <3>2. agent' = [agent EXCEPT ![a] = w] BY <3>0, <3>1
    <3>3. /\ w = [pc |-> w.pc, held |-> w.held, price |-> w.price,
                  decision |-> w.decision, refused |-> w.refused]
          /\ w.pc = "screen"
      BY <3>1, AwakeFields
    <3> QED BY <3>2, <3>3 DEF BudgetInv, AgentShape, MovesTo
  <2>2. Owing' = Owing BY <1>1, <2>1, OneMoves
  <2>3. budget.used + 1 <= DailyCallBudget
    BY <1>3, CycleAssumption DEF BudgetRemaining, BudgetInv, BudgetShape
  <2> QED
    BY <1>2, <2>1, <2>2, <2>3, CountedFinite, CountedFiniteNext, BudgetPositive
    DEF BudgetInv, BudgetShape, Covered, MovesTo
<1>4. CASE ~(row[a].active /\ ShouldThink /\ BudgetRemaining)
  <2>1. MovesTo(a, "sleep")
    BY <1>4 DEF Heartbeat, BudgetInv, AgentShape, Idle, MovesTo
  <2>2. Owing' = Owing /\ Admitted' = Admitted BY <1>1, <2>1, OneMoves
  <2> QED BY <1>2, <2>1, <2>2 DEF BudgetInv, Covered, MovesTo
<1> QED BY <1>3, <1>4

(* A step that leaves the budget alone and lets an agent who owes no       *)
(* report withdraw, or stay admitted.                                      *)
LEMMA FreeMoveKeeps ==
  ASSUME BudgetInv, NEW a \in Agents, NEW pc, MovesTo(a, pc), budget' = budget,
         agent[a].pc # "usage",
         \/ pc \notin {"screen", "ask", "usage"}
         \/ pc \in {"screen", "ask"} /\ agent[a].pc = "screen"
  PROVE  BudgetInv'
<1>0. a \notin Owing BY DEF Owing
<1>1. CASE pc \notin {"screen", "ask", "usage"}
  BY <1>0, <1>1, Withdraws, CountedFinite, BudgetPositive
  DEF BudgetInv, BudgetShape, Covered, MovesTo
<1>2. CASE pc \in {"screen", "ask"} /\ agent[a].pc = "screen"
  <2>1. a \in Admitted BY <1>2 DEF Admitted
  <2>2. Admitted' = Admitted \union {a} /\ Owing' = Owing \ {a} BY <1>2, OneMoves
  <2>3. Admitted' = Admitted /\ Owing' = Owing BY <1>0, <2>1, <2>2
  <2> QED BY <2>3 DEF BudgetInv, BudgetShape, Covered, MovesTo
<1> QED BY <1>1, <1>2

LEMMA ScreenKeeps ==
  ASSUME BudgetInv, NEW a \in Agents, Screen(a) PROVE BudgetInv'
<1>1. budget' = budget /\ agent[a].pc = "screen" BY DEF Screen
<1>2. MovesTo(a, "ask") \/ MovesTo(a, "sleep")
  <2>1. CASE Sleep(a) BY <2>1, SleepMoves DEF BudgetInv
  <2>2. CASE agent' = [agent EXCEPT ![a] = [@ EXCEPT !.pc = "ask", !.price = market.price]]
    BY <2>2, AnswerMoves DEF BudgetInv
  <2> QED BY <2>1, <2>2 DEF Screen
<1> QED BY <1>1, <1>2, FreeMoveKeeps

LEMMA AskModelKeeps ==
  ASSUME BudgetInv, NEW a \in Agents, AskModel(a) PROVE BudgetInv'
<1>0. agent[a].pc = "ask" /\ a \in Admitted /\ a \notin Owing
  BY DEF AskModel, Admitted, Owing
<1>1. CASE Sleep(a) /\ budget' = budget
  BY <1>0, <1>1, SleepMoves, FreeMoveKeeps DEF BudgetInv
<1>2. ASSUME NEW d \in {"hold", "buy", "sell", "cut"},
             agent' = [agent EXCEPT ![a] = [@ EXCEPT !.pc = "usage", !.decision = d]],
             budget' = [budget EXCEPT !.spent = @ + 1, !.today = @ + 1]
      PROVE  BudgetInv'
  <2>1. MovesTo(a, "usage") BY <1>2, AnswerMoves DEF BudgetInv
  <2>2. Admitted' = Admitted /\ Owing' = Owing \union {a} BY <1>0, <2>1, OneMoves
  <2>3. Cardinality(Owing') = Cardinality(Owing) + 1
    BY <1>0, <2>2, CountedFinite, FS_AddElement
  <2>4. /\ BudgetShape' /\ budget'.today = budget.today + 1
        /\ budget'.used = budget.used /\ budget'.lost = budget.lost
        /\ budget'.logged = budget.logged /\ budget'.spent = budget.spent + 1
    BY <1>2, SpendShape DEF BudgetInv
  <2> QED
    BY <2>1, <2>2, <2>3, <2>4, CountedFinite DEF BudgetInv, BudgetShape, Covered, MovesTo
<1> QED BY <1>1, <1>2 DEF AskModel

(* An agent that owes a report leaves both sets: the report arrives, or is *)
(* counted as lost.                                                        *)
LEMMA SettlesKeeps ==
  ASSUME BudgetInv, NEW a \in Agents, NEW pc, MovesTo(a, pc),
         pc \notin {"screen", "ask", "usage"}, agent[a].pc = "usage",
         \/ budget' = [budget EXCEPT !.used = @ + 1, !.logged = @ + 1]
         \/ budget' = [budget EXCEPT !.lost = @ + 1]
  PROVE  BudgetInv'
<1>1. a \in Admitted /\ a \in Owing BY DEF Admitted, Owing
<1>2. /\ Cardinality(Admitted') = Cardinality(Admitted) - 1
      /\ Cardinality(Owing') = Cardinality(Owing) - 1
  BY <1>1, Withdraws
<1>3. /\ BudgetShape' /\ budget'.today = budget.today
      /\ budget'.spent = budget.spent
      /\ \/ /\ budget'.used = budget.used + 1 /\ budget'.lost = budget.lost
            /\ budget'.logged = budget.logged + 1
         \/ /\ budget'.used = budget.used /\ budget'.lost = budget.lost + 1
            /\ budget'.logged = budget.logged
  <2>1. CASE budget' = [budget EXCEPT !.used = @ + 1, !.logged = @ + 1]
    BY <2>1, LoggedShape DEF BudgetInv
  <2>2. CASE budget' = [budget EXCEPT !.lost = @ + 1]
    BY <2>2 DEF BudgetInv, BudgetShape
  <2> QED BY <2>1, <2>2
<1> QED
  BY <1>2, <1>3, CountedFinite, BudgetPositive DEF BudgetInv, BudgetShape, Covered, MovesTo

LEMMA ReportUsageKeeps ==
  ASSUME BudgetInv, NEW a \in Agents, ReportUsage(a) PROVE BudgetInv'
<1>1. MovesTo(a, "settle") BY GoMoves DEF ReportUsage, BudgetInv
<1> QED BY <1>1, SettlesKeeps DEF ReportUsage

LEMMA SettleKeeps ==
  ASSUME BudgetInv, NEW a \in Agents, Settle(a) PROVE BudgetInv'
<1>1. MovesTo(a, "sleep") \/ MovesTo(a, "propose")
  BY GoMoves, SleepMoves DEF Settle, BudgetInv
<1> QED BY <1>1, FreeMoveKeeps DEF Settle

LEMMA ProposeKeeps ==
  ASSUME BudgetInv, NEW a \in Agents, Propose(a) PROVE BudgetInv'
BY SleepMoves, FreeMoveKeeps DEF Propose, BudgetInv

LEMMA RestartKeeps ==
  ASSUME BudgetInv, NEW a \in Agents, Restart(a) PROVE BudgetInv'
<1>1. MovesTo(a, "sleep") BY SleepMoves DEF Restart, BudgetInv
<1>2. CASE agent[a].pc = "usage" BY <1>1, <1>2, SettlesKeeps DEF Restart
<1>3. CASE agent[a].pc # "usage" BY <1>1, <1>3, FreeMoveKeeps DEF Restart
<1> QED BY <1>2, <1>3

LEMMA NewDayKeeps == ASSUME BudgetInv, NewDay PROVE BudgetInv'
<1>1. AgentShape' /\ Admitted' = Admitted /\ Owing' = Owing
  BY NobodyMoves DEF NewDay, BudgetInv, AgentShape
<1>2. /\ BudgetShape' /\ budget'.used = 0 /\ budget'.today = 0 /\ budget'.lost = 0
      /\ budget'.logged = budget.logged /\ budget'.spent = budget.spent
  BY DEF NewDay, BudgetInv, BudgetShape
<1> QED
  BY <1>1, <1>2, CountedFinite, BudgetPositive DEF BudgetInv, BudgetShape, Covered

LEMMA WeekPassesKeeps == ASSUME BudgetInv, WeekPasses PROVE BudgetInv'
<1>1. AgentShape' /\ Admitted' = Admitted /\ Owing' = Owing
  BY NobodyMoves DEF WeekPasses, BudgetInv, AgentShape
<1>2. /\ BudgetShape' /\ budget'.used = budget.used /\ budget'.today = budget.today
      /\ budget'.lost = budget.lost /\ budget'.logged = 0
      /\ budget'.spent = budget.spent
  BY DEF WeekPasses, BudgetInv, BudgetShape
<1> QED
  BY <1>1, <1>2, CountedFinite, BudgetPositive DEF BudgetInv, BudgetShape, Covered

(* What happens to an agent's row leaves its loop and the breaker alone.   *)
LEMMA RowStepFrame ==
  ASSUME NEW a \in Agents, RowStep(a)
  PROVE  UNCHANGED <<agent, context, market, budget, breaker>>
BY DEF RowStep, Filled, Booked, OrderFails, AutoExit, Cull, BandMoves

LEMMA ElsewhereKeeps == ASSUME BudgetInv, UNCHANGED <<agent, budget>> PROVE BudgetInv'
BY NobodyMoves DEF BudgetInv, AgentShape, BudgetShape, Covered

LEMMA BudgetStep == BudgetInv /\ [Next]_vars => BudgetInv'
<1> SUFFICES ASSUME BudgetInv, [Next]_vars PROVE BudgetInv' OBVIOUS
<1>1. ASSUME NEW a \in Agents, AgentStep(a) PROVE BudgetInv'
  BY <1>1, HeartbeatKeeps, ScreenKeeps, AskModelKeeps, ReportUsageKeeps, SettleKeeps,
     ProposeKeeps DEF AgentStep
<1>2. ASSUME NEW a \in Agents, Restart(a) PROVE BudgetInv' BY <1>2, RestartKeeps
<1>3. ASSUME NEW a \in Agents, RowStep(a) PROVE BudgetInv'
  BY <1>3, ElsewhereKeeps, RowStepFrame
<1>4. CASE MarketMoves \/ SyncApiCosts \/ BreakerStep \/ ControllerRestart
  BY <1>4, ElsewhereKeeps
  DEF MarketMoves, SyncApiCosts, BreakerStep, BreakerCounts, BreakerCosts, BreakerVerdict, ControllerRestart
<1>5. CASE UNCHANGED vars BY <1>5, ElsewhereKeeps DEF vars
<1> QED BY <1>1, <1>2, <1>3, <1>4, <1>5, NewDayKeeps, WeekPassesKeeps DEF Next

(* The calls of a day exceed daily_call_budget by at most one for every    *)
(* agent but one, and by the calls whose report was lost: whatever the     *)
(* heartbeats, restarts, failures and midnights of any number of agents.   *)
THEOREM DailyBudgetHolds == Spec => []BudgetBound
<1>1. BudgetInv => BudgetBound
  <2> SUFFICES ASSUME BudgetInv PROVE BudgetBound OBVIOUS
  <2> QED BY CountedFinite, BudgetPositive DEF BudgetInv, BudgetShape, Covered, BudgetBound
<1> QED BY BudgetInit, BudgetStep, <1>1, PTL DEF Spec

-----------------------------------------------------------------------------
(* The breaker's figures.  What it keeps from one read to the next: the    *)
(* sells it has counted are no more than have ever been made, the cost it  *)
(* has added up no more than has been spent.                               *)

BooksShape == books \in [billed : Nat, sells : Nat, profit : Int, trades : Nat]
BreakerShape ==
    breaker \in [pc : {"idle", "cost", "verdict"}, sells : Nat, cost : Nat, tripped : BOOLEAN,
                 live : BOOLEAN]

Behind ==
    /\ books.billed <= budget.spent
    /\ books.sells <= books.trades
    /\ breaker.sells <= books.trades
    /\ breaker.cost <= budget.spent

CostInv == BudgetInv /\ BooksShape /\ BreakerShape /\ Behind

LEMMA SpentRises ==
  ASSUME BudgetInv, [Next]_vars
  PROVE  budget.spent \in Nat /\ budget'.spent \in Nat /\ budget.spent <= budget'.spent
<1>0. BudgetShape BY DEF BudgetInv
<1>1. ASSUME NEW a \in Agents, AgentStep(a) PROVE budget.spent <= budget'.spent
  <2>1. CASE budget' = budget BY <2>1, <1>0 DEF BudgetShape
  <2>2. CASE budget' = [budget EXCEPT !.spent = @ + 1, !.today = @ + 1]
    BY <2>2, <1>0, SpendShape DEF BudgetShape
  <2>3. CASE budget' = [budget EXCEPT !.used = @ + 1, !.logged = @ + 1]
    BY <2>3, <1>0, LoggedShape DEF BudgetShape
  <2>4. CASE budget' = [budget EXCEPT !.lost = @ + 1] BY <2>4, <1>0 DEF BudgetShape
  <2> QED
    BY <1>1, <2>1, <2>2, <2>3, <2>4
    DEF AgentStep, Heartbeat, Screen, AskModel, ReportUsage, Settle, Propose
<1>2. ASSUME NEW a \in Agents, Restart(a) PROVE budget.spent <= budget'.spent
  BY <1>0, <1>2 DEF Restart, BudgetShape
<1>3. CASE NewDay \/ WeekPasses
  <2>1. budget'.spent = budget.spent BY <1>0, <1>3 DEF NewDay, WeekPasses, BudgetShape
  <2> QED BY <1>0, <2>1 DEF BudgetShape
<1>4. ASSUME budget' = budget PROVE budget.spent <= budget'.spent
  BY <1>0, <1>4 DEF BudgetShape
<1>5. ASSUME NEW a \in Agents, RowStep(a) PROVE budget.spent <= budget'.spent
  BY <1>4, <1>5, RowStepFrame
<1>6. ASSUME MarketMoves \/ SyncApiCosts \/ BreakerStep \/ ControllerRestart
               \/ UNCHANGED vars
      PROVE  budget.spent <= budget'.spent
  <2>1. budget' = budget
    BY <1>6
    DEF MarketMoves, SyncApiCosts, BreakerStep, BreakerCounts, BreakerCosts, BreakerVerdict,
        ControllerRestart, vars
  <2> QED BY <1>4, <2>1
<1>7. budget'.spent \in Nat BY BudgetStep DEF BudgetInv, BudgetShape
<1> QED BY <1>0, <1>1, <1>2, <1>3, <1>5, <1>6, <1>7 DEF Next, BudgetShape

LEMMA CostInit == Init => CostInv
<1> SUFFICES ASSUME Init PROVE CostInv OBVIOUS
<1>1. PICK scene \in Scenes :
        breaker = [pc |-> "idle", sells |-> 0, cost |-> 0, tripped |-> FALSE,
                   live |-> scene.live]
  BY DEF Init
<1>2. scene.live \in BOOLEAN BY CycleAssumption
<1>3. BooksShape /\ books.billed = 0 /\ books.sells = 0 /\ books.trades = 0
  BY DEF Init, BooksShape
<1>4. BreakerShape /\ breaker.sells = 0 /\ breaker.cost = 0
  BY <1>1, <1>2 DEF BreakerShape
<1>5. budget.spent = 0 BY DEF Init
<1> QED BY BudgetInit, <1>3, <1>4, <1>5 DEF CostInv, Behind

(* What fills and bookings write: the sells only rise.                     *)
Counts ==
    /\ BooksShape' /\ books'.billed = books.billed
    /\ books.trades <= books'.trades /\ books'.sells <= books'.trades

LEMMA RowStepCounts ==
  ASSUME BooksShape, Behind, NEW a \in Agents, RowStep(a) PROVE Counts
<1>1. CASE UNCHANGED books BY <1>1 DEF BooksShape, Behind, Counts
<1>2. CASE books' = [books EXCEPT !.sells = @ + 1, !.trades = @ + 1]
  <2>1. books' = [billed |-> books.billed, sells |-> books.sells + 1,
                  profit |-> books.profit, trades |-> books.trades + 1]
    BY <1>2 DEF BooksShape
  <2> QED BY <2>1 DEF BooksShape, Behind, Counts
<1>3. ASSUME NEW gain \in {-1, 1}, books' = [books EXCEPT !.profit = @ + gain]
      PROVE  Counts
  <2>1. books' = [billed |-> books.billed, sells |-> books.sells,
                  profit |-> books.profit + gain, trades |-> books.trades]
    BY <1>3 DEF BooksShape
  <2> QED BY <2>1 DEF BooksShape, Behind, Counts
<1> QED
  BY <1>1, <1>2, <1>3 DEF RowStep, Filled, Booked, OrderFails, AutoExit, Cull, BandMoves

LEMMA CostStep == CostInv /\ [Next]_vars => CostInv'
<1> SUFFICES ASSUME CostInv, [Next]_vars PROVE CostInv' OBVIOUS
<1>0. BudgetInv' BY BudgetStep DEF CostInv
<1>1. budget.spent \in Nat /\ budget'.spent \in Nat /\ budget.spent <= budget'.spent
  BY SpentRises DEF CostInv
<1>2. ASSUME Counts, breaker' = breaker PROVE CostInv'
  BY <1>0, <1>1, <1>2 DEF CostInv, BooksShape, BreakerShape, Behind, Counts
<1>3. ASSUME UNCHANGED <<books, breaker>> PROVE CostInv'
  <2>1. Counts BY <1>3 DEF CostInv, BooksShape, Behind, Counts
  <2> QED BY <1>2, <1>3, <2>1
<1>4. ASSUME NEW a \in Agents, RowStep(a) PROVE CostInv'
  BY <1>2, <1>4, RowStepCounts, RowStepFrame DEF CostInv
<1>5. CASE SyncApiCosts
  <2>1. PICK b \in books.billed + 1..budget.spent : books' = [books EXCEPT !.billed = b]
    BY <1>5 DEF SyncApiCosts
  <2>2. /\ b \in Nat /\ b <= budget.spent
        /\ books' = [billed |-> b, sells |-> books.sells, profit |-> books.profit,
                     trades |-> books.trades]
    BY <1>1, <2>1 DEF CostInv, BooksShape
  <2>3. budget' = budget /\ breaker' = breaker BY <1>5 DEF SyncApiCosts
  <2> QED
    BY <1>0, <1>1, <2>2, <2>3 DEF CostInv, BooksShape, BreakerShape, Behind
<1>6. CASE BreakerCounts \/ BreakerCosts
  <2>1. ActualCost \in Nat /\ ActualCost <= budget.spent
    BY CountedFinite DEF ActualCost, CostInv, BudgetInv, BudgetShape, BooksShape, Covered, Behind
  <2>2. \/ breaker' = [pc |-> "cost", sells |-> books.sells, cost |-> breaker.cost,
                       tripped |-> breaker.tripped, live |-> breaker.live]
        \/ breaker' = [pc |-> "verdict", sells |-> breaker.sells, cost |-> ActualCost,
                       tripped |-> breaker.tripped, live |-> breaker.live]
    BY <1>6 DEF BreakerCounts, BreakerCosts, CostInv, BreakerShape
  <2>3. books' = books /\ budget' = budget BY <1>6 DEF BreakerCounts, BreakerCosts
  <2> QED
    BY <1>0, <2>1, <2>2, <2>3 DEF CostInv, BooksShape, BreakerShape, Behind
<1>7. CASE BreakerVerdict \/ ControllerRestart
  <2>1. books' = books /\ budget' = budget
    BY <1>7 DEF BreakerVerdict, ControllerRestart
  <2>2. Off = [pc |-> "idle", sells |-> 0, cost |-> 0, tripped |-> FALSE,
               live |-> breaker.live]
    BY DEF Off
  <2>3. PICK t \in BOOLEAN :
          breaker' = [pc |-> "idle", sells |-> 0, cost |-> 0, tripped |-> t,
                      live |-> breaker.live]
    <3>1. CASE breaker' = [Off EXCEPT !.tripped = Outrun]
      BY <2>2, <3>1 DEF Outrun
    <3>2. CASE breaker' = [Off EXCEPT !.tripped = @ \/ breaker.tripped]
      BY <2>2, <3>2
    <3>3. CASE breaker' = Off BY <2>2, <3>3
    <3> QED BY <1>7, <3>1, <3>2, <3>3 DEF BreakerVerdict, ControllerRestart
  <2> QED
    BY <1>0, <1>1, <2>1, <2>3 DEF CostInv, BooksShape, BreakerShape, Behind
<1>8. ASSUME NEW a \in Agents, AgentStep(a) \/ Restart(a) PROVE CostInv'
  BY <1>3, <1>8
  DEF AgentStep, Heartbeat, Screen, AskModel, ReportUsage, Settle, Propose, Restart
<1>9. CASE MarketMoves \/ NewDay \/ UNCHANGED vars
  BY <1>3, <1>9 DEF MarketMoves, NewDay, vars
<1>10. CASE WeekPasses
  <2>1. /\ books' = [billed |-> books.billed, sells |-> 0, profit |-> 0,
                     trades |-> books.trades]
        /\ breaker' = breaker
    BY <1>10 DEF WeekPasses, CostInv, BooksShape
  <2> QED BY <1>0, <1>1, <2>1 DEF CostInv, BooksShape, BreakerShape, Behind
<1> QED BY <1>4, <1>5, <1>6, <1>7, <1>8, <1>9, <1>10 DEF Next, BreakerStep

(* The breaker trips only after some trade has been closed, and when more  *)
(* has really been spent than the week has booked as profit, however the   *)
(* sells, their bookings, the bills, the lost reports and the week's edge  *)
(* fall between its three reads.                                           *)
THEOREM BreakerTripsForCause == Spec => TripsForCause
<1>1. CostInv /\ [Next]_vars =>
        (~breaker.tripped /\ breaker'.tripped =>
           books.trades > 0 /\ budget.spent > books.profit)
  <2> SUFFICES ASSUME CostInv, [Next]_vars, ~breaker.tripped, breaker'.tripped
               PROVE  books.trades > 0 /\ budget.spent > books.profit
    OBVIOUS
  <2>1. Off = [pc |-> "idle", sells |-> 0, cost |-> 0, tripped |-> FALSE,
               live |-> breaker.live]
    BY DEF Off
  <2>2. breaker' # breaker OBVIOUS
  <2>3. BreakerCounts \/ BreakerCosts \/ BreakerVerdict \/ ControllerRestart
    BY <2>2, RowStepFrame
    DEF Next, AgentStep, Heartbeat, Screen, AskModel, ReportUsage, Settle, Propose,
        Restart, MarketMoves, NewDay, WeekPasses, SyncApiCosts, BreakerStep, vars
  <2>4. ~ControllerRestart BY <2>1 DEF ControllerRestart
  <2>5. ~BreakerCounts /\ ~BreakerCosts
    BY DEF BreakerCounts, BreakerCosts, CostInv, BreakerShape
  <2>6. Outrun
    <3>1. CASE breaker' = [Off EXCEPT !.tripped = Outrun] BY <2>1, <3>1
    <3>2. CASE breaker' = [Off EXCEPT !.tripped = @ \/ breaker.tripped]
      BY <2>1, <3>2
    <3> QED BY <2>3, <2>4, <2>5, <3>1, <3>2 DEF BreakerVerdict
  <2> QED
    BY <2>6 DEF Outrun, CostInv, Behind, BooksShape, BreakerShape, BudgetInv, BudgetShape
<1> QED BY CostInit, CostStep, <1>1, PTL DEF Spec, TripsForCause

-----------------------------------------------------------------------------
(* Types.  Each is a function of agents to records, or one record.         *)

Places == {"sleep", "screen", "ask", "usage", "settle", "propose"}
Holdings == Bands \union {"none"}
Cells == [pc : Places, held : Holdings, price : 0..MaxPrice,
          decision : {"hold", "buy", "sell", "cut"}, refused : BOOLEAN]
Memories == [fingerprint : Int, action : {"hold", "buy", "sell"},
             escalated : SUBSET Crossings]
Rows == [active : BOOLEAN, held : Holdings, buys : Nat, sells : Nat, due : Nat]
Sights == [crossed : SUBSET Crossings, heard : SUBSET Holdings,
           unheard : SUBSET Holdings, price : {NoPrice} \union (0..MaxPrice),
           news : BOOLEAN]

AgentTyped == agent \in [Agents -> Cells]
ContextTyped == context \in [Agents -> Memories]
RowTyped == row \in [Agents -> Rows]
MarketTyped == market \in [price : 0..MaxPrice, open : BOOLEAN, braked : BOOLEAN]
LeftTyped == left \in [calls : Nat, events : Nat]
SeenTyped == seen \in [Agents -> Sights]
Wants == \A a \in Agents : agent[a].pc = "propose" => agent[a].decision \in {"buy", "sell"}

CycleInv ==
    /\ CostInv
    /\ AgentTyped /\ ContextTyped /\ RowTyped /\ MarketTyped /\ LeftTyped /\ SeenTyped
    /\ Wants

(* What the records are made of; one field changed is a record again.      *)
LEMMA CellFields ==
  ASSUME NEW c \in Cells
  PROVE  /\ c.pc \in Places /\ c.held \in Holdings /\ c.price \in 0..MaxPrice
         /\ c.decision \in {"hold", "buy", "sell", "cut"} /\ c.refused \in BOOLEAN
BY DEF Cells

LEMMA CellChanged ==
  ASSUME NEW c \in Cells, NEW pc \in Places
  PROVE  /\ [c EXCEPT !.pc = pc] \in Cells /\ [c EXCEPT !.pc = pc].pc = pc
         /\ [c EXCEPT !.pc = pc].decision = c.decision
         /\ [c EXCEPT !.pc = pc].held = c.held /\ [c EXCEPT !.pc = pc].price = c.price
BY DEF Cells

LEMMA CellPriced ==
  ASSUME NEW c \in Cells, NEW pc \in Places, NEW p \in 0..MaxPrice
  PROVE  /\ [c EXCEPT !.pc = pc, !.price = p] \in Cells
         /\ [c EXCEPT !.pc = pc, !.price = p].pc = pc
         /\ [c EXCEPT !.pc = pc, !.price = p].price = p
         /\ [c EXCEPT !.pc = pc, !.price = p].held = c.held
BY DEF Cells

LEMMA CellDecided ==
  ASSUME NEW c \in Cells, NEW pc \in Places, NEW d \in {"hold", "buy", "sell", "cut"}
  PROVE  /\ [c EXCEPT !.pc = pc, !.decision = d] \in Cells
         /\ [c EXCEPT !.pc = pc, !.decision = d].pc = pc
         /\ [c EXCEPT !.pc = pc, !.decision = d].price = c.price
BY DEF Cells

LEMMA MaxPricePositive == MaxPrice \in Nat /\ MaxPrice > 0
BY CycleAssumption

LEMMA IdleTyped == Idle \in Cells /\ Idle.pc = "sleep"
<1>1. PICK zero \in 0..MaxPrice : zero = 0 BY MaxPricePositive
<1>2. Idle = [pc |-> "sleep", held |-> "none", price |-> zero, decision |-> "hold",
              refused |-> FALSE]
  BY <1>1 DEF Idle
<1> QED BY <1>2 DEF Cells, Places, Holdings

LEMMA RefusedTyped == Refused \in Cells /\ Refused.pc = "sleep"
<1>1. PICK zero \in 0..MaxPrice : zero = 0 BY MaxPricePositive
<1> QED BY <1>1, RefusedFields DEF Cells, Places, Holdings

LEMMA AwakeTyped ==
  ASSUME NEW h \in Holdings
  PROVE  Awake(h) \in Cells /\ Awake(h).pc = "screen" /\ Awake(h).held = h
<1>1. PICK zero \in 0..MaxPrice : zero = 0 BY MaxPricePositive
<1>2. PICK w : w = Awake(h) OBVIOUS
<1>3. w = [pc |-> "screen", held |-> h, price |-> zero, decision |-> "hold",
           refused |-> FALSE]
  BY <1>1, <1>2, AwakeFields
<1>4. w \in Cells /\ w.pc = "screen" /\ w.held = h BY <1>3 DEF Cells, Places
<1> QED BY <1>2, <1>4

LEMMA FreshTyped ==
  /\ Fresh \in Memories /\ Fresh.action = "hold" /\ Fresh.escalated = {}
<1>1. PICK no \in Int : no = NoPrice BY DEF NoPrice
<1>2. Fresh = [fingerprint |-> no, action |-> "hold", escalated |-> {}]
  BY <1>1 DEF Fresh
<1> QED BY <1>2 DEF Memories

LEMMA FingerprintTyped == ASSUME NEW p \in 0..MaxPrice PROVE Fingerprint(p) \in Int
BY MaxPricePositive DEF Fingerprint

(* What a step of one agent does to its own record, and to no other.       *)
CellMoves(a) == \E c \in Cells :
    /\ agent' = [agent EXCEPT ![a] = c]
    /\ c.pc = "propose" => c.decision \in {"buy", "sell"}

LEMMA CellMoved ==
  ASSUME NEW a \in Agents, AgentTyped, Wants, CellMoves(a) PROVE AgentTyped' /\ Wants'
<1>1. PICK c \in Cells : /\ agent' = [agent EXCEPT ![a] = c]
                         /\ c.pc = "propose" => c.decision \in {"buy", "sell"}
  BY DEF CellMoves
<1>2. \A b \in Agents : agent'[b] = IF b = a THEN c ELSE agent[b]
  BY <1>1 DEF AgentTyped
<1>3. AgentTyped' BY <1>1 DEF AgentTyped
<1> QED BY <1>1, <1>2, <1>3 DEF Wants

LEMMA SleepTyped ==
  ASSUME NEW a \in Agents, Sleep(a) PROVE CellMoves(a)
BY IdleTyped DEF Sleep, CellMoves

LEMMA GoTyped ==
  ASSUME NEW a \in Agents, AgentTyped, NEW pc \in Places, Go(a, pc),
         pc = "propose" => agent[a].decision \in {"buy", "sell"}
  PROVE  CellMoves(a)
<1>1. PICK c \in Cells : c = agent[a] BY DEF AgentTyped
<1>2. PICK w : w = [c EXCEPT !.pc = pc] OBVIOUS
<1>3. w \in Cells /\ w.pc = pc /\ w.decision = c.decision BY <1>2, CellChanged
<1>4. agent' = [agent EXCEPT ![a] = w] BY <1>1, <1>2 DEF Go, AgentTyped
<1> QED BY <1>1, <1>3, <1>4 DEF CellMoves

(* Every step of an agent's loop makes one record of its own.              *)
LEMMA HeartbeatMoves ==
  ASSUME CycleInv, NEW a \in Agents, Heartbeat(a) PROVE CellMoves(a)
<1>2. CASE row[a].active /\ ShouldThink /\ BudgetRemaining
  <2>1. PICK h \in Holdings : agent' = [agent EXCEPT ![a] = Awake(h)]
    BY <1>2, HeartbeatWakes DEF Holdings
  <2> QED BY <2>1, AwakeTyped DEF CellMoves
<1>3. CASE ~(row[a].active /\ ShouldThink /\ BudgetRemaining)
  <2>1. agent' = [agent EXCEPT ![a] = Refused] BY <1>3 DEF Heartbeat, Refused
  <2> QED BY <2>1, RefusedTyped DEF CellMoves
<1> QED BY <1>2, <1>3

LEMMA ScreenMoves ==
  ASSUME CycleInv, NEW a \in Agents, Screen(a) PROVE CellMoves(a)
<1>1. market.price \in 0..MaxPrice BY DEF CycleInv, MarketTyped
<1>2. CASE agent' = [agent EXCEPT ![a] = [@ EXCEPT !.pc = "ask", !.price = market.price]]
  <2>1. PICK c \in Cells : c = agent[a] BY DEF CycleInv, AgentTyped
  <2>2. PICK w : w = [c EXCEPT !.pc = "ask", !.price = market.price] OBVIOUS
  <2>3. w \in Cells /\ w.pc = "ask" BY <1>1, <2>2, CellPriced DEF Places
  <2>4. agent' = [agent EXCEPT ![a] = w] BY <1>2, <2>1, <2>2 DEF CycleInv, AgentTyped
  <2> QED BY <2>3, <2>4 DEF CellMoves
<1> QED BY <1>2, SleepTyped DEF Screen

LEMMA AskModelMoves ==
  ASSUME CycleInv, NEW a \in Agents, AskModel(a) PROVE CellMoves(a)
<1>1. ASSUME NEW d \in {"hold", "buy", "sell", "cut"},
             agent' = [agent EXCEPT ![a] = [@ EXCEPT !.pc = "usage", !.decision = d]]
      PROVE  CellMoves(a)
  <2>1. PICK c \in Cells : c = agent[a] BY DEF CycleInv, AgentTyped
  <2>2. PICK w : w = [c EXCEPT !.pc = "usage", !.decision = d] OBVIOUS
  <2>3. w \in Cells /\ w.pc = "usage"
    <3>1. "usage" \in Places BY DEF Places
    <3> QED BY <2>2, <3>1, CellDecided
  <2>4. agent' = [agent EXCEPT ![a] = w] BY <1>1, <2>1, <2>2 DEF CycleInv, AgentTyped
  <2> QED BY <2>3, <2>4 DEF CellMoves
<1> QED BY <1>1, SleepTyped DEF AskModel

LEMMA LoopMoves ==
  ASSUME CycleInv, NEW a \in Agents, AgentStep(a) \/ Restart(a) PROVE CellMoves(a)
<1>1. CASE ReportUsage(a) BY <1>1, GoTyped DEF ReportUsage, CycleInv, Places
<1>2. CASE Settle(a)
  <2>1. agent[a].decision \in {"hold", "buy", "sell", "cut"}
    BY CellFields DEF CycleInv, AgentTyped
  <2> QED BY <1>2, <2>1, GoTyped, SleepTyped DEF Settle, Holds, CycleInv, Places
<1>3. CASE Propose(a) BY <1>3, SleepTyped DEF Propose
<1>4. CASE Restart(a) BY <1>4, SleepTyped DEF Restart
<1> QED
  BY <1>1, <1>2, <1>3, <1>4, HeartbeatMoves, ScreenMoves, AskModelMoves DEF AgentStep

(* What an agent remembers.                                                *)
LEMMA MemoryChanged ==
  ASSUME NEW m \in Memories
  PROVE  /\ m.fingerprint \in Int /\ m.action \in {"hold", "buy", "sell"}
         /\ m.escalated \in SUBSET Crossings
         /\ \A e \in SUBSET Crossings : [m EXCEPT !.escalated = e] \in Memories
         /\ \A d \in {"hold", "buy", "sell"} : [m EXCEPT !.action = d] \in Memories
         /\ \A f \in Int, d \in {"hold", "buy", "sell"} :
              [m EXCEPT !.fingerprint = f, !.action = d] \in Memories
BY DEF Memories

LEMMA ContextKept ==
  ASSUME CycleInv, NEW a \in Agents, AgentStep(a) \/ Restart(a) PROVE ContextTyped'
<1>0. context \in [Agents -> Memories] BY DEF CycleInv, ContextTyped
<1>1. PICK m \in Memories : m = context[a] BY <1>0
<1>2. ASSUME NEW w \in Memories, context' = [context EXCEPT ![a] = w] PROVE ContextTyped'
  BY <1>0, <1>2 DEF ContextTyped
<1>3. CASE UNCHANGED context BY <1>0, <1>3 DEF ContextTyped
<1>4. CASE context' = [context EXCEPT ![a].escalated = Escalated(a)]
  <2>1. Escalated(a) \in SUBSET Crossings
    <3>1. agent[a].held \in Holdings /\ context[a].escalated \in SUBSET Crossings
      BY <1>0, MemoryChanged, CellFields DEF CycleInv, AgentTyped
    <3> QED BY <3>1 DEF Escalated, Holdings, Bands, Crossings
  <2>2. PICK w : w = [m EXCEPT !.escalated = Escalated(a)] OBVIOUS
  <2>3. w \in Memories BY <2>1, <2>2, MemoryChanged
  <2>4. context' = [context EXCEPT ![a] = w] BY <1>0, <1>1, <1>4, <2>2
  <2> QED BY <1>2, <2>3, <2>4
<1>5. ASSUME NEW d \in {"hold", "buy", "sell"}, context' = [context EXCEPT ![a].action = d]
      PROVE  ContextTyped'
  <2>1. PICK w : w = [m EXCEPT !.action = d] OBVIOUS
  <2>2. w \in Memories BY <2>1, MemoryChanged
  <2>3. context' = [context EXCEPT ![a] = w] BY <1>0, <1>1, <1>5, <2>1
  <2> QED BY <1>2, <2>2, <2>3
<1>6. CASE Settle(a)
  <2>1. PICK f \in Int : f = Fingerprint(agent[a].price)
    BY FingerprintTyped, CellFields DEF CycleInv, AgentTyped
  <2>2. PICK d \in {"hold", "buy", "sell"} : d = (IF Holds(a) THEN "hold" ELSE m.action)
    BY MemoryChanged
  <2>3. PICK w : w = [m EXCEPT !.fingerprint = f, !.action = d] OBVIOUS
  <2>4. w \in Memories BY <2>3, MemoryChanged
  <2>5. context' = [context EXCEPT ![a] = w]
    BY <1>0, <1>1, <1>6, <2>1, <2>2, <2>3 DEF Settle
  <2> QED BY <1>2, <2>4, <2>5
<1>7. CASE Restart(a) BY <1>2, <1>7, FreshTyped DEF Restart
<1>8. CASE Propose(a)
  <2>1. agent[a].decision \in {"hold", "buy", "sell"}
    BY <1>8 DEF Propose, CycleInv, Wants
  <2> QED BY <1>3, <1>5, <1>8, <2>1 DEF Propose
<1> QED
  BY <1>3, <1>4, <1>6, <1>7, <1>8
  DEF AgentStep, Heartbeat, Screen, AskModel, ReportUsage

(* An agent's row.                                                         *)
LEMMA RowChanged ==
  ASSUME NEW r \in Rows
  PROVE  /\ r.active \in BOOLEAN /\ r.held \in Holdings
         /\ r.buys \in Nat /\ r.sells \in Nat /\ r.due \in Nat
         /\ \A n \in Nat : /\ [r EXCEPT !.buys = n] \in Rows
                            /\ [r EXCEPT !.sells = n] \in Rows
                            /\ [r EXCEPT !.due = n] \in Rows
         /\ \A h \in Holdings : [r EXCEPT !.held = h] \in Rows
         /\ [r EXCEPT !.active = FALSE] \in Rows
         /\ \A n \in Nat, h \in Holdings : /\ [r EXCEPT !.buys = n, !.held = h] \in Rows
                                          /\ [r EXCEPT !.due = n, !.held = h] \in Rows
         /\ \A n, m \in Nat : [r EXCEPT !.sells = n, !.due = m] \in Rows
BY DEF Rows

(* The row after a step, when it is the row of agent a that changes: what  *)
(* is held stays, goes, or is new.                                         *)
RowMoves(a) == \E r \in Rows :
    /\ row' = [row EXCEPT ![a] = r]
    /\ r.held \in {"none", "mid", row[a].held}

LEMMA ProposeRows ==
  ASSUME CycleInv, NEW a \in Agents, Propose(a)
  PROVE  \/ UNCHANGED row
         \/ RowMoves(a) /\ row'[a].held = row[a].held
<1>0. row \in [Agents -> Rows] BY DEF CycleInv, RowTyped
<1>1. PICK r \in Rows : r = row[a] BY <1>0
<1>2. PICK b \in Nat, n \in Nat : b = r.buys + 1 /\ n = r.sells + 1
  <2>1. r.buys \in Nat /\ r.sells \in Nat BY RowChanged
  <2> QED BY <2>1
<1>3. PICK v, w : v = [r EXCEPT !.buys = b] /\ w = [r EXCEPT !.sells = n] OBVIOUS
<1>4. /\ v \in Rows /\ w \in Rows /\ v.held = r.held /\ w.held = r.held
  <2>1. v \in Rows /\ w \in Rows BY <1>3, RowChanged
  <2> QED BY <1>3, <2>1 DEF Rows
<1>5. CASE row' = [row EXCEPT ![a].buys = @ + 1]
  <2>1. row' = [row EXCEPT ![a] = v] BY <1>0, <1>1, <1>2, <1>3, <1>5
  <2> QED BY <1>0, <1>1, <1>4, <2>1 DEF RowMoves
<1>6. CASE row' = [row EXCEPT ![a].sells = @ + 1]
  <2>1. row' = [row EXCEPT ![a] = w] BY <1>0, <1>1, <1>2, <1>3, <1>6
  <2> QED BY <1>0, <1>1, <1>4, <2>1 DEF RowMoves
<1> QED BY <1>5, <1>6 DEF Propose, Executed

(* One lemma for each of the ways a row changes while its agent thinks.    *)
LEMMA FilledRows == ASSUME CycleInv, NEW a \in Agents, Filled(a) PROVE RowMoves(a)
<1>0. row \in [Agents -> Rows] BY DEF CycleInv, RowTyped
<1>1. PICK r \in Rows : r = row[a] BY <1>0
<1>2. r.buys \in Nat /\ r.sells \in Nat /\ r.due \in Nat /\ r.held \in Holdings
  BY RowChanged
<1>3. CASE /\ row[a].buys > 0
           /\ row' = [row EXCEPT ![a].buys = @ - 1,
                                 ![a].held = IF @ = "none" THEN "mid" ELSE @]
  <2>1. PICK n \in Nat : n = r.buys - 1 BY <1>1, <1>2, <1>3
  <2>2. PICK h \in Holdings : h = (IF r.held = "none" THEN "mid" ELSE r.held)
    BY <1>2 DEF Holdings, Bands
  <2>3. PICK w : w = [r EXCEPT !.buys = n, !.held = h] OBVIOUS
  <2>4. w \in Rows BY <2>3, RowChanged
  <2>5. w.held = h BY <2>3 DEF Rows
  <2>6. row' = [row EXCEPT ![a] = w] BY <1>0, <1>1, <1>3, <2>1, <2>2, <2>3
  <2> QED BY <1>1, <2>2, <2>4, <2>5, <2>6 DEF RowMoves
<1>4. CASE /\ row[a].sells > 0
           /\ row' = [row EXCEPT ![a].sells = @ - 1, ![a].due = @ + 1]
  <2>0. PICK n \in Nat : n = r.sells - 1 BY <1>1, <1>2, <1>4
  <2>1. PICK m \in Nat : m = r.due + 1 BY <1>2
  <2>2. PICK w : w = [r EXCEPT !.sells = n, !.due = m] OBVIOUS
  <2>3. w \in Rows BY <2>2, RowChanged
  <2>4. w.held = r.held BY <2>2 DEF Rows
  <2>5. row' = [row EXCEPT ![a] = w] BY <1>0, <1>1, <1>4, <2>0, <2>1, <2>2
  <2> QED BY <1>1, <2>3, <2>4, <2>5 DEF RowMoves
<1> QED BY <1>3, <1>4 DEF Filled

LEMMA BookedRows == ASSUME CycleInv, NEW a \in Agents, Booked(a) PROVE RowMoves(a)
<1>0. row \in [Agents -> Rows] BY DEF CycleInv, RowTyped
<1>1. PICK r \in Rows : r = row[a] BY <1>0
<1>2. r.due \in Nat /\ row[a].due > 0 BY RowChanged DEF Booked
<1>3. PICK n \in Nat : n = r.due - 1 BY <1>1, <1>2
<1>4. CASE row' = [row EXCEPT ![a].due = @ - 1, ![a].held = "none"]
  <2>1. PICK h \in Holdings : h = "none" BY DEF Holdings
  <2>2. PICK w : w = [r EXCEPT !.due = n, !.held = h] OBVIOUS
  <2>3. w \in Rows BY <2>2, RowChanged
  <2>4. w.held = "none" BY <2>1, <2>2 DEF Rows
  <2>5. row' = [row EXCEPT ![a] = w] BY <1>0, <1>1, <1>3, <1>4, <2>1, <2>2
  <2> QED BY <2>3, <2>4, <2>5 DEF RowMoves
<1>5. CASE row' = [row EXCEPT ![a].due = @ - 1]
  <2>1. PICK w : w = [r EXCEPT !.due = n] OBVIOUS
  <2>2. w \in Rows BY <2>1, RowChanged
  <2>3. w.held = r.held BY <2>1 DEF Rows
  <2>4. row' = [row EXCEPT ![a] = w] BY <1>0, <1>1, <1>3, <1>5, <2>1
  <2> QED BY <1>1, <2>2, <2>3, <2>4 DEF RowMoves
<1> QED BY <1>4, <1>5 DEF Booked

LEMMA OrderRows ==
  ASSUME CycleInv, NEW a \in Agents, OrderFails(a) \/ AutoExit(a) PROVE RowMoves(a)
<1>0. row \in [Agents -> Rows] BY DEF CycleInv, RowTyped
<1>1. PICK r \in Rows : r = row[a] BY <1>0
<1>2. r.buys \in Nat /\ r.sells \in Nat BY RowChanged
<1>3. \/ \E n \in Nat : row' = [row EXCEPT ![a].buys = n]
      \/ \E n \in Nat : row' = [row EXCEPT ![a].sells = n]
  <2>1. CASE AutoExit(a)
    <3>1. PICK n \in Nat : n = r.sells + 1 BY <1>2
    <3> QED BY <1>0, <1>1, <2>1, <3>1 DEF AutoExit
  <2>2. CASE row[a].buys > 0 /\ row' = [row EXCEPT ![a].buys = @ - 1]
    <3>1. PICK n \in Nat : n = r.buys - 1 BY <1>1, <1>2, <2>2
    <3> QED BY <1>0, <1>1, <2>2, <3>1
  <2>3. CASE row[a].sells > 0 /\ row' = [row EXCEPT ![a].sells = @ - 1]
    <3>1. PICK n \in Nat : n = r.sells - 1 BY <1>1, <1>2, <2>3
    <3> QED BY <1>0, <1>1, <2>3, <3>1
  <2> QED BY <2>1, <2>2, <2>3 DEF OrderFails
<1>4. ASSUME NEW n \in Nat, row' = [row EXCEPT ![a].buys = n] PROVE RowMoves(a)
  <2>1. PICK w : w = [r EXCEPT !.buys = n] OBVIOUS
  <2>2. w \in Rows BY <2>1, RowChanged
  <2>3. w.held = r.held BY <2>1 DEF Rows
  <2>4. row' = [row EXCEPT ![a] = w] BY <1>0, <1>1, <1>4, <2>1
  <2> QED BY <1>1, <2>2, <2>3, <2>4 DEF RowMoves
<1>5. ASSUME NEW n \in Nat, row' = [row EXCEPT ![a].sells = n] PROVE RowMoves(a)
  <2>1. PICK w : w = [r EXCEPT !.sells = n] OBVIOUS
  <2>2. w \in Rows BY <2>1, RowChanged
  <2>3. w.held = r.held BY <2>1 DEF Rows
  <2>4. row' = [row EXCEPT ![a] = w] BY <1>0, <1>1, <1>5, <2>1
  <2> QED BY <1>1, <2>2, <2>3, <2>4 DEF RowMoves
<1> QED BY <1>3, <1>4, <1>5

LEMMA CullRows == ASSUME CycleInv, NEW a \in Agents, Cull(a) PROVE RowMoves(a)
<1>0. row \in [Agents -> Rows] BY DEF CycleInv, RowTyped
<1>1. PICK r \in Rows : r = row[a] BY <1>0
<1>2. PICK w : w = [r EXCEPT !.active = FALSE] OBVIOUS
<1>3. w \in Rows BY <1>2, RowChanged
<1>4. w.held = r.held BY <1>2 DEF Rows
<1>5. row' = [row EXCEPT ![a] = w] BY <1>0, <1>1, <1>2 DEF Cull
<1> QED BY <1>1, <1>3, <1>4, <1>5 DEF RowMoves

LEMMA BandRows ==
  ASSUME CycleInv, NEW a \in Agents, BandMoves(a)
  PROVE  \E r \in Rows : row' = [row EXCEPT ![a] = r]
<1>0. row \in [Agents -> Rows] BY DEF CycleInv, RowTyped
<1>1. PICK r \in Rows : r = row[a] BY <1>0
<1>2. PICK h \in Holdings : row' = [row EXCEPT ![a].held = h] BY DEF BandMoves, Holdings
<1>3. PICK w : w = [r EXCEPT !.held = h] OBVIOUS
<1>4. w \in Rows BY <1>3, RowChanged
<1>5. row' = [row EXCEPT ![a] = w] BY <1>0, <1>1, <1>2, <1>3
<1> QED BY <1>4, <1>5

(* A step of one agent leaves the rows of the others, and keeps its type.  *)
LEMMA RowKept ==
  ASSUME CycleInv, NEW a \in Agents, AgentStep(a) \/ Restart(a) \/ RowStep(a)
  PROVE  RowTyped' /\ \A b \in Agents \ {a} : row'[b] = row[b]
<1>0. row \in [Agents -> Rows] BY DEF CycleInv, RowTyped
<1>1. CASE \E r \in Rows : row' = [row EXCEPT ![a] = r] BY <1>0, <1>1 DEF RowTyped
<1>2. CASE UNCHANGED row BY <1>0, <1>2 DEF RowTyped
<1>3. CASE RowStep(a)
  BY <1>1, <1>3, FilledRows, BookedRows, OrderRows, CullRows, BandRows
  DEF RowStep, RowMoves
<1>4. CASE Propose(a) BY <1>1, <1>2, <1>4, ProposeRows DEF RowMoves
<1> QED
  BY <1>2, <1>3, <1>4
  DEF AgentStep, Heartbeat, Screen, AskModel, ReportUsage, Settle, Restart

(* A restart of the controller changes no holding.                         *)
LEMMA RestartRows ==
  ASSUME CycleInv, ControllerRestart
  PROVE  RowTyped' /\ \A b \in Agents : row'[b].held = row[b].held
<1>0. row \in [Agents -> Rows] BY DEF CycleInv, RowTyped
<1>1. row' = [a \in Agents |-> [row[a] EXCEPT !.due = 0]] BY DEF ControllerRestart
<1>2. ASSUME NEW a \in Agents
      PROVE  [row[a] EXCEPT !.due = 0] \in Rows /\ [row[a] EXCEPT !.due = 0].held = row[a].held
  <2>1. PICK r \in Rows : r = row[a] BY <1>0
  <2>2. PICK n \in Nat : n = 0 OBVIOUS
  <2>3. PICK w : w = [r EXCEPT !.due = n] OBVIOUS
  <2>4. w \in Rows BY <2>3, RowChanged
  <2>5. w.held = r.held BY <2>3 DEF Rows
  <2> QED BY <2>1, <2>2, <2>3, <2>4, <2>5
<1> QED BY <1>1, <1>2 DEF RowTyped

(* What the model has been shown.                                          *)
LEMMA SightChanged ==
  ASSUME NEW s \in Sights
  PROVE  /\ s.crossed \in SUBSET Crossings /\ s.heard \in SUBSET Holdings
         /\ s.unheard \in SUBSET Holdings /\ s.price \in {NoPrice} \union (0..MaxPrice)
         /\ s.news \in BOOLEAN
         /\ \A x \in SUBSET Crossings : [s EXCEPT !.crossed = x] \in Sights
         /\ \A x \in SUBSET Holdings : /\ [s EXCEPT !.heard = x] \in Sights
                                       /\ [s EXCEPT !.unheard = x] \in Sights
         /\ [s EXCEPT !.news = TRUE] \in Sights
         /\ \A p \in {NoPrice} \union (0..MaxPrice) : [s EXCEPT !.price = p] \in Sights
         /\ \A x \in SUBSET Holdings, p \in {NoPrice} \union (0..MaxPrice), n \in BOOLEAN :
              [s EXCEPT !.heard = x, !.price = p, !.news = n] \in Sights
BY DEF Sights

SeenMoves(a) == \E s \in Sights : seen' = [seen EXCEPT ![a] = s]

LEMMA SeenMoved ==
  ASSUME SeenTyped, NEW a \in Agents, SeenMoves(a) \/ UNCHANGED seen PROVE SeenTyped'
BY DEF SeenTyped, SeenMoves

LEMMA SeenStep ==
  ASSUME CycleInv, NEW a \in Agents,
         AgentStep(a) \/ Restart(a) \/ RowStep(a)
  PROVE  SeenMoves(a) \/ UNCHANGED seen
<1>0. seen \in [Agents -> Sights] BY DEF CycleInv, SeenTyped
<1>1. PICK s \in Sights : s = seen[a] BY <1>0
<1>2. agent[a].held \in Holdings /\ agent[a].price \in 0..MaxPrice
  BY CellFields DEF CycleInv, AgentTyped
<1>3. ASSUME NEW x \in SUBSET Crossings, seen' = [seen EXCEPT ![a].crossed = x]
      PROVE  SeenMoves(a)
  <2>1. PICK w : w = [s EXCEPT !.crossed = x] OBVIOUS
  <2>2. w \in Sights BY <2>1, SightChanged
  <2>3. seen' = [seen EXCEPT ![a] = w] BY <1>0, <1>1, <1>3, <2>1
  <2> QED BY <2>2, <2>3 DEF SeenMoves
<1>4. ASSUME NEW x \in SUBSET Holdings,
             \/ seen' = [seen EXCEPT ![a].heard = x]
             \/ seen' = [seen EXCEPT ![a].unheard = x]
      PROVE  SeenMoves(a)
  <2>1. PICK v, w : v = [s EXCEPT !.heard = x] /\ w = [s EXCEPT !.unheard = x] OBVIOUS
  <2>2. v \in Sights /\ w \in Sights BY <2>1, SightChanged
  <2>3. seen' = [seen EXCEPT ![a] = v] \/ seen' = [seen EXCEPT ![a] = w]
    BY <1>0, <1>1, <1>4, <2>1
  <2> QED BY <2>2, <2>3 DEF SeenMoves
<1>5. ASSUME seen' = [seen EXCEPT ![a].news = TRUE] PROVE SeenMoves(a)
  <2>1. PICK w : w = [s EXCEPT !.news = TRUE] OBVIOUS
  <2>2. w \in Sights BY <2>1, SightChanged
  <2>3. seen' = [seen EXCEPT ![a] = w] BY <1>0, <1>1, <1>5, <2>1
  <2> QED BY <2>2, <2>3 DEF SeenMoves
<1>6. ASSUME seen' = [seen EXCEPT ![a].price = NoPrice] PROVE SeenMoves(a)
  <2>1. PICK w : w = [s EXCEPT !.price = NoPrice] OBVIOUS
  <2>2. w \in Sights BY <2>1, SightChanged
  <2>3. seen' = [seen EXCEPT ![a] = w] BY <1>0, <1>1, <1>6, <2>1
  <2> QED BY <2>2, <2>3 DEF SeenMoves
<1>7. CASE Screen(a)
  <2>1. s.crossed \ {agent[a].held} \in SUBSET Crossings BY SightChanged
  <2>2. CASE NewlyCrossed(a) /\ seen' = [seen EXCEPT ![a].crossed = @ \ {agent[a].held}]
    <3>1. seen' = [seen EXCEPT ![a].crossed = s.crossed \ {agent[a].held}]
      BY <1>0, <1>1, <2>2
    <3> QED BY <1>3, <2>1, <3>1
  <2>3. CASE UNCHANGED seen BY <2>3
  <2> QED BY <1>7, <2>2, <2>3 DEF Screen
<1>8. CASE AskModel(a)
  <2>1. s.heard \union {agent[a].held} \in SUBSET Holdings BY <1>2, SightChanged
  <2>2. s.unheard \union {agent[a].held} \in SUBSET Holdings BY <1>2, SightChanged
  <2>3. CASE seen' = [seen EXCEPT ![a].unheard = @ \union {agent[a].held}]
    <3>1. seen' = [seen EXCEPT ![a].unheard = s.unheard \union {agent[a].held}]
      BY <1>0, <1>1, <2>3
    <3> QED BY <1>4, <2>2, <3>1
  <2>4. ASSUME NEW d \in {"hold", "buy", "sell", "cut"},
               seen' = [seen EXCEPT ![a].heard = @ \union {agent[a].held},
                                    ![a].price = agent[a].price,
                                    ![a].news = @ /\ d = "cut"]
        PROVE  SeenMoves(a)
    <3>0. PICK n \in BOOLEAN : n = (s.news /\ d = "cut") OBVIOUS
    <3>1. PICK w : w = [s EXCEPT !.heard = s.heard \union {agent[a].held},
                                 !.price = agent[a].price, !.news = n]
      OBVIOUS
    <3>2. w \in Sights BY <1>2, <2>1, <3>1, SightChanged
    <3>3. seen' = [seen EXCEPT ![a] = w] BY <1>0, <1>1, <2>4, <3>0, <3>1
    <3> QED BY <3>2, <3>3 DEF SeenMoves
  <2> QED BY <1>8, <2>3, <2>4 DEF AskModel
<1>9. CASE BandMoves(a)
  <2>1. PICK b \in Bands \ {row[a].held} :
          seen' = [seen EXCEPT ![a].crossed = @ \union ({b} \ {"mid"})]
    BY <1>9 DEF BandMoves
  <2>2. s.crossed \union ({b} \ {"mid"}) \in SUBSET Crossings
    BY SightChanged DEF Bands, Crossings
  <2>3. seen' = [seen EXCEPT ![a].crossed = s.crossed \union ({b} \ {"mid"})]
    BY <1>0, <1>1, <2>1
  <2> QED BY <1>3, <2>2, <2>3
<1>10. CASE Booked(a)
  <2>1. {} \in SUBSET Holdings OBVIOUS
  <2> QED BY <1>4, <1>10, <2>1 DEF Booked
<1>11. CASE Heartbeat(a)
  <2>1. CASE seen' = [seen EXCEPT ![a].crossed = @ \union {row[a].held}]
             /\ row[a].held \in Crossings
    <3>1. s.crossed \union {row[a].held} \in SUBSET Crossings BY <2>1, SightChanged
    <3>2. seen' = [seen EXCEPT ![a].crossed = s.crossed \union {row[a].held}]
      BY <1>0, <1>1, <2>1
    <3> QED BY <1>3, <3>1, <3>2
  <2> QED BY <1>11, <2>1 DEF Heartbeat, Reports
<1>12. CASE Propose(a) BY <1>5, <1>12 DEF Propose
<1>13. CASE Restart(a) BY <1>6, <1>13 DEF Restart
<1> QED
  BY <1>7, <1>8, <1>9, <1>10, <1>11, <1>12, <1>13
  DEF AgentStep, ReportUsage, Settle, RowStep, Filled, OrderFails, AutoExit, Cull

(* The market, and what the bounds leave.                                  *)
LEMMA MarketKept ==
  ASSUME CycleInv, MarketMoves PROVE MarketTyped'
<1>1. market = [price |-> market.price, open |-> market.open, braked |-> market.braked]
  BY DEF CycleInv, MarketTyped
<1>2. ASSUME NEW p \in {market.price - 1, market.price + 1} \intersect (0..MaxPrice),
             market' = [market EXCEPT !.price = p]
      PROVE  MarketTyped'
  <2>1. PICK q \in 0..MaxPrice : q = p OBVIOUS
  <2>2. market' = [market EXCEPT !.price = q] BY <1>2, <2>1
  <2> QED BY <2>2 DEF CycleInv, MarketTyped
<1>3. CASE market' = [market EXCEPT !.open = ~@]
  BY <1>3 DEF CycleInv, MarketTyped
<1>4. CASE market' = [market EXCEPT !.braked = ~@]
  BY <1>4 DEF CycleInv, MarketTyped
<1> QED BY <1>2, <1>3, <1>4 DEF MarketMoves

LEMMA LeftKept ==
  ASSUME LeftTyped, \/ UNCHANGED left \/ Event
                    \/ left.calls > 0 /\ left' = [left EXCEPT !.calls = @ - 1]
  PROVE  LeftTyped'
<1>1. PICK c \in Nat, e \in Nat : left = [calls |-> c, events |-> e]
  BY DEF LeftTyped
<1>2. CASE Event
  <2>1. PICK f \in Nat : f = e - 1 BY <1>1, <1>2 DEF Event
  <2>2. left' = [calls |-> c, events |-> f] BY <1>1, <1>2, <2>1 DEF Event
  <2> QED BY <2>2 DEF LeftTyped
<1>3. CASE left.calls > 0 /\ left' = [left EXCEPT !.calls = @ - 1]
  <2>1. PICK f \in Nat : f = c - 1 BY <1>1, <1>3
  <2>2. left' = [calls |-> f, events |-> e] BY <1>1, <1>3, <2>1
  <2> QED BY <2>2 DEF LeftTyped
<1> QED BY <1>2, <1>3 DEF LeftTyped

LEMMA LeftStep == ASSUME CycleInv, [Next]_vars PROVE LeftTyped'
<1> USE DEF CycleInv
<1>1. ASSUME NEW a \in Agents,
             AgentStep(a) \/ Restart(a) \/ RowStep(a)
      PROVE  LeftTyped'
  BY <1>1, LeftKept
  DEF AgentStep, Heartbeat, Screen, AskModel, ReportUsage, Settle, Propose, Restart,
      Reports, RowStep, Filled, Booked, OrderFails, AutoExit, Cull, BandMoves, Fine
<1>2. CASE MarketMoves \/ NewDay \/ WeekPasses \/ SyncApiCosts \/ BreakerStep \/ ControllerRestart
  BY <1>2, LeftKept
  DEF MarketMoves, NewDay, WeekPasses, SyncApiCosts, BreakerStep, BreakerCounts,
      BreakerCosts, BreakerVerdict, ControllerRestart, Fine
<1> QED BY <1>1, <1>2, LeftKept DEF Next, vars

LEMMA CycleInit == Init => CycleInv
<1> SUFFICES ASSUME Init PROVE CycleInv OBVIOUS
<1>1. PICK scene \in Scenes :
        /\ left = [calls |-> scene.calls, events |-> scene.events]
        /\ row = [a \in Agents |-> [active |-> a \in scene.agents,
                 held |-> IF a \in scene.agents THEN scene.held ELSE "none",
                 buys |-> 0, sells |-> 0, due |-> 0]]
  BY DEF Init
<1>2. /\ scene.held \in {"none"} \union Bands
      /\ scene.calls \in Nat /\ scene.events \in Nat
  BY CycleAssumption
<1>3. AgentTyped /\ Wants
  <2>1. agent = [a \in Agents |-> Idle] BY DEF Init
  <2> QED BY <2>1, IdleTyped DEF AgentTyped, Wants
<1>4. ContextTyped BY FreshTyped DEF Init, ContextTyped
<1>5. RowTyped BY <1>1, <1>2 DEF RowTyped, Rows, Holdings
<1>6. MarketTyped
  <2>1. PICK p \in 0..MaxPrice : p = 1 BY MaxPricePositive
  <2>2. market = [price |-> p, open |-> TRUE, braked |-> FALSE] BY <2>1 DEF Init
  <2> QED BY <2>2 DEF MarketTyped
<1>7. LeftTyped BY <1>1, <1>2 DEF LeftTyped
<1>8. SeenTyped
  <2>1. PICK no \in {NoPrice} : no = NoPrice OBVIOUS
  <2>2. seen = [a \in Agents |-> [crossed |-> {}, heard |-> {}, unheard |-> {},
                                 price |-> no, news |-> FALSE]]
    BY <2>1 DEF Init
  <2> QED BY <2>1, <2>2 DEF SeenTyped, Sights
<1> QED BY <1>3, <1>4, <1>5, <1>6, <1>7, <1>8, CostInit DEF CycleInv

LEMMA CycleStep == CycleInv /\ [Next]_vars => CycleInv'
<1> SUFFICES ASSUME CycleInv, [Next]_vars PROVE CycleInv' OBVIOUS
<1>1. CostInv' BY CostStep DEF CycleInv
<1>2. LeftTyped' BY LeftStep
<1>3. AgentTyped' /\ Wants'
  <2>1. ASSUME NEW a \in Agents, AgentStep(a) \/ Restart(a) PROVE AgentTyped' /\ Wants'
    BY <2>1, LoopMoves, CellMoved DEF CycleInv
  <2>2. CASE UNCHANGED agent BY <2>2 DEF CycleInv, AgentTyped, Wants
  <2> QED
    BY <2>1, <2>2, RowStepFrame
    DEF Next, MarketMoves, NewDay, WeekPasses, SyncApiCosts, BreakerStep, BreakerCounts,
        BreakerCosts, BreakerVerdict, ControllerRestart, vars
<1>4. ContextTyped'
  <2>1. CASE UNCHANGED context BY <2>1 DEF CycleInv, ContextTyped
  <2> QED
    BY <2>1, ContextKept, RowStepFrame
    DEF Next, MarketMoves, NewDay, WeekPasses, SyncApiCosts, BreakerStep, BreakerCounts,
        BreakerCosts, BreakerVerdict, ControllerRestart, vars
<1>5. RowTyped'
  <2>1. ASSUME NEW a \in Agents, AgentStep(a) \/ Restart(a) \/ RowStep(a)
        PROVE  RowTyped'
    BY <2>1, RowKept
  <2>2. CASE UNCHANGED row BY <2>2 DEF CycleInv, RowTyped
  <2>3. CASE ControllerRestart BY <2>3, RestartRows
  <2> QED
    BY <2>1, <2>2, <2>3
    DEF Next, MarketMoves, NewDay, WeekPasses, SyncApiCosts, BreakerStep, BreakerCounts,
        BreakerCosts, BreakerVerdict, vars
<1>6. MarketTyped'
  <2>1. CASE UNCHANGED market BY <2>1 DEF CycleInv, MarketTyped
  <2> QED
    BY <2>1, MarketKept, RowStepFrame
    DEF Next, AgentStep, Heartbeat, Screen, AskModel, ReportUsage, Settle, Propose,
        Restart, NewDay, WeekPasses, SyncApiCosts, BreakerStep, BreakerCounts,
        BreakerCosts, BreakerVerdict, ControllerRestart, vars
<1>7. SeenTyped'
  <2>1. ASSUME NEW a \in Agents,
               AgentStep(a) \/ Restart(a) \/ RowStep(a)
        PROVE  SeenTyped'
    BY <2>1, SeenStep, SeenMoved DEF CycleInv
  <2>2. CASE UNCHANGED seen BY <2>2 DEF CycleInv, SeenTyped
  <2> QED
    BY <2>1, <2>2
    DEF Next, MarketMoves, NewDay, WeekPasses, SyncApiCosts, BreakerStep, BreakerCounts,
        BreakerCosts, BreakerVerdict, ControllerRestart, vars
<1> QED BY <1>1, <1>2, <1>3, <1>4, <1>5, <1>6, <1>7 DEF CycleInv

(* The loop's variables stay what they are meant to be, and an agent that  *)
(* proposes holds an answer other than "hold".                             *)
THEOREM CycleTypeCorrect == Spec => []CycleTypeOK
<1>1. CycleInv => CycleTypeOK
  BY DEF CycleInv, CostInv, BudgetInv, BudgetShape, BooksShape, BreakerShape, AgentTyped,
         ContextTyped, RowTyped, MarketTyped, LeftTyped, SeenTyped, Wants, Cells, Places,
         Memories, Rows, Sights, Holdings, CycleTypeOK
<1> QED BY CycleInit, CycleStep, <1>1, PTL DEF Spec

-----------------------------------------------------------------------------
(* Why the model is asked.  An agent that is about to ask goes by what it  *)
(* remembers (context) and what its heartbeat told it; the property speaks *)
(* of what the model has been shown (seen).  Sound relates the two:        *)
(*   - a threshold the holding has crossed and the agent does not remember *)
(*     is one the model has not been shown, once the process has asked;    *)
(*   - the same of the holding of the heartbeat, which may by now be       *)
(*     another one, but then by a crossing of its own;                     *)
(*   - the fingerprint is that of the price last shown, save between an    *)
(*     answer and its settling;                                            *)
(*   - an action other than "hold" is remembered only with news of it, to  *)
(*     which an answer cut short adds nothing.                             *)

Remembered(a, b) == b \in Crossings => b \in context[a].escalated \/ b \in seen[a].crossed

Sound(a) ==
    /\ agent[a].pc = "ask" \/ seen[a].price # NoPrice => Remembered(a, row[a].held)
    /\ agent[a].pc = "screen" =>
         /\ seen[a].price # NoPrice => Remembered(a, agent[a].held)
         /\ row[a].held \in Crossings =>
              row[a].held = agent[a].held \/ row[a].held \in seen[a].crossed
    /\ seen[a].price # NoPrice =>
         IF agent[a].pc \in {"usage", "settle"}
           THEN seen[a].price = agent[a].price
           ELSE context[a].fingerprint = Fingerprint(seen[a].price)
    /\ /\ agent[a].pc \in {"sleep", "screen", "ask"} \/ agent[a].decision = "cut"
       /\ context[a].action # "hold"
       => seen[a].news

ReasonInv == CycleInv /\ \A a \in Agents : Sound(a)

(* Sound speaks of one agent's four records and of nothing else.           *)
LEMMA SoundSame ==
  ASSUME NEW b, Sound(b), agent'[b] = agent[b], context'[b] = context[b],
         row'[b] = row[b], seen'[b] = seen[b]
  PROVE  Sound(b)'
BY DEF Sound, Remembered, Fingerprint

LEMMA ReasonInit == Init => ReasonInv
<1> SUFFICES ASSUME Init, NEW a \in Agents PROVE Sound(a)
  BY CycleInit DEF ReasonInv
<1>1. agent[a] = Idle /\ context[a] = Fresh BY DEF Init
<1>2. agent[a].pc = "sleep" /\ context[a].action = "hold"
  BY <1>1, IdleTyped, FreshTyped
<1>3. seen[a].price = NoPrice BY DEF Init
<1> QED BY <1>2, <1>3 DEF Sound

LEMMA AgentFields ==
  ASSUME CycleInv, NEW a \in Agents
  PROVE  /\ agent[a] \in Cells /\ context[a] \in Memories
         /\ row[a] \in Rows /\ seen[a] \in Sights
BY DEF CycleInv, AgentTyped, ContextTyped, RowTyped, SeenTyped

LEMMA AsleepSound ==
  ASSUME CycleInv, NEW a \in Agents, Sleep(a) PROVE agent'[a].pc = "sleep"
BY IdleTyped DEF Sleep, CycleInv, AgentTyped

LEMMA HeartbeatSound ==
  ASSUME CycleInv, NEW a \in Agents, Sound(a), Heartbeat(a) PROVE Sound(a)'
<1>1. agent[a].pc = "sleep" /\ context' = context /\ row' = row BY DEF Heartbeat
<1>2. row[a].held \in Holdings BY AgentFields DEF Rows
<1>3. CASE row[a].active /\ ShouldThink /\ BudgetRemaining
  <2>1. PICK h \in Bands \union {"none"} :
          Reports(a, h) /\ agent' = [agent EXCEPT ![a] = Awake(h)]
    BY <1>3, HeartbeatWakes
  <2>2. agent'[a] = Awake(h) BY <2>1 DEF CycleInv, AgentTyped
  <2>3. agent'[a].pc = "screen" /\ agent'[a].held = h
    BY <2>2, AwakeTyped DEF Holdings
  <2>4. CASE h = row[a].held /\ UNCHANGED seen
    BY <1>1, <2>3, <2>4 DEF Sound, Remembered, Fingerprint
  <2>5. CASE /\ row[a].held \in Crossings /\ h = "mid"
             /\ seen' = [seen EXCEPT ![a].crossed = @ \union {row[a].held}]
    <3>1. /\ seen'[a].price = seen[a].price /\ seen'[a].news = seen[a].news
          /\ seen'[a].crossed = seen[a].crossed \union {row[a].held}
      BY <2>5, AgentFields DEF CycleInv, SeenTyped, Sights
    <3>2. "mid" \notin Crossings BY DEF Crossings
    <3> QED BY <1>1, <2>3, <2>5, <3>1, <3>2 DEF Sound, Remembered, Fingerprint
  <2> QED BY <2>1, <2>4, <2>5 DEF Reports
<1>4. CASE ~(row[a].active /\ ShouldThink /\ BudgetRemaining)
  <2>1. agent' = [agent EXCEPT ![a] = Refused] /\ seen' = seen
    BY <1>4 DEF Heartbeat, Refused
  <2>2. agent'[a] = Refused BY <2>1 DEF CycleInv, AgentTyped
  <2>3. agent'[a].pc = "sleep" BY <2>2, RefusedTyped
  <2> QED BY <1>1, <2>1, <2>3 DEF Sound, Remembered, Fingerprint
<1> QED BY <1>3, <1>4

LEMMA ScreenSound ==
  ASSUME CycleInv, NEW a \in Agents, Sound(a), Screen(a) PROVE Sound(a)'
<1>1. agent[a].pc = "screen" /\ row' = row BY DEF Screen
<1>2. CASE Sleep(a) /\ UNCHANGED <<context, seen>>
  BY <1>1, <1>2, AsleepSound DEF Sound, Remembered, Fingerprint
<1>3. CASE /\ context' = [context EXCEPT ![a].escalated = Escalated(a)]
           /\ IF WorthAsking(a)
                THEN agent' = [agent EXCEPT ![a] =
                                [@ EXCEPT !.pc = "ask", !.price = market.price]]
                ELSE Sleep(a)
           /\ seen' = IF NewlyCrossed(a)
                        THEN [seen EXCEPT ![a].crossed = @ \ {agent[a].held}] ELSE seen
  <2>1. /\ context'[a].escalated = Escalated(a)
        /\ context'[a].fingerprint = context[a].fingerprint
        /\ context'[a].action = context[a].action
    BY <1>3, AgentFields DEF CycleInv, ContextTyped, Memories
  <2>2. /\ seen'[a].price = seen[a].price /\ seen'[a].news = seen[a].news
        /\ seen'[a].crossed = IF NewlyCrossed(a)
                                THEN seen[a].crossed \ {agent[a].held}
                                ELSE seen[a].crossed
    BY <1>3, AgentFields DEF CycleInv, SeenTyped, Sights
  <2>3. agent'[a].pc \in {"ask", "sleep"}
    <3>1. CASE Sleep(a) BY <3>1, AsleepSound
    <3>2. CASE agent' = [agent EXCEPT ![a] = [@ EXCEPT !.pc = "ask", !.price = market.price]]
      BY <3>2, AgentFields DEF CycleInv, AgentTyped, Cells
    <3> QED BY <1>3, <3>1, <3>2
  <2>4. agent[a].held \in Holdings /\ row[a].held \in Holdings
    BY AgentFields DEF Cells, Rows
  <2>5. Remembered(a, row[a].held)'
    <3>1. SUFFICES ASSUME row[a].held \in Crossings, row[a].held \notin Escalated(a)
                   PROVE  row[a].held \in seen'[a].crossed
      BY <1>1, <2>1 DEF Remembered
    <3>2. row[a].held = agent[a].held \/ row[a].held \in seen[a].crossed
      BY <1>1, <3>1 DEF Sound
    <3>3. row[a].held # agent[a].held
      BY <3>1 DEF Escalated, Crossings
    <3> QED BY <2>2, <3>2, <3>3
  <2> QED BY <1>1, <2>1, <2>2, <2>3, <2>5 DEF Sound, Fingerprint
<1> QED BY <1>2, <1>3 DEF Screen

LEMMA AskModelSound ==
  ASSUME CycleInv, NEW a \in Agents, Sound(a), AskModel(a) PROVE Sound(a)'
<1>1. agent[a].pc = "ask" /\ row' = row /\ context' = context BY DEF AskModel
<1>2. CASE Sleep(a) /\ seen' = [seen EXCEPT ![a].unheard = @ \union {agent[a].held}]
  <2>1. /\ seen'[a].price = seen[a].price /\ seen'[a].news = seen[a].news
        /\ seen'[a].crossed = seen[a].crossed
    BY <1>2, AgentFields DEF CycleInv, SeenTyped, Sights
  <2> QED BY <1>1, <1>2, <2>1, AsleepSound DEF Sound, Remembered, Fingerprint
<1>3. ASSUME NEW d \in {"hold", "buy", "sell", "cut"},
             agent' = [agent EXCEPT ![a] = [@ EXCEPT !.pc = "usage", !.decision = d]],
             seen' = [seen EXCEPT ![a].heard = @ \union {agent[a].held},
                                  ![a].price = agent[a].price,
                                  ![a].news = @ /\ d = "cut"]
      PROVE  Sound(a)'
  <2>1. /\ agent'[a].pc = "usage" /\ agent'[a].price = agent[a].price
        /\ agent'[a].decision = d
    BY <1>3, AgentFields DEF CycleInv, AgentTyped, Cells
  <2>2. /\ seen'[a].price = agent[a].price /\ seen'[a].crossed = seen[a].crossed
        /\ seen'[a].news = (seen[a].news /\ d = "cut")
    BY <1>3, AgentFields DEF CycleInv, SeenTyped, Sights
  <2> QED BY <1>1, <2>1, <2>2 DEF Sound, Remembered
<1> QED BY <1>2, <1>3 DEF AskModel

LEMMA ReportUsageSound ==
  ASSUME CycleInv, NEW a \in Agents, Sound(a), ReportUsage(a) PROVE Sound(a)'
<1>1. /\ agent[a].pc = "usage" /\ row' = row /\ context' = context /\ seen' = seen
      /\ agent' = [agent EXCEPT ![a].pc = "settle"]
  BY DEF ReportUsage, Go
<1>2. /\ agent'[a].pc = "settle" /\ agent'[a].price = agent[a].price
      /\ agent'[a].decision = agent[a].decision
  BY <1>1, AgentFields DEF CycleInv, AgentTyped, Cells
<1> QED BY <1>1, <1>2 DEF Sound, Remembered

LEMMA SettleSound ==
  ASSUME CycleInv, NEW a \in Agents, Sound(a), Settle(a) PROVE Sound(a)'
<1>1. agent[a].pc = "settle" /\ row' = row /\ seen' = seen BY DEF Settle
<1>2. context' = [context EXCEPT ![a].fingerprint = Fingerprint(agent[a].price),
                                 ![a].action = IF Holds(a) THEN "hold" ELSE @]
  BY DEF Settle
<1>3. PICK m \in Memories : m = context[a] BY AgentFields
<1>4. PICK f, d : f = Fingerprint(agent[a].price)
                    /\ d = (IF Holds(a) THEN "hold" ELSE m.action)
  OBVIOUS
<1>5. context'[a] = [m EXCEPT !.fingerprint = f, !.action = d]
  BY <1>2, <1>3, <1>4 DEF CycleInv, ContextTyped
<1>6. /\ context'[a].fingerprint = f /\ context'[a].action = d
      /\ context'[a].escalated = context[a].escalated
  BY <1>3, <1>5 DEF Memories
<1>7. \/ (Holds(a) \/ agent[a].decision = "cut") /\ agent'[a].pc = "sleep"
      \/ agent'[a].pc = "propose" /\ agent'[a].decision # "cut"
  <2>1. CASE Holds(a) \/ agent[a].decision = "cut" BY <2>1, AsleepSound DEF Settle
  <2>2. CASE ~(Holds(a) \/ agent[a].decision = "cut")
    <3>1. agent' = [agent EXCEPT ![a].pc = "propose"] BY <2>2 DEF Settle, Go
    <3> QED BY <2>2, <3>1, AgentFields DEF CycleInv, AgentTyped, Cells
  <2> QED BY <2>1, <2>2
<1> QED BY <1>1, <1>3, <1>4, <1>6, <1>7 DEF Sound, Remembered

LEMMA ProposeSound ==
  ASSUME CycleInv, NEW a \in Agents, Sound(a), Propose(a) PROVE Sound(a)'
<1>1. agent[a].pc = "propose" /\ agent'[a].pc = "sleep"
  BY AsleepSound DEF Propose
<1>2. row'[a].held = row[a].held BY ProposeRows
<1>3. /\ context'[a].fingerprint = context[a].fingerprint
      /\ context'[a].escalated = context[a].escalated
  <2>1. ASSUME NEW d, context' = [context EXCEPT ![a].action = d]
        PROVE  /\ context'[a].fingerprint = context[a].fingerprint
               /\ context'[a].escalated = context[a].escalated
    BY <2>1, AgentFields DEF CycleInv, ContextTyped, Memories
  <2> QED BY <2>1 DEF Propose
<1>4. seen'[a].price = seen[a].price /\ seen'[a].crossed = seen[a].crossed
  <2>1. CASE seen' = [seen EXCEPT ![a].news = TRUE]
    BY <2>1, AgentFields DEF CycleInv, SeenTyped, Sights
  <2> QED BY <2>1 DEF Propose
<1>5. seen'[a].news \/ context'[a].action = "hold"
  <2>1. CASE seen' = [seen EXCEPT ![a].news = TRUE]
    BY <2>1, AgentFields DEF CycleInv, SeenTyped, Sights
  <2>2. CASE context' = [context EXCEPT ![a].action = "hold"]
    BY <2>2, AgentFields DEF CycleInv, ContextTyped, Memories
  <2> QED BY <2>1, <2>2 DEF Propose
<1> QED BY <1>1, <1>2, <1>3, <1>4, <1>5 DEF Sound, Remembered, Fingerprint

LEMMA RestartSound ==
  ASSUME CycleInv, NEW a \in Agents, Sound(a), Restart(a) PROVE Sound(a)'
<1>1. agent'[a].pc = "sleep" BY AsleepSound DEF Restart
<1>2. context'[a].action = "hold"
  BY FreshTyped DEF Restart, CycleInv, ContextTyped
<1>3. seen'[a].price = NoPrice
  BY AgentFields DEF Restart, CycleInv, SeenTyped, Sights
<1> QED BY <1>1, <1>2, <1>3 DEF Sound

(* A booking changes what has been heard; a fill leaves a holding, or a    *)
(* fresh one in the middle band.                                           *)
LEMMA HoldingSound ==
  ASSUME CycleInv, NEW a \in Agents, Sound(a), RowStep(a), ~BandMoves(a) PROVE Sound(a)'
<1>1. agent' = agent /\ context' = context BY RowStepFrame
<1>2. row'[a].held \in {"none", "mid", row[a].held}
  <2>1. RowMoves(a) BY FilledRows, BookedRows, OrderRows, CullRows DEF RowStep
  <2> QED BY <2>1 DEF RowMoves, CycleInv, RowTyped
<1>3. /\ seen'[a].price = seen[a].price /\ seen'[a].news = seen[a].news
      /\ seen'[a].crossed = seen[a].crossed
  <2>1. CASE seen' = [seen EXCEPT ![a].heard = {}]
    BY <2>1, AgentFields DEF CycleInv, SeenTyped, Sights
  <2> QED BY <2>1 DEF RowStep, Filled, Booked, OrderFails, AutoExit, Cull
<1>4. "none" \notin Crossings /\ "mid" \notin Crossings BY DEF Crossings
<1> QED BY <1>1, <1>2, <1>3, <1>4 DEF Sound, Remembered, Fingerprint

LEMMA BandMovesSound ==
  ASSUME CycleInv, NEW a \in Agents, Sound(a), BandMoves(a) PROVE Sound(a)'
<1>1. agent' = agent /\ context' = context BY DEF BandMoves
<1>2. PICK b \in Bands \ {row[a].held} :
        /\ row' = [row EXCEPT ![a].held = b]
        /\ seen' = [seen EXCEPT ![a].crossed = @ \union ({b} \ {"mid"})]
  BY DEF BandMoves
<1>3. row'[a].held = b
  BY <1>2, AgentFields DEF CycleInv, RowTyped, Rows
<1>4. /\ seen'[a].price = seen[a].price /\ seen'[a].news = seen[a].news
      /\ seen'[a].crossed = seen[a].crossed \union ({b} \ {"mid"})
  BY <1>2, AgentFields DEF CycleInv, SeenTyped, Sights
<1>5. b \in Crossings => b \in seen'[a].crossed BY <1>4 DEF Crossings
<1> QED BY <1>1, <1>3, <1>4, <1>5 DEF Sound, Remembered, Fingerprint

(* The step of one agent, and the others beside it.                        *)
LEMMA OthersSound ==
  ASSUME CycleInv, NEW a \in Agents, NEW b \in Agents \ {a}, Sound(b),
         AgentStep(a) \/ Restart(a) \/ RowStep(a)
  PROVE  Sound(b)'
<1>1. agent'[b] = agent[b]
  <2>1. CASE CellMoves(a) BY <2>1 DEF CellMoves, CycleInv, AgentTyped
  <2>2. CASE UNCHANGED agent BY <2>2
  <2> QED BY <2>1, <2>2, LoopMoves, RowStepFrame
<1>2. row'[b] = row[b] BY RowKept
<1>3. seen'[b] = seen[b]
  <2>1. CASE SeenMoves(a) BY <2>1 DEF SeenMoves, CycleInv, SeenTyped
  <2>2. CASE UNCHANGED seen BY <2>2
  <2> QED BY <2>1, <2>2, SeenStep
<1>4. context'[b] = context[b]
  BY RowStepFrame
  DEF AgentStep, Heartbeat, Screen, AskModel, ReportUsage, Settle, Propose, Restart,
      CycleInv, ContextTyped
<1> QED BY <1>1, <1>2, <1>3, <1>4, SoundSame

LEMMA ReasonStep == ReasonInv /\ [Next]_vars => ReasonInv'
<1> SUFFICES ASSUME ReasonInv, [Next]_vars PROVE ReasonInv' OBVIOUS
<1>0. CycleInv /\ CycleInv' BY CycleStep DEF ReasonInv
<1>1. ASSUME NEW a \in Agents,
             AgentStep(a) \/ Restart(a) \/ RowStep(a)
      PROVE  \A b \in Agents : Sound(b)'
  <2>1. Sound(a) BY DEF ReasonInv
  <2>2. Sound(a)'
    BY <1>0, <1>1, <2>1, HeartbeatSound, ScreenSound, AskModelSound, ReportUsageSound,
       SettleSound, ProposeSound, RestartSound, HoldingSound, BandMovesSound
    DEF AgentStep
  <2>3. \A b \in Agents \ {a} : Sound(b)'
    BY <1>0, <1>1, OthersSound DEF ReasonInv
  <2> QED BY <2>2, <2>3
<1>2. ASSUME UNCHANGED <<agent, context, row, seen>>, NEW b \in Agents PROVE Sound(b)'
  <2>1. Sound(b) BY DEF ReasonInv
  <2> QED BY <1>2, <2>1, SoundSame
<1>3. CASE MarketMoves \/ NewDay \/ WeekPasses \/ SyncApiCosts \/ BreakerStep
             \/ UNCHANGED vars
  BY <1>0, <1>2, <1>3
  DEF MarketMoves, NewDay, WeekPasses, SyncApiCosts, BreakerStep, BreakerCounts,
      BreakerCosts, BreakerVerdict, vars, ReasonInv
<1>4. CASE ControllerRestart
  <2>1. UNCHANGED <<agent, context, seen>> BY <1>4 DEF ControllerRestart
  <2>2. ASSUME NEW b \in Agents PROVE Sound(b)'
    <3>1. Sound(b) /\ row'[b].held = row[b].held BY <1>0, <1>4, RestartRows DEF ReasonInv
    <3> QED BY <2>1, <3>1 DEF Sound, Remembered, Fingerprint
  <2> QED BY <1>0, <2>2 DEF ReasonInv
<1> QED BY <1>0, <1>1, <1>3, <1>4 DEF Next, ReasonInv

(* The model is only paid again for another price than the last, for a     *)
(* proposal since its last complete answer that went through or got no     *)
(* reply, or for a crossing of the holding it has not been shown or that a *)
(* lost quote made the agent forget; whatever restarts, failing calls,     *)
(* answers cut short and fills of any number of agents come between.       *)
THEOREM ModelIsAskedForAReason == Spec => AsksForAReason
<1>1. ReasonInv /\ [Next]_vars =>
        \A a \in Agents :
          agent[a].pc = "screen" /\ agent'[a].pc = "ask" =>
            \/ agent[a].held \in seen[a].crossed
            \/ seen[a].price # market.price
            \/ seen[a].news
  <2> SUFFICES ASSUME ReasonInv, [Next]_vars, NEW a \in Agents,
                      agent[a].pc = "screen", agent'[a].pc = "ask"
               PROVE  \/ agent[a].held \in seen[a].crossed
                      \/ seen[a].price # market.price
                      \/ seen[a].news
    OBVIOUS
  <2>0. CycleInv /\ Sound(a) BY DEF ReasonInv
  <2>1. PICK c \in Agents :
          AgentStep(c) \/ Restart(c)
    <3>1. agent' # agent OBVIOUS
    <3> QED
      BY <3>1, RowStepFrame
      DEF Next, MarketMoves, NewDay, WeekPasses, SyncApiCosts, BreakerStep, BreakerCounts,
          BreakerCosts, BreakerVerdict, ControllerRestart, vars
  <2>2. c = a
    <3>1. CellMoves(c) BY <2>0, <2>1, LoopMoves
    <3>2. c # a => agent'[a] = agent[a] BY <2>0, <3>1 DEF CellMoves, CycleInv, AgentTyped
    <3> QED BY <3>2
  <2>3. Screen(a)
    BY <2>0, <2>1, <2>2, AsleepSound
    DEF AgentStep, Heartbeat, AskModel, ReportUsage, Settle, Propose, Restart
  <2>4. WorthAsking(a) BY <2>0, <2>3, AsleepSound DEF Screen
  <2>5. market.price \in 0..MaxPrice BY <2>0 DEF CycleInv, MarketTyped
  <2>6. CASE seen[a].price = NoPrice
    BY <2>5, <2>6, MaxPricePositive DEF NoPrice
  <2>7. CASE seen[a].price # NoPrice
    <3>1. Remembered(a, agent[a].held) BY <2>0, <2>7 DEF Sound
    <3>2. context[a].fingerprint = Fingerprint(seen[a].price) BY <2>0, <2>7 DEF Sound
    <3>3. CASE NewlyCrossed(a) BY <3>1, <3>3 DEF NewlyCrossed, Remembered
    <3>4. CASE Fingerprint(market.price) # context[a].fingerprint BY <3>2, <3>4
    <3>5. CASE context[a].action # "hold" BY <2>0, <3>5 DEF Sound
    <3> QED BY <2>4, <3>3, <3>4, <3>5 DEF WorthAsking
  <2> QED BY <2>6, <2>7
<1> QED BY ReasonInit, ReasonStep, <1>1, PTL DEF Spec, AsksForAReason
=============================================================================
