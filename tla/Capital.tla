------------------------------ MODULE Capital ------------------------------
(***************************************************************************)
(* How the Controller seeds, funds and culls agents: app.bootstrap,        *)
(* app.reconcile and POST /capital/inject, next to the order sync that     *)
(* books fills into the same balances.  Each database transaction and each *)
(* call to Kubernetes is one step.                                         *)
(*                                                                         *)
(* An agent's positions are one number, their value at the last price seen *)
(* (positions.last_price); how long ago it traded is left open, so that    *)
(* db.rolling_pnl_trend may have any sign.                                 *)
(***************************************************************************)
EXTENDS Integers, FiniteSets, FiniteSetsExt

CONSTANTS
  Names,         \* agent names there can be; none is used twice (uuid4)
  StartCash,     \* cash of the broker's account when the ledger is empty
  PodCount,      \* initial_pod_count
  MinCapital, MaxCapital,
  Floor,         \* min_capital * cull_floor_fraction
  Amounts,       \* what the owner may inject
  Prices,        \* values an agent's positions may come to have
  MaxInjections, MaxTrades, MaxMoves,   \* bounds
  MaxCrashes,    \* ... and how often the controller dies or a pass is cut short
  Environments   \* what may go wrong: subsets of Disturbances, one per behaviour

\* overlap: trades and injections while a reconcile pass is under way
Disturbances == {"crash", "k8s_error", "db_error", "account_unreadable", "overlap"}

ASSUME CapitalAssumption ==
  /\ IsFiniteSet(Names)
  /\ {StartCash, MinCapital, MaxCapital, Floor, MaxInjections, MaxTrades, MaxMoves,
     MaxCrashes} \subseteq Nat
  /\ MinCapital > 0 /\ PodCount \in Nat \ {0} /\ PodCount <= Cardinality(Names)
  /\ Amounts \subseteq Nat /\ Prices \subseteq Nat
  /\ Environments \subseteq SUBSET Disturbances

VARIABLES
  env,       \* the behaviour's environment
  row,       \* table agents: status and current_balance
  held,      \* value of an agent's positions
  pool,      \* table unallocated_pool
  pods,      \* names with a Kubernetes deployment
  account,   \* what the broker's account is worth: portfolio_value
  ct,        \* the controller: starting, seeding (from what cash, how many to go) or up
  rc,        \* the reconcile job
  inj,       \* a POST /capital/inject under way
  bk,        \* a fill being booked by the order sync
  used       \* how much of the bounds is used up

vars == <<env, row, held, pool, pods, account, ct, rc, inj, bk, used>>

Row == [st : {"none", "active", "culled"}, cash : Int]
NoRow == [st |-> "none", cash |-> 0]

Active == {a \in Names : row[a].st = "active"}
Known  == {a \in Names : row[a].st # "none"}

\* The locals of a reconcile pass.  agents: the list it began with; bal: the balances of
\* the list last read; cur: the agent at hand; got: the pool read for a cull; pool,
\* target and list: `pool`, `target_count` and `active_agents`; share: the not_losing
\* agents still to be topped up.
IdlePass == [pc |-> "idle", agents |-> {}, bal |-> [a \in Names |-> 0], todo |-> {},
             cur |-> {}, got |-> 0, pool |-> 0, target |-> 0, list |-> {}, share |-> {}]
IdleInj == [pc |-> "idle", amount |-> 0, pool |-> 0]
IdleBk  == [pc |-> "idle", agent |-> {}, bal |-> 0, val |-> 0]

PassPC == {"idle", "agent", "worth", "mark", "return", "refund", "pod", "pool", "spawn",
           "deploy", "list", "trend", "topup", "store"}

SumOf(f, S) == MapThenSumSet(LAMBDA a : f[a], S)

\* alpaca_client.get_account()["cash"]: what of the account is not in positions
AccountCash == account - SumOf(held, Names)

\* balances of the agents db.list_active_agents returns
ActiveBalances == [a \in Names |-> IF a \in Active THEN row[a].cash ELSE 0]

CapitalTypeOK ==
  /\ env \in Environments
  /\ row \in [Names -> Row]
  /\ held \in [Names -> Nat]
  /\ pool \in Nat
  /\ pods \subseteq Names
  /\ account \in Nat
  /\ ct \in [pc : {"start", "seed", "deploy", "up"}, left : 0 .. PodCount, cash : Nat,
             name : SUBSET Names]
  /\ rc \in [pc : PassPC, agents : SUBSET Names, bal : [Names -> Int], todo : SUBSET Names,
             cur : SUBSET Names, got : Int, pool : Int, target : Nat, list : SUBSET Names,
             share : SUBSET Names]
  /\ inj \in [pc : {"idle", "write"}, amount : Amounts \cup {0}, pool : Nat]
  /\ bk \in [pc : {"idle", "cash", "position"}, agent : SUBSET Names, bal : Int, val : Nat]
  /\ used \in [injections : 0 .. MaxInjections, trades : 0 .. MaxTrades, moves : 0 .. MaxMoves,
               crashes : 0 .. MaxCrashes]

Starting == [pc |-> "start", left |-> 0, cash |-> 0, name |-> {}]
Running  == [pc |-> "up", left |-> 0, cash |-> 0, name |-> {}]

Init ==
  /\ env \in Environments
  /\ row = [a \in Names |-> NoRow]
  /\ held = [a \in Names |-> 0]
  /\ pool = 0
  /\ pods = {}
  /\ account = StartCash
  /\ ct = Starting
  /\ rc = IdlePass
  /\ inj = IdleInj
  /\ bk = IdleBk
  /\ used = [injections |-> 0, trades |-> 0, moves |-> 0, crashes |-> 0]

Up == ct.pc = "up"
Calm == env = {}
Alone == "overlap" \in env \/ (rc.pc = "idle" /\ inj.pc = "idle" /\ bk.pc = "idle")

----------------------------------------------------------------------------
\* app.bootstrap, before the scheduler and the web server start.

\* db.agent_count() > 0, the account cannot be read, or it has too little
BootSkip ==
  /\ ct.pc = "start"
  /\ \/ Known # {}
     \/ "account_unreadable" \in env
     \/ AccountCash < MinCapital * PodCount
  /\ ct' = Running
  /\ UNCHANGED <<env, row, held, pool, pods, account, rc, inj, bk, used>>

\* Mutant of BootBegin: the agents already in the ledger are not counted.
BootBeginAgain ==
  /\ ct.pc = "start"
  /\ AccountCash >= MinCapital * PodCount
  /\ ct' = [pc |-> "seed", left |-> PodCount, cash |-> AccountCash, name |-> {}]
  /\ UNCHANGED <<env, row, held, pool, pods, account, rc, inj, bk, used>>

\* the account as it is at this start, which a restart may find changed
BootBegin ==
  /\ ct.pc = "start"
  /\ Known = {} /\ AccountCash >= MinCapital * PodCount
  /\ ct' = [pc |-> "seed", left |-> PodCount, cash |-> AccountCash, name |-> {}]
  /\ UNCHANGED <<env, row, held, pool, pods, account, rc, inj, bk, used>>

\* on to the next agent, or bootstrap is through
SeedNext ==
  ct' = IF ct.left = 1 THEN Running
        ELSE [pc |-> "seed", left |-> ct.left - 1, cash |-> ct.cash, name |-> {}]

\* db.create_agent
BootCreate(a) ==
  /\ ct.pc = "seed" /\ a \notin Known
  /\ row' = [row EXCEPT ![a] = [st |-> "active", cash |-> ct.cash \div PodCount]]
  /\ ct' = [ct EXCEPT !.pc = "deploy", !.name = {a}]
  /\ UNCHANGED <<env, held, pool, pods, account, rc, inj, bk, used>>

\* ... raises: "continuing with remaining agents"
BootFail ==
  /\ \/ ct.pc = "seed" /\ "db_error" \in env
     \/ ct.pc = "deploy" /\ "k8s_error" \in env
  /\ SeedNext
  /\ UNCHANGED <<env, row, held, pool, pods, account, rc, inj, bk, used>>

\* k8s_client.spawn_agent_pod
BootDeploy ==
  /\ ct.pc = "deploy"
  /\ pods' = pods \cup ct.name
  /\ SeedNext
  /\ UNCHANGED <<env, row, held, pool, account, rc, inj, bk, used>>

----------------------------------------------------------------------------
\* app.reconcile (max_instances=1): first every agent of the list it read.

PassBegin ==
  /\ Up /\ rc.pc = "idle" /\ Alone
  /\ rc' = [IdlePass EXCEPT !.pc = IF Active = {} THEN "pool" ELSE "agent",
                            !.agents = Active, !.todo = Active,
                            !.bal = ActiveBalances]
  /\ UNCHANGED <<env, row, held, pool, pods, account, ct, inj, bk, used>>

\* The scale-up loop asks for a sibling at the ceiling.  spawn_sibling_transaction
\* subtracts the float it was given from the Decimal it read, which raises: the
\* transaction is rolled back, the error logged and the loop left, every time.
PassScale(a) ==
  /\ rc.pc = "agent" /\ a \in rc.todo
  /\ rc' = [rc EXCEPT !.pc = "worth", !.todo = @ \ {a}, !.cur = {a}]
  /\ UNCHANGED <<env, row, held, pool, pods, account, ct, inj, bk, used>>

\* done with an agent
NextAgent(r) ==
  [r EXCEPT !.pc = IF r.todo = {} THEN "pool" ELSE "agent", !.cur = {}, !.got = 0]

\* total value: the balance of the list, and the positions as they are now
Worth(a) == rc.bal[a] + held[a]

\* db.list_open_positions
PassWorth(a) ==
  /\ rc.pc = "worth" /\ a \in rc.cur
  /\ rc' = IF Worth(a) <= Floor THEN [rc EXCEPT !.pc = "mark"] ELSE NextAgent(rc)
  /\ UNCHANGED <<env, row, held, pool, pods, account, ct, inj, bk, used>>

\* db.set_status
CullMark(a) ==
  /\ rc.pc = "mark" /\ a \in rc.cur
  /\ row' = [row EXCEPT ![a].st = "culled"]
  /\ rc' = [rc EXCEPT !.pc = "return"]
  /\ UNCHANGED <<env, held, pool, pods, account, ct, inj, bk, used>>

\* db.get_pool_balance
CullRead ==
  /\ rc.pc = "return"
  /\ rc' = [rc EXCEPT !.pc = "refund", !.got = pool]
  /\ UNCHANGED <<env, row, held, pool, pods, account, ct, inj, bk, used>>

\* db.set_pool_balance with the pool read and the balance of the list
CullReturn(a) ==
  /\ rc.pc = "refund" /\ a \in rc.cur
  /\ pool' = rc.got + (IF rc.bal[a] > 0 THEN rc.bal[a] ELSE 0)
  /\ rc' = [rc EXCEPT !.pc = "pod"]
  /\ UNCHANGED <<env, row, held, pods, account, ct, inj, bk, used>>

\* Mutant of CullPod: the deployment is left running.
CullNoPod ==
  /\ rc.pc = "pod"
  /\ rc' = NextAgent(rc)
  /\ UNCHANGED <<env, row, held, pool, pods, account, ct, inj, bk, used>>

\* k8s_client.delete_agent_pod; an error other than 404 ends the whole pass
CullPod ==
  /\ rc.pc = "pod"
  /\ \/ /\ pods' = pods \ rc.cur
        /\ rc' = NextAgent(rc)
     \/ /\ "k8s_error" \in env
        /\ rc' = IdlePass
        /\ UNCHANGED pods
  /\ UNCHANGED <<env, row, held, pool, account, ct, inj, bk, used>>

----------------------------------------------------------------------------
\* ... then the pool.

\* Mutant of Wanted: the pool is not asked whether it can pay.
WantedUnpaid(r) == Cardinality(r.list) < r.target

\* more agents are wanted, and the pool pays for one
Wanted(r) == Cardinality(r.list) < r.target /\ r.pool >= MinCapital

\* db.get_pool_balance.  The list still holds the agents this pass has culled.
PassPool ==
  LET total == SumOf(rc.bal, rc.agents) + pool
      r == [rc EXCEPT !.pool = pool, !.list = rc.agents,
                      !.target = IF total > 0 THEN total \div MinCapital ELSE 0]
  IN
  /\ rc.pc = "pool"
  /\ rc' = IF pool = 0 \/ rc.agents = {} THEN IdlePass
           ELSE [r EXCEPT !.pc = IF Wanted(r) THEN "spawn" ELSE "trend"]
  /\ UNCHANGED <<env, row, held, pool, pods, account, ct, inj, bk, used>>

\* db.spawn_from_pool_transaction: the pool's row is not touched
PoolSpawn(a) ==
  /\ rc.pc = "spawn" /\ a \notin Known
  /\ row' = [row EXCEPT ![a] = [st |-> "active", cash |-> MinCapital]]
  /\ rc' = [rc EXCEPT !.pc = "deploy", !.cur = {a}]
  /\ UNCHANGED <<env, held, pool, pods, account, ct, inj, bk, used>>

\* Mutant of PoolDeploy: the new agent's capital is not taken off the pool.
PoolDeployFree ==
  /\ rc.pc = "deploy"
  /\ pods' = pods \cup rc.cur
  /\ rc' = [rc EXCEPT !.pc = "list"]
  /\ UNCHANGED <<env, row, held, pool, account, ct, inj, bk, used>>

\* k8s_client.spawn_agent_pod, and only then pool -= min_capital
PoolDeploy ==
  /\ rc.pc = "deploy"
  /\ pods' = pods \cup rc.cur
  /\ rc' = [rc EXCEPT !.pc = "list", !.pool = @ - MinCapital]
  /\ UNCHANGED <<env, row, held, pool, account, ct, inj, bk, used>>

\* One of the three calls raises: the loop is left with the list and the pool as they
\* are, the pool reduced only if it is the list that could not be read again.
PoolFail ==
  /\ \/ rc.pc \in {"spawn", "list"} /\ "db_error" \in env
     \/ rc.pc = "deploy" /\ "k8s_error" \in env
  /\ rc' = [rc EXCEPT !.pc = "trend"]
  /\ UNCHANGED <<env, row, held, pool, pods, account, ct, inj, bk, used>>

\* active_agents = db.list_active_agents()
PoolList ==
  /\ rc.pc = "list"
  /\ LET r == [rc EXCEPT !.list = Active, !.bal = ActiveBalances]
     IN  rc' = [r EXCEPT !.pc = IF Wanted(r) THEN "spawn" ELSE "trend"]
  /\ UNCHANGED <<env, row, held, pool, pods, account, ct, inj, bk, used>>

\* db.rolling_pnl_trend of every agent on the list
PassTrend ==
  /\ rc.pc = "trend"
  /\ \E notLosing \in SUBSET rc.list :
       rc' = [rc EXCEPT !.share = notLosing,
                        !.pc = IF notLosing = {} \/ rc.pool <= 0 THEN "store" ELSE "topup"]
  /\ UNCHANGED <<env, row, held, pool, pods, account, ct, inj, bk, used>>

\* db.update_balance with the balance of the list and an equal share of the pool;
\* what does not divide goes to the last (cents there, units here)
TopUp(a) ==
  LET share == rc.pool \div Cardinality(rc.share) IN
  /\ rc.pc = "topup" /\ a \in rc.share
  /\ row' = [row EXCEPT ![a].cash = rc.bal[a] + share]
  /\ rc' = [rc EXCEPT !.share = @ \ {a}, !.pool = @ - share,
                      !.pc = IF rc.share = {a} THEN "store" ELSE "topup"]
  /\ UNCHANGED <<env, held, pool, pods, account, ct, inj, bk, used>>

\* db.set_pool_balance with what is left
PassStore ==
  /\ rc.pc = "store"
  /\ pool' = rc.pool
  /\ rc' = IdlePass
  /\ UNCHANGED <<env, row, held, pods, account, ct, inj, bk, used>>

PassStep ==
  \/ PassBegin \/ CullRead \/ CullPod \/ PassPool \/ PoolDeploy \/ PoolFail
  \/ PoolList \/ PassTrend \/ PassStore
  \/ \E a \in Names : PassScale(a) \/ PassWorth(a) \/ CullMark(a) \/ CullReturn(a)
                        \/ PoolSpawn(a) \/ TopUp(a)

----------------------------------------------------------------------------
\* POST /capital/inject: "when you add real money to the account".

InjectRead(m) ==
  /\ Up /\ inj.pc = "idle" /\ Alone
  /\ used.injections < MaxInjections
  /\ inj' = [pc |-> "write", amount |-> m, pool |-> pool]
  /\ account' = account + m
  /\ used' = [used EXCEPT !.injections = @ + 1]
  /\ UNCHANGED <<env, row, held, pool, pods, ct, rc, bk>>

InjectWrite ==
  /\ inj.pc = "write"
  /\ pool' = inj.pool + inj.amount
  /\ inj' = IdleInj
  /\ UNCHANGED <<env, row, held, pods, account, ct, rc, bk, used>>

----------------------------------------------------------------------------
\* Trading, as far as it matters here: app.sync_orders books a fill that turns all of
\* an agent's cash into positions or all of its positions into cash.

\* db.get_agent; the broker lets an agent buy for no more than the account's cash
BookRead(a) ==
  /\ Up /\ bk.pc = "idle" /\ Alone
  /\ used.trades < MaxTrades
  /\ a \in Active \/ held[a] > 0
  /\ \E val \in {0, held[a] + row[a].cash} :
       /\ val # held[a]
       /\ val > held[a] => row[a].cash <= AccountCash
       /\ bk' = [pc |-> "cash", agent |-> {a}, bal |-> row[a].cash, val |-> val]
  /\ used' = [used EXCEPT !.trades = @ + 1]
  /\ UNCHANGED <<env, row, held, pool, pods, account, ct, rc, inj>>

\* db.update_balance
BookCash(a) ==
  /\ bk.pc = "cash" /\ a \in bk.agent
  /\ row' = [row EXCEPT ![a].cash = bk.bal + held[a] - bk.val]
  /\ bk' = [bk EXCEPT !.pc = "position"]
  /\ UNCHANGED <<env, held, pool, pods, account, ct, rc, inj, used>>

\* db.apply_fill_to_position
BookPosition(a) ==
  /\ bk.pc = "position" /\ a \in bk.agent
  /\ held' = [held EXCEPT ![a] = bk.val]
  /\ bk' = IdleBk
  /\ UNCHANGED <<env, row, pool, pods, account, ct, rc, inj, used>>

\* the market revalues an agent's positions (db.update_position_price)
Market(a, v) ==
  /\ held[a] > 0 /\ v # held[a] /\ bk.pc = "idle"
  /\ used.moves < MaxMoves
  /\ held' = [held EXCEPT ![a] = v]
  /\ account' = account + v - held[a]
  /\ used' = [used EXCEPT !.moves = @ + 1]
  /\ UNCHANGED <<env, row, pool, pods, ct, rc, inj, bk>>

\* the controller dies and is started again
Crash ==
  /\ "crash" \in env /\ ct.pc # "start"
  /\ used.crashes < MaxCrashes
  /\ used' = [used EXCEPT !.crashes = @ + 1]
  /\ ct' = Starting /\ rc' = IdlePass /\ inj' = IdleInj /\ bk' = IdleBk
  /\ UNCHANGED <<env, row, held, pool, pods, account>>

\* A database error nothing in reconcile catches: the scheduler logs it and the pass is
\* over, whatever it had still to write.
PassAbort ==
  /\ "db_error" \in env
  /\ rc.pc \in {"worth", "mark", "return", "refund", "pod", "pool", "trend", "topup", "store"}
  /\ used.crashes < MaxCrashes
  /\ used' = [used EXCEPT !.crashes = @ + 1]
  /\ rc' = IdlePass
  /\ UNCHANGED <<env, row, held, pool, pods, account, ct, inj, bk>>

Boot == BootSkip \/ BootBegin \/ (\E a \in Names : BootCreate(a)) \/ BootFail \/ BootDeploy
Booking == \E a \in Names : BookCash(a) \/ BookPosition(a)

Next ==
  \/ Boot \/ PassStep \/ InjectWrite \/ Booking \/ Crash \/ PassAbort
  \/ \E m \in Amounts : InjectRead(m)
  \/ \E a \in Names : BookRead(a) \/ \E v \in Prices : Market(a, v)

Spec == Init /\ [][Next]_vars

\* main() runs to its end, the scheduler runs reconcile again and again, a request and
\* a sync pass run to theirs.
Fairness ==
  /\ WF_vars(Boot) /\ WF_vars(PassStep) /\ WF_vars(InjectWrite) /\ WF_vars(Booking)

FairSpec == Spec /\ Fairness

----------------------------------------------------------------------------
\* Properties

Quiet == Up /\ rc.pc = "idle" /\ inj.pc = "idle" /\ bk.pc = "idle"

\* The ledger's total, as the sanity check at the end of reconcile adds it up, is what
\* the broker's account is worth.
LedgerTotal == SumOf([a \in Names |-> row[a].cash], Active) + pool + SumOf(held, Names)
Balanced == Quiet => LedgerTotal = account

\* While nothing overlaps or fails and nobody has been culled no money appears or
\* vanishes: seeding, pool spawns, top-ups, injections and trades all balance.
Culled == {a \in Names : row[a].st = "culled"}
CalmBalanced == Calm /\ Culled = {} => Balanced

\* Every agent the ledger says is active runs in a pod and no other does, also when
\* trades and injections go on while a pass culls and spawns.
PodsMatchRows == env \subseteq {"overlap"} /\ Quiet => pods = Active

\* Whatever fails and however often the controller restarts, the agents there are while
\* it seeds have together been given no more than the account's cash as this start has
\* read it: a restart that finds agents seeds none, and one that seeds found none.
\* (Money injected into the pool before the first agents exist is in that cash as well.)
SeededOnce ==
  [][ct.pc = "seed" /\ Active # Active' =>
       SumOf([a \in Names |-> row'[a].cash], Active') <= ct.cash]_vars

\* "Its remaining balance returns to an unallocated pool rather than vanishing."
\* Culling an agent takes no money out of the ledger.
CullReturnsBalance == Calm => Balanced

\* "Cross the ceiling: the Controller spawns a sibling agent ... funded by debiting the
\* parent": a balance does not stay at the ceiling for ever.
CeilingSpawnsSibling ==
  \A a \in Names : row[a].st = "active" /\ row[a].cash >= MaxCapital
                     ~> row[a].cash < MaxCapital
=============================================================================
