---------------------------- MODULE CapitalProofs ----------------------------
(***************************************************************************)
(* What holds of Capital for any number of agents, any amounts and prices, *)
(* and any bounds on how often they occur.                                 *)
(***************************************************************************)
EXTENDS Capital, SumProofs

LEMMA Constants ==
  /\ IsFiniteSet(Names) /\ StartCash \in Nat /\ PodCount \in Nat \ {0}
  /\ MinCapital \in Nat \ {0} /\ Floor \in Nat /\ Amounts \subseteq Nat /\ Prices \subseteq Nat
  /\ MaxInjections \in Nat /\ MaxTrades \in Nat /\ MaxMoves \in Nat /\ MaxCrashes \in Nat
BY CapitalAssumption

LEMMA SumIsTotal == \A f, S : SumOf(f, S) = Total(f, S)
BY DEF SumOf, Total

\* The types, with what is never negative: no balance, no pool and no account.
RowType  == [st : {"none", "active", "culled"}, cash : Nat]
BootType == [pc : {"start", "seed", "deploy", "up"}, left : 0 .. PodCount, cash : Nat,
             name : SUBSET Names]
PassType == [pc : PassPC, agents : SUBSET Names, bal : [Names -> Nat], todo : SUBSET Names,
             cur : SUBSET Names, got : Nat, pool : Nat, target : Nat,
             list : SUBSET Names, share : SUBSET Names]
InjType  == [pc : {"idle", "write"}, amount : Amounts \cup {0}, pool : Nat]
BookType == [pc : {"idle", "cash", "position"}, agent : SUBSET Names, bal : Nat, val : Nat]
UsedType == [injections : 0 .. MaxInjections, trades : 0 .. MaxTrades, moves : 0 .. MaxMoves,
             crashes : 0 .. MaxCrashes]

Typed ==
  /\ env \in Environments
  /\ row \in [Names -> RowType]
  /\ held \in [Names -> Nat]
  /\ pool \in Nat /\ pods \in SUBSET Names /\ account \in Nat
  /\ ct \in BootType /\ rc \in PassType /\ inj \in InjType /\ bk \in BookType
  /\ used \in UsedType

LEMMA TypedIsTypeOK == Typed => CapitalTypeOK
<1> SUFFICES ASSUME Typed PROVE CapitalTypeOK OBVIOUS
<1>1. row \in [Names -> Row] BY DEF Typed, RowType, Row
<1>2. rc \in [pc : PassPC, agents : SUBSET Names, bal : [Names -> Int], todo : SUBSET Names,
              cur : SUBSET Names, got : Int, pool : Int, target : Nat,
              list : SUBSET Names, share : SUBSET Names]
  <2>1. rc.bal \in [Names -> Int] BY DEF Typed, PassType
  <2> QED BY <2>1 DEF Typed, PassType
<1>3. bk \in [pc : {"idle", "cash", "position"}, agent : SUBSET Names, bal : Int, val : Nat]
  BY DEF Typed, BookType
<1> QED BY <1>1, <1>2, <1>3 DEF Typed, CapitalTypeOK, BootType, InjType, UsedType

----------------------------------------------------------------------------
\* What each step of the reconcile job makes of its locals.

Locals(r) == <<r.agents, r.bal, r.todo, r.cur, r.got, r.pool, r.target, r.list, r.share>>

LEMMA IdlePassType ==
  /\ IdlePass \in PassType /\ IdlePass.pc = "idle" /\ IdlePass.agents = {} /\ IdlePass.todo = {}
  /\ IdlePass.cur = {} /\ IdlePass.list = {} /\ IdlePass.share = {}
BY DEF IdlePass, PassType, PassPC

\* only the program point moves
LEMMA GoTo ==
  ASSUME NEW r \in PassType, NEW pc \in PassPC
  PROVE  /\ [r EXCEPT !.pc = pc] \in PassType /\ [r EXCEPT !.pc = pc].pc = pc
         /\ Locals([r EXCEPT !.pc = pc]) = Locals(r)
BY DEF PassType, Locals

LEMMA NextAgentStep ==
  ASSUME NEW r \in PassType
  PROVE  /\ NextAgent(r) \in PassType
         /\ NextAgent(r).pc = (IF r.todo = {} THEN "pool" ELSE "agent")
         /\ NextAgent(r).agents = r.agents /\ NextAgent(r).bal = r.bal
         /\ NextAgent(r).todo = r.todo /\ NextAgent(r).cur = {}
<1> PICK zero \in Nat : zero = 0 OBVIOUS
<1> DEFINE pc == IF r.todo = {} THEN "pool" ELSE "agent"
           n == [r EXCEPT !.pc = pc, !.cur = {}, !.got = zero]
<1>1. pc \in PassPC BY DEF PassPC
<1>2. NextAgent(r) = n BY DEF NextAgent
<1> HIDE DEF pc
<1>3. /\ n \in PassType /\ n.pc = pc /\ n.agents = r.agents /\ n.bal = r.bal /\ n.todo = r.todo
      /\ n.cur = {}
  BY <1>1 DEF PassType
<1> HIDE DEF n
<1> QED BY <1>2, <1>3 DEF pc

LEMMA Balances ==
  ASSUME Typed
  PROVE  /\ ActiveBalances \in [Names -> Nat]
         /\ \A a \in Active : ActiveBalances[a] = row[a].cash
         /\ Active \in SUBSET Names /\ Known \in SUBSET Names
BY DEF Typed, RowType, ActiveBalances, Active, Known

LEMMA PassBeginStep ==
  ASSUME Typed, PassBegin
  PROVE  /\ rc' \in PassType
         /\ rc'.pc = (IF Active = {} THEN "pool" ELSE "agent")
         /\ rc'.agents = Active /\ rc'.todo = Active /\ rc'.bal = ActiveBalances /\ rc'.cur = {}
<1> DEFINE pc == IF Active = {} THEN "pool" ELSE "agent"
           n == [IdlePass EXCEPT !.pc = pc, !.agents = Active, !.todo = Active,
                                 !.bal = ActiveBalances]
<1>1. rc' = n BY DEF PassBegin
<1>2. pc \in PassPC BY DEF PassPC
<1> HIDE DEF pc
<1>3. n.cur = {} /\ n.pc = pc /\ n.agents = Active /\ n.todo = Active /\ n.bal = ActiveBalances
  BY IdlePassType DEF PassType
<1>4. n \in PassType BY <1>2, IdlePassType, Balances DEF PassType
<1> HIDE DEF n
<1> QED BY <1>1, <1>3, <1>4 DEF pc

LEMMA PassScaleStep ==
  ASSUME Typed, NEW a \in Names, PassScale(a)
  PROVE  /\ rc' \in PassType /\ rc'.pc = "worth" /\ rc'.agents = rc.agents /\ rc'.bal = rc.bal
         /\ rc'.todo = rc.todo \ {a} /\ rc'.cur = {a}
<1>1. rc' = [rc EXCEPT !.pc = "worth", !.todo = rc.todo \ {a}, !.cur = {a}] BY DEF PassScale
<1>2. rc.todo \ {a} \in SUBSET Names /\ {a} \in SUBSET Names BY DEF Typed, PassType
<1> QED BY <1>1, <1>2 DEF Typed, PassType, PassPC

LEMMA PassWorthStep ==
  ASSUME Typed, NEW a \in Names, PassWorth(a)
  PROVE  /\ rc' \in PassType /\ rc'.agents = rc.agents /\ rc'.bal = rc.bal /\ rc'.todo = rc.todo
         /\ \/ rc'.pc = "mark" /\ rc'.cur = rc.cur
            \/ rc'.pc \in {"pool", "agent"} /\ rc'.cur = {}
<1>1. CASE rc' = NextAgent(rc) BY <1>1, NextAgentStep DEF Typed
<1>2. CASE rc' # NextAgent(rc)
  <2>1. rc' = [rc EXCEPT !.pc = "mark"] BY <1>2 DEF PassWorth
  <2>2. rc \in PassType /\ "mark" \in PassPC BY DEF Typed, PassPC
  <2>3. rc' \in PassType /\ rc'.pc = "mark" /\ Locals(rc') = Locals(rc) BY <2>1, <2>2, GoTo
  <2> QED BY <2>3 DEF Locals
<1> QED BY <1>1, <1>2

LEMMA CullStep ==
  ASSUME Typed,
         CullRead \/ CullPod \/ \E a \in Names : CullMark(a) \/ CullReturn(a)
  PROVE  /\ rc' \in PassType
         /\ IF CullPod THEN rc'.pc \in {"pool", "agent", "idle"}
            ELSE rc'.pc \in {"return", "refund", "pod"} /\ rc'.cur = rc.cur
         /\ rc'.pc # "idle" =>
              rc'.agents = rc.agents /\ rc'.bal = rc.bal /\ rc'.todo = rc.todo
<1>1. ASSUME NEW pc \in {"return", "pod"}, rc' = [rc EXCEPT !.pc = pc]
      PROVE  /\ rc' \in PassType /\ rc'.pc = pc /\ rc'.cur = rc.cur /\ rc'.agents = rc.agents
             /\ rc'.bal = rc.bal /\ rc'.todo = rc.todo
  BY <1>1 DEF Typed, PassType, PassPC
<1>0. CullPod => ~CullRead /\ \A a \in Names : ~CullMark(a) /\ ~CullReturn(a)
  BY DEF CullRead, CullMark, CullReturn, CullPod
<1>2. CASE \E a \in Names : CullMark(a) \/ CullReturn(a)
  BY <1>0, <1>1, <1>2 DEF CullMark, CullReturn
<1>3. CASE CullRead
  <2>1. rc' = [rc EXCEPT !.pc = "refund", !.got = pool] BY <1>3 DEF CullRead
  <2>2. /\ rc' \in PassType /\ rc'.pc = "refund" /\ rc'.cur = rc.cur /\ rc'.agents = rc.agents
        /\ rc'.bal = rc.bal /\ rc'.todo = rc.todo
    BY <2>1 DEF Typed, PassType, PassPC
  <2> QED BY <1>0, <1>3, <2>2
<1>4. CASE CullPod
  <2>1. rc' = NextAgent(rc) \/ rc' = IdlePass BY <1>4 DEF CullPod
  <2> QED BY <1>4, <2>1, NextAgentStep, IdlePassType DEF Typed
<1> QED BY <1>2, <1>3, <1>4

\* Integer division, as far as a share of the pool or of the cash depends on it.
LEMMA Share ==
  ASSUME NEW n \in Nat, NEW k \in Nat \ {0}
  PROVE  n \div k \in Nat /\ n \div k <= n /\ k * (n \div k) <= n
OBVIOUS

LEMMA PassPoolStep ==
  ASSUME Typed, PassPool
  PROVE  /\ rc' \in PassType
         /\ \/ rc'.pc = "idle"
            \/ /\ rc'.pc \in {"spawn", "trend"} /\ rc'.pool = pool /\ rc'.list = rc.agents
               /\ rc'.bal = rc.bal
               /\ rc'.pc = "spawn" => pool >= MinCapital
<1> DEFINE total == SumOf(rc.bal, rc.agents) + pool
           target == IF total > 0 THEN total \div MinCapital ELSE 0
           r == [rc EXCEPT !.pool = pool, !.list = rc.agents, !.target = target]
<1>1. rc.agents \in SUBSET Names /\ rc.bal \in [Names -> Nat] /\ pool \in Nat
  BY DEF Typed, PassType
<1>2. target \in Nat
  <2>1. IsFiniteSet(rc.agents) BY <1>1, Constants, FS_Subset
  <2>2. \A a \in rc.agents : rc.bal[a] \in Nat BY <1>1
  <2>3. SumOf(rc.bal, rc.agents) \in Nat BY <2>1, <2>2, TotalNat, SumIsTotal
  <2>4. total \in Nat BY <1>1, <2>3
  <2> HIDE DEF total
  <2> QED BY <2>4, Constants, Share
<1>3. rc' = IdlePass \/ rc' = [r EXCEPT !.pc = IF Wanted(r) THEN "spawn" ELSE "trend"]
  BY DEF PassPool
<1> HIDE DEF target
<1>4. r \in PassType /\ r.pool = pool /\ r.list = rc.agents /\ r.bal = rc.bal
  BY <1>1, <1>2 DEF Typed, PassType
<1> HIDE DEF r
<1>5. CASE rc' = [r EXCEPT !.pc = "spawn"] /\ Wanted(r)
  <2>1. pool >= MinCapital BY <1>4, <1>5 DEF Wanted
  <2> QED BY <1>4, <1>5, <2>1, GoTo DEF Locals, PassPC
<1>6. CASE rc' = [r EXCEPT !.pc = "trend"] BY <1>4, <1>6, GoTo DEF Locals, PassPC
<1> QED BY <1>3, <1>5, <1>6, IdlePassType

LEMMA PoolSpawnStep ==
  ASSUME Typed, NEW a \in Names, PoolSpawn(a)
  PROVE  /\ rc' \in PassType /\ rc'.pc = "deploy" /\ rc'.cur = {a} /\ rc'.pool = rc.pool
         /\ rc'.list = rc.list /\ rc'.bal = rc.bal
<1>1. rc' = [rc EXCEPT !.pc = "deploy", !.cur = {a}] BY DEF PoolSpawn
<1> QED BY <1>1 DEF Typed, PassType, PassPC

LEMMA PoolDeployStep ==
  ASSUME Typed, PoolDeploy, rc.pool >= MinCapital
  PROVE  /\ rc' \in PassType /\ rc'.pc = "list" /\ rc'.pool = rc.pool - MinCapital
         /\ rc'.list = rc.list /\ rc'.bal = rc.bal
<1>1. rc' = [rc EXCEPT !.pc = "list", !.pool = rc.pool - MinCapital] BY DEF PoolDeploy
<1>2. rc.pool - MinCapital \in Nat BY Constants DEF Typed, PassType
<1> QED BY <1>1, <1>2 DEF Typed, PassType, PassPC

LEMMA PoolFailStep ==
  ASSUME Typed, PoolFail
  PROVE  /\ rc' \in PassType /\ rc'.pc = "trend" /\ rc'.pool = rc.pool /\ rc'.list = rc.list
         /\ rc'.bal = rc.bal
<1>1. rc' = [rc EXCEPT !.pc = "trend"] BY DEF PoolFail
<1> QED BY <1>1, GoTo DEF Typed, Locals, PassPC

LEMMA PoolListStep ==
  ASSUME Typed, PoolList
  PROVE  /\ rc' \in PassType /\ rc'.pc \in {"spawn", "trend"} /\ rc'.pool = rc.pool
         /\ rc'.list = Active /\ rc'.bal = ActiveBalances
         /\ rc'.pc = "spawn" => rc.pool >= MinCapital
<1> DEFINE r == [rc EXCEPT !.list = Active, !.bal = ActiveBalances]
<1>1. rc' = [r EXCEPT !.pc = IF Wanted(r) THEN "spawn" ELSE "trend"] BY DEF PoolList
<1>2. r \in PassType /\ r.pool = rc.pool /\ r.list = Active /\ r.bal = ActiveBalances
  BY Balances DEF Typed, PassType
<1> HIDE DEF r
<1>3. CASE rc' = [r EXCEPT !.pc = "spawn"] /\ Wanted(r)
  <2>1. rc.pool >= MinCapital BY <1>2, <1>3 DEF Wanted
  <2> QED BY <1>2, <1>3, <2>1, GoTo DEF Locals, PassPC
<1>4. CASE rc' = [r EXCEPT !.pc = "trend"] BY <1>2, <1>4, GoTo DEF Locals, PassPC
<1> QED BY <1>1, <1>3, <1>4

LEMMA PassTrendStep ==
  ASSUME Typed, PassTrend
  PROVE  /\ rc' \in PassType /\ rc'.pc \in {"topup", "store"} /\ rc'.pool = rc.pool
         /\ rc'.list = rc.list /\ rc'.bal = rc.bal /\ rc'.share \in SUBSET rc.list
         /\ rc'.pc = "topup" => rc'.share # {}
<1>1. PICK notLosing \in SUBSET rc.list :
        rc' = [rc EXCEPT !.share = notLosing,
                         !.pc = IF notLosing = {} \/ rc.pool <= 0 THEN "store" ELSE "topup"]
  BY DEF PassTrend
<1> DEFINE pc == IF notLosing = {} \/ rc.pool <= 0 THEN "store" ELSE "topup"
<1>2. pc \in PassPC /\ pc \in {"topup", "store"} /\ (pc = "topup" => notLosing # {})
  BY DEF PassPC
<1>3. rc' = [rc EXCEPT !.share = notLosing, !.pc = pc] BY <1>1
<1> HIDE DEF pc
<1>4. notLosing \in SUBSET Names BY DEF Typed, PassType
<1>5. /\ rc' \in PassType /\ rc'.pc = pc /\ rc'.pool = rc.pool /\ rc'.list = rc.list
      /\ rc'.bal = rc.bal /\ rc'.share = notLosing
  BY <1>2, <1>3, <1>4 DEF Typed, PassType
<1> QED BY <1>2, <1>5

LEMMA TopUpStep ==
  ASSUME Typed, NEW a \in Names, TopUp(a)
  PROVE  \E share \in Nat :
           /\ share <= rc.pool
           /\ row' = [row EXCEPT ![a].cash = rc.bal[a] + share]
           /\ rc' \in PassType /\ rc'.pc \in {"topup", "store"} /\ rc'.pool = rc.pool - share
           /\ rc'.list = rc.list /\ rc'.bal = rc.bal /\ rc'.share = rc.share \ {a}
           /\ rc'.pc = "topup" => rc'.share # {}
<1> DEFINE n == Cardinality(rc.share)
<1>1. rc.share \in SUBSET Names /\ a \in rc.share /\ rc.pool \in Nat
  BY DEF Typed, PassType, TopUp
<1>2. n \in Nat \ {0}
  <2>1. IsFiniteSet(rc.share) BY <1>1, Constants, FS_Subset
  <2> QED BY <1>1, <2>1, FS_CardinalityType, FS_EmptySet
<1> HIDE DEF n
<1> PICK share : share = rc.pool \div n OBVIOUS
<1>3. share \in Nat /\ share <= rc.pool BY <1>1, <1>2, Share
<1> DEFINE pc == IF rc.share = {a} THEN "store" ELSE "topup"
<1>4. pc \in PassPC /\ pc \in {"topup", "store"} /\ (pc = "topup" => rc.share \ {a} # {})
  BY <1>1 DEF PassPC
<1>5. /\ row' = [row EXCEPT ![a].cash = rc.bal[a] + share]
      /\ rc' = [rc EXCEPT !.share = rc.share \ {a}, !.pool = rc.pool - share, !.pc = pc]
  BY DEF TopUp, n
<1> HIDE DEF pc
<1>6. rc.pool - share \in Nat /\ rc.share \ {a} \in SUBSET Names BY <1>1, <1>3
<1>7. /\ rc' \in PassType /\ rc'.pc = pc /\ rc'.pool = rc.pool - share /\ rc'.list = rc.list
      /\ rc'.bal = rc.bal /\ rc'.share = rc.share \ {a}
  BY <1>4, <1>5, <1>6 DEF Typed, PassType
<1> QED BY <1>3, <1>4, <1>5, <1>7
----------------------------------------------------------------------------
\* The types are kept because nothing is ever paid out that is not there: the pool pays
\* for the agent it is to fund, bootstrap counts down to its last agent, and the broker
\* lets an agent buy for no more than the account's cash.

Payable == rc.pc \in {"spawn", "deploy"} => rc.pool >= MinCapital
Counting == ct.pc \in {"seed", "deploy"} => ct.left # 0
Affordable ==
  bk.pc # "idle" => \E a \in Names : bk.agent = {a} /\ bk.val <= bk.bal + held[a]
Covered ==
  /\ Total(held, Names) <= account
  /\ bk.pc # "idle" =>
       \A a \in bk.agent : Total(held, Names) - held[a] + bk.val <= account

TypeInv == Typed /\ Payable /\ Counting /\ Affordable /\ Covered

\* a row that changes its status or its balance is a row
LEMMA RowChanges ==
  ASSUME Typed, NEW a \in Names
  PROVE  /\ \A st \in {"none", "active", "culled"} :
              [row EXCEPT ![a].st = st] \in [Names -> RowType]
         /\ \A cash \in Nat : [row EXCEPT ![a].cash = cash] \in [Names -> RowType]
         /\ \A cash \in Nat :
              [row EXCEPT ![a] = [st |-> "active", cash |-> cash]] \in [Names -> RowType]
<1>1. row \in [Names -> RowType] BY DEF Typed
<1>2. ASSUME NEW r \in RowType PROVE [row EXCEPT ![a] = r] \in [Names -> RowType]
  BY <1>1, <1>2
<1>3. ASSUME NEW st \in {"none", "active", "culled"}
      PROVE  [row EXCEPT ![a].st = st] \in [Names -> RowType]
  BY <1>1, <1>3 DEF RowType
<1>4. ASSUME NEW cash \in Nat PROVE [row EXCEPT ![a].cash = cash] \in [Names -> RowType]
  BY <1>1, <1>4 DEF RowType
<1>5. ASSUME NEW cash \in Nat PROVE [st |-> "active", cash |-> cash] \in RowType
  BY <1>5 DEF RowType
<1> QED BY <1>2, <1>3, <1>4, <1>5

LEMMA PassFrame == PassStep => UNCHANGED <<env, held, account, ct, inj, bk, used>>
BY DEF PassStep, PassBegin, CullRead, CullPod, PassPool, PoolDeploy, PoolFail, PoolList,
       PassTrend, PassStore, PassScale, PassWorth, CullMark, CullReturn, PoolSpawn, TopUp

LEMMA PassTyped ==
  ASSUME TypeInv, PassStep
  PROVE  /\ rc' \in PassType /\ Payable' /\ row' \in [Names -> RowType] /\ pool' \in Nat
         /\ pods' \in SUBSET Names
<1> USE DEF Payable
<1>0. Typed /\ Payable BY DEF TypeInv
<1>t. row \in [Names -> RowType] /\ pool \in Nat /\ pods \in SUBSET Names /\ rc \in PassType
  BY <1>0 DEF Typed
<1>1. CASE PassBegin BY <1>0, <1>1, <1>t, PassBeginStep DEF PassBegin
<1>2. CASE CullRead BY <1>0, <1>2, <1>t, CullStep DEF CullRead, CullPod
<1>3. CASE CullPod
  <2>1. pods' \in SUBSET Names /\ UNCHANGED <<row, pool>> BY <1>3, <1>t DEF CullPod
  <2>2. rc' \in PassType /\ rc'.pc \in {"pool", "agent", "idle"} BY <1>0, <1>3, CullStep
  <2> QED BY <1>t, <2>1, <2>2
<1>4. CASE PassPool BY <1>0, <1>4, <1>t, PassPoolStep DEF PassPool
<1>5. CASE PoolDeploy
  <2>1. pods' \in SUBSET Names /\ UNCHANGED <<row, pool>>
    BY <1>5, <1>t DEF PoolDeploy, PassType
  <2>2. rc.pool >= MinCapital BY <1>0, <1>5 DEF PoolDeploy
  <2>3. rc' \in PassType /\ rc'.pc = "list" BY <1>0, <1>5, <2>2, PoolDeployStep
  <2> QED BY <1>t, <2>1, <2>3
<1>6. CASE PoolFail BY <1>0, <1>6, <1>t, PoolFailStep DEF PoolFail
<1>7. CASE PoolList BY <1>0, <1>7, <1>t, PoolListStep DEF PoolList
<1>8. CASE PassTrend
  <2>1. rc' \in PassType /\ rc'.pc \in {"topup", "store"} BY <1>0, <1>8, PassTrendStep
  <2>2. UNCHANGED <<row, pool, pods>> BY <1>8 DEF PassTrend
  <2> QED BY <1>t, <2>1, <2>2
<1>9. CASE PassStore
  <2>1. pool' = rc.pool /\ rc' = IdlePass /\ UNCHANGED <<row, pods>> BY <1>9 DEF PassStore
  <2> QED BY <1>t, <2>1, IdlePassType DEF PassType
<1>10. ASSUME NEW a \in Names, PassScale(a)
       PROVE  /\ rc' \in PassType /\ Payable' /\ UNCHANGED <<row, pool, pods>>
  BY <1>0, <1>10, PassScaleStep DEF PassScale
<1>11. ASSUME NEW a \in Names, PassWorth(a)
       PROVE  /\ rc' \in PassType /\ Payable' /\ UNCHANGED <<row, pool, pods>>
  <2>1. rc' \in PassType /\ rc'.pc \in {"mark", "pool", "agent"} BY <1>0, <1>11, PassWorthStep
  <2> QED BY <1>11, <2>1 DEF PassWorth
<1>12. ASSUME NEW a \in Names, CullMark(a)
       PROVE  /\ rc' \in PassType /\ Payable' /\ row' \in [Names -> RowType]
              /\ UNCHANGED <<pool, pods>>
  <2>1. rc' \in PassType /\ rc'.pc = "return" BY <1>0, <1>12, GoTo DEF CullMark, Typed, PassPC
  <2>2. row' = [row EXCEPT ![a].st = "culled"] /\ UNCHANGED <<pool, pods>>
    BY <1>12 DEF CullMark
  <2> QED BY <1>0, <2>1, <2>2, RowChanges
<1>13. ASSUME NEW a \in Names, CullReturn(a)
       PROVE  /\ rc' \in PassType /\ Payable' /\ pool' \in Nat /\ UNCHANGED <<row, pods>>
  <2>1. rc' \in PassType /\ rc'.pc = "pod" BY <1>0, <1>13, GoTo DEF CullReturn, Typed, PassPC
  <2>2. pool' = rc.got + (IF rc.bal[a] > 0 THEN rc.bal[a] ELSE 0) /\ UNCHANGED <<row, pods>>
    BY <1>13 DEF CullReturn
  <2>3. rc.got \in Nat /\ rc.bal[a] \in Nat BY <1>t DEF PassType
  <2> QED BY <2>1, <2>2, <2>3
<1>14. ASSUME NEW a \in Names, PoolSpawn(a)
       PROVE  /\ rc' \in PassType /\ Payable' /\ row' \in [Names -> RowType]
              /\ UNCHANGED <<pool, pods>>
  <2>1. /\ row' = [row EXCEPT ![a] = [st |-> "active", cash |-> MinCapital]]
        /\ UNCHANGED <<pool, pods>> /\ rc.pc = "spawn"
    BY <1>14 DEF PoolSpawn
  <2>2. rc' \in PassType /\ rc'.pool = rc.pool BY <1>0, <1>14, PoolSpawnStep
  <2> QED BY <1>0, <2>1, <2>2, RowChanges, Constants
<1>15. ASSUME NEW a \in Names, TopUp(a)
       PROVE  /\ rc' \in PassType /\ Payable' /\ row' \in [Names -> RowType]
              /\ UNCHANGED <<pool, pods>>
  <2>1. PICK share \in Nat :
          /\ row' = [row EXCEPT ![a].cash = rc.bal[a] + share]
          /\ rc' \in PassType /\ rc'.pc \in {"topup", "store"}
    BY <1>0, <1>15, TopUpStep
  <2>2. rc.bal[a] + share \in Nat BY <1>t DEF PassType
  <2> PICK cash \in Nat : cash = rc.bal[a] + share BY <2>2
  <2>3. row' \in [Names -> RowType] BY <1>0, <2>1, RowChanges
  <2> QED BY <1>15, <2>1, <2>3 DEF TopUp
<1> QED BY <1>1, <1>2, <1>3, <1>4, <1>5, <1>6, <1>7, <1>8, <1>9, <1>10, <1>11, <1>12, <1>13,
           <1>14, <1>15, <1>t DEF PassStep

\* the step from one agent of bootstrap to the next
LEMMA SeedNextStep ==
  ASSUME Typed, SeedNext, ct.left # 0
  PROVE  /\ ct' \in BootType /\ ct'.name = {}
         /\ \/ ct.left = 1 /\ ct'.pc = "up" /\ ct'.left = 0
            \/ ct.left > 1 /\ ct'.pc = "seed" /\ ct'.left = ct.left - 1 /\ ct'.cash = ct.cash
<1>1. ct.left \in 0 .. PodCount /\ PodCount \in Nat BY Constants DEF Typed, BootType
<1>2. CASE ct.left = 1 BY <1>1, <1>2 DEF SeedNext, Running, BootType
<1>3. CASE ct.left # 1
  <2>1. ct.left - 1 \in 0 .. PodCount /\ ct.left > 1 BY <1>1, <1>3
  <2>2. ct' = [pc |-> "seed", left |-> ct.left - 1, cash |-> ct.cash, name |-> {}]
    BY <1>3 DEF SeedNext
  <2>3. ct.cash \in Nat BY DEF Typed, BootType
  <2> QED BY <2>1, <2>2, <2>3 DEF BootType
<1> QED BY <1>2, <1>3

LEMMA BootFrame == Boot => UNCHANGED <<env, held, pool, account, rc, inj, bk, used>>
BY DEF Boot, BootSkip, BootBegin, BootCreate, BootFail, BootDeploy

\* the cash a start of the controller finds
LEMMA AccountCashType ==
  ASSUME TypeInv
  PROVE  AccountCash \in Nat
<1>1. Total(held, Names) \in Nat BY Constants, TotalNat DEF TypeInv, Typed
<1>2. account \in Nat /\ Total(held, Names) <= account BY DEF TypeInv, Typed, Covered
<1>3. AccountCash = account - Total(held, Names) BY SumIsTotal DEF AccountCash
<1> HIDE DEF Total
<1> QED BY <1>1, <1>2, <1>3

LEMMA BootTyped ==
  ASSUME TypeInv, Boot
  PROVE  /\ ct' \in BootType /\ Counting' /\ row' \in [Names -> RowType]
         /\ pods' \in SUBSET Names
<1> USE DEF Counting
<1>0. Typed /\ Counting BY DEF TypeInv
<1>t. row \in [Names -> RowType] /\ pods \in SUBSET Names /\ ct \in BootType
  BY <1>0 DEF Typed
<1>1. CASE BootSkip
  BY <1>1, <1>t, Constants DEF BootSkip, Running, BootType
<1>2. CASE BootBegin
  <2> PICK cash \in Nat : cash = AccountCash BY AccountCashType
  <2>1. ct' = [pc |-> "seed", left |-> PodCount, cash |-> cash, name |-> {}] BY <1>2 DEF BootBegin
  <2> QED BY <1>2, <1>t, <2>1, Constants DEF BootBegin, BootType
<1>3. ASSUME NEW a \in Names, BootCreate(a)
      PROVE  ct' \in BootType /\ Counting' /\ row' \in [Names -> RowType] /\ pods' = pods
  <2>1. /\ ct' = [ct EXCEPT !.pc = "deploy", !.name = {a}] /\ ct.pc = "seed" /\ pods' = pods
        /\ row' = [row EXCEPT ![a] = [st |-> "active", cash |-> ct.cash \div PodCount]]
    BY <1>3 DEF BootCreate
  <2>2. ct' \in BootType /\ ct'.left = ct.left BY <1>t, <2>1 DEF BootType
  <2>3. ct.cash \div PodCount \in Nat
    <3>1. ct.cash \in Nat BY <1>t DEF BootType
    <3> QED BY <3>1, Constants, Share
  <2>4. row' \in [Names -> RowType] BY <1>0, <2>1, <2>3, RowChanges
  <2> QED BY <1>0, <2>1, <2>2, <2>4
<1>4. CASE BootFail
  <2>1. ct.left # 0 /\ SeedNext /\ UNCHANGED <<row, pods>> BY <1>0, <1>4 DEF BootFail
  <2>2. ct.left \in Nat BY <1>t, Constants DEF BootType
  <2> QED BY <1>0, <1>t, <2>1, <2>2, SeedNextStep
<1>5. CASE BootDeploy
  <2>1. ct.left # 0 /\ SeedNext /\ row' = row /\ pods' = pods \cup ct.name
    BY <1>0, <1>5 DEF BootDeploy
  <2>2. pods' \in SUBSET Names BY <1>t, <2>1 DEF BootType
  <2>3. ct.left \in Nat BY <1>t, Constants DEF BootType
  <2> QED BY <1>0, <1>t, <2>1, <2>2, <2>3, SeedNextStep
<1> QED BY <1>1, <1>2, <1>3, <1>4, <1>5, <1>t DEF Boot

\* What an agent's positions are worth, and the total if they come to be worth v.
LEMMA Revalue ==
  ASSUME Typed, NEW a \in Names, NEW v \in Nat
  PROVE  /\ [held EXCEPT ![a] = v] \in [Names -> Nat]
         /\ Total([held EXCEPT ![a] = v], Names) = Total(held, Names) - held[a] + v
         /\ Total(held, Names) \in Nat /\ held[a] \in Nat /\ held[a] <= Total(held, Names)
<1> DEFINE f == [held EXCEPT ![a] = v]
<1>1. held \in [Names -> Nat] /\ IsFiniteSet(Names) BY Constants DEF Typed
<1>2. f \in [Names -> Nat] /\ f[a] = v /\ \A b \in Names \ {a} : f[b] = held[b] BY <1>1
<1> HIDE DEF f
<1>3. Ints(held, Names) BY <1>1 DEF Ints
<1>4. v \in Int OBVIOUS
<1>5. Total(f, Names) = Total(held, Names) - held[a] + v
  BY <1>1, <1>2, <1>3, <1>4, TotalChange
<1>6. Total(held, Names) \in Nat /\ held[a] <= Total(held, Names) BY <1>1, TotalNat
<1> QED BY <1>1, <1>2, <1>5, <1>6 DEF f

LEMMA BookReadStep ==
  ASSUME Typed, Covered, NEW a \in Names, BookRead(a)
  PROVE  /\ bk' \in BookType /\ used' \in UsedType /\ Affordable' /\ Covered'
         /\ bk'.pc = "cash" /\ bk'.agent = {a} /\ bk'.bal = row[a].cash
<1>1. PICK val \in {0, held[a] + row[a].cash} :
        /\ val > held[a] => row[a].cash <= account - SumOf(held, Names)
        /\ bk' = [pc |-> "cash", agent |-> {a}, bal |-> row[a].cash, val |-> val]
  BY DEF BookRead, AccountCash
<1>2. held[a] \in Nat /\ row[a].cash \in Nat /\ account \in Nat BY DEF Typed, RowType
<1> PICK v \in Nat : v = val BY <1>2
<1>3. bk' \in BookType /\ bk'.pc = "cash" /\ bk'.agent = {a} /\ bk'.val = v
      /\ bk'.bal = row[a].cash
  BY <1>1, <1>2 DEF BookType
<1>4. used' \in UsedType
  <2>1. used.trades + 1 \in 0 .. MaxTrades BY Constants DEF Typed, UsedType, BookRead
  <2> QED BY <2>1 DEF BookRead, Typed, UsedType
<1>5. UNCHANGED <<held, account>> BY DEF BookRead
<1>6. v <= row[a].cash + held[a] BY <1>1, <1>2
<1>7. Affordable' BY <1>3, <1>5, <1>6 DEF Affordable
<1>8. Total(held, Names) - held[a] + v <= account
  <2>1. Total(held, Names) \in Nat /\ Total(held, Names) <= account BY <1>2, Revalue DEF Covered
  <2>2. v > held[a] => row[a].cash <= account - Total(held, Names) BY <1>1, SumIsTotal
  <2> HIDE DEF Total
  <2> QED BY <1>1, <1>2, <2>1, <2>2
<1>9. Covered' BY <1>3, <1>5, <1>8 DEF Covered
<1> QED BY <1>3, <1>4, <1>7, <1>9

LEMMA BookCashStep ==
  ASSUME Typed, Affordable, NEW a \in Names, BookCash(a)
  PROVE  /\ bk.agent = {a} /\ bk.bal + held[a] - bk.val \in Nat
         /\ row' = [row EXCEPT ![a].cash = bk.bal + held[a] - bk.val]
         /\ row' \in [Names -> RowType]
         /\ bk' \in BookType /\ bk'.pc = "position" /\ bk'.agent = bk.agent /\ bk'.val = bk.val
<1>1. bk.pc # "idle" /\ a \in bk.agent BY DEF BookCash
<1>2. PICK b \in Names : bk.agent = {b} /\ bk.val <= bk.bal + held[b] BY <1>1 DEF Affordable
<1>3. b = a BY <1>1, <1>2
<1>4. bk.bal \in Nat /\ bk.val \in Nat /\ held[a] \in Nat BY DEF Typed, BookType
<1>5. bk.bal + held[a] - bk.val \in Nat BY <1>2, <1>3, <1>4
<1>6. row' = [row EXCEPT ![a].cash = bk.bal + held[a] - bk.val] BY DEF BookCash
<1> PICK cash \in Nat : cash = bk.bal + held[a] - bk.val BY <1>5
<1>7. row' \in [Names -> RowType] BY <1>6, RowChanges
<1>8. bk' \in BookType /\ bk'.pc = "position" /\ bk'.agent = bk.agent /\ bk'.val = bk.val
  <2>1. bk' = [bk EXCEPT !.pc = "position"] BY DEF BookCash
  <2> QED BY <2>1 DEF Typed, BookType
<1> QED BY <1>2, <1>3, <1>5, <1>6, <1>7, <1>8

LEMMA IdleTypes == IdleBk \in BookType /\ IdleInj \in InjType /\ Starting \in BootType
BY Constants DEF IdleBk, IdleInj, Starting, BookType, InjType, BootType

LEMMA TypeInvBooks ==
  ASSUME TypeInv, NEW a \in Names,
         BookRead(a) \/ BookCash(a) \/ BookPosition(a) \/ \E v \in Prices : Market(a, v)
  PROVE  TypeInv'
<1>0. Typed /\ Payable /\ Counting /\ Affordable /\ Covered BY DEF TypeInv
<1>1. UNCHANGED <<env, pool, pods, ct, rc, inj>>
  BY DEF BookRead, BookCash, BookPosition, Market
<1>2. Payable' /\ Counting' BY <1>0, <1>1 DEF Payable, Counting
<1>3. ASSUME row' \in [Names -> RowType], held' \in [Names -> Nat], account' \in Nat,
             bk' \in BookType, used' \in UsedType
      PROVE  Typed'
  BY <1>0, <1>1, <1>3 DEF Typed
<1>4. CASE BookRead(a)
  <2>1. bk' \in BookType /\ used' \in UsedType /\ Affordable' /\ Covered'
    BY <1>0, <1>4, BookReadStep
  <2>2. UNCHANGED <<row, held, account>> BY <1>4 DEF BookRead
  <2>3. Typed' BY <1>0, <1>3, <2>1, <2>2 DEF Typed
  <2> QED BY <1>2, <2>1, <2>3 DEF TypeInv
<1>5. CASE BookCash(a)
  <2>1. /\ row' \in [Names -> RowType] /\ bk' \in BookType
        /\ bk'.pc = "position" /\ bk'.agent = bk.agent /\ bk'.val = bk.val
    BY <1>0, <1>5, BookCashStep
  <2>2. UNCHANGED <<held, account, used>> BY <1>5 DEF BookCash
  <2>3. Typed' BY <1>0, <1>3, <2>1, <2>2 DEF Typed
  <2>4. bk.pc # "idle" /\ bk'.bal = bk.bal BY <1>0, <1>5 DEF BookCash, Typed, BookType
  <2>5. Affordable' /\ Covered' BY <1>0, <2>1, <2>2, <2>4 DEF Affordable, Covered
  <2> QED BY <1>2, <2>3, <2>5 DEF TypeInv
<1>6. CASE BookPosition(a)
  <2>1. /\ held' = [held EXCEPT ![a] = bk.val] /\ bk' = IdleBk /\ UNCHANGED <<row, account, used>>
        /\ a \in bk.agent /\ bk.pc # "idle"
    BY <1>6 DEF BookPosition
  <2>2. bk.val \in Nat BY <1>0 DEF Typed, BookType
  <2>3. held' \in [Names -> Nat] /\ Total(held', Names) = Total(held, Names) - held[a] + bk.val
    BY <1>0, <2>1, <2>2, Revalue
  <2>4. Total(held', Names) <= account' BY <1>0, <2>1, <2>3 DEF Covered
  <2>5. Typed' BY <1>0, <1>3, <2>1, <2>3, IdleTypes DEF Typed
  <2>6. bk'.pc = "idle" BY <2>1 DEF IdleBk
  <2>7. Affordable' /\ Covered' BY <2>4, <2>6 DEF Affordable, Covered
  <2> QED BY <1>2, <2>5, <2>7 DEF TypeInv
<1>7. ASSUME NEW v \in Prices, Market(a, v) PROVE TypeInv'
  <2>1. /\ held' = [held EXCEPT ![a] = v] /\ account' = account + v - held[a]
        /\ used' = [used EXCEPT !.moves = @ + 1] /\ used.moves < MaxMoves
        /\ bk.pc = "idle" /\ UNCHANGED <<row, bk>>
    BY <1>7 DEF Market
  <2>2. v \in Nat /\ account \in Nat BY <1>0, Constants DEF Typed
  <2>3. /\ held' \in [Names -> Nat] /\ Total(held', Names) = Total(held, Names) - held[a] + v
        /\ held[a] \in Nat /\ held[a] <= Total(held, Names) /\ Total(held, Names) \in Nat
    BY <1>0, <2>1, <2>2, Revalue
  <2>4. Total(held, Names) <= account BY <1>0 DEF Covered
  <2>5. account' \in Nat /\ Total(held', Names) <= account' BY <2>1, <2>2, <2>3, <2>4
  <2>6. used' \in UsedType
    <3>1. used.moves + 1 \in 0 .. MaxMoves BY <1>0, <2>1, Constants DEF Typed, UsedType
    <3> QED BY <1>0, <2>1, <3>1 DEF Typed, UsedType
  <2>7. Typed' BY <1>0, <1>3, <2>1, <2>3, <2>5, <2>6 DEF Typed
  <2>8. Affordable' /\ Covered' BY <2>1, <2>5 DEF Affordable, Covered
  <2> QED BY <1>2, <2>7, <2>8 DEF TypeInv
<1> QED BY <1>4, <1>5, <1>6, <1>7

LEMMA TypeInvOthers ==
  ASSUME TypeInv, InjectWrite \/ Crash \/ PassAbort \/ \E m \in Amounts : InjectRead(m)
  PROVE  TypeInv'
<1>0. Typed /\ Payable /\ Counting /\ Affordable /\ Covered BY DEF TypeInv
<1>1. CASE InjectWrite
  <2>1. /\ pool' = inj.pool + inj.amount /\ inj' = IdleInj
        /\ UNCHANGED <<env, row, held, pods, account, ct, rc, bk, used>>
    BY <1>1 DEF InjectWrite
  <2>2. pool' \in Nat
    <3>1. inj \in InjType /\ Amounts \cup {0} \subseteq Nat BY <1>0, Constants DEF Typed
    <3>2. inj.amount \in Amounts \cup {0} /\ inj.pool \in Nat BY <3>1 DEF InjType
    <3> QED BY <2>1, <3>1, <3>2
  <2>3. Typed' BY <1>0, <2>1, <2>2, IdleTypes DEF Typed
  <2> QED BY <1>0, <2>1, <2>3 DEF TypeInv, Payable, Counting, Affordable, Covered
<1>2. CASE Crash
  <2>1. /\ used' = [used EXCEPT !.crashes = @ + 1] /\ used.crashes < MaxCrashes
        /\ ct' = Starting /\ rc' = IdlePass /\ inj' = IdleInj /\ bk' = IdleBk
        /\ UNCHANGED <<env, row, held, pool, pods, account>>
    BY <1>2 DEF Crash
  <2>2. used' \in UsedType
    <3>1. used.crashes + 1 \in 0 .. MaxCrashes BY <1>0, <2>1, Constants DEF Typed, UsedType
    <3> QED BY <1>0, <2>1, <3>1 DEF Typed, UsedType
  <2>3. Typed' BY <1>0, <2>1, <2>2, IdleTypes, IdlePassType DEF Typed
  <2>4. ct'.pc = "start" /\ rc'.pc = "idle" /\ bk'.pc = "idle"
    BY <2>1 DEF Starting, IdlePass, IdleBk
  <2> QED BY <1>0, <2>1, <2>3, <2>4 DEF TypeInv, Payable, Counting, Affordable, Covered
<1>3. ASSUME NEW m \in Amounts, InjectRead(m) PROVE TypeInv'
  <2>1. /\ inj' = [pc |-> "write", amount |-> m, pool |-> pool] /\ account' = account + m
        /\ used' = [used EXCEPT !.injections = @ + 1] /\ used.injections < MaxInjections
        /\ UNCHANGED <<env, row, held, pool, pods, ct, rc, bk>>
    BY <1>3 DEF InjectRead
  <2>2. m \in Nat /\ account \in Nat /\ pool \in Nat BY <1>0, Constants DEF Typed
  <2>3. used' \in UsedType
    <3>1. used.injections + 1 \in 0 .. MaxInjections
      BY <1>0, <2>1, Constants DEF Typed, UsedType
    <3> QED BY <1>0, <2>1, <3>1 DEF Typed, UsedType
  <2>4. inj' \in InjType BY <2>1, <2>2 DEF InjType
  <2>5. Typed' BY <1>0, <2>1, <2>2, <2>3, <2>4 DEF Typed
  <2>6. Total(held, Names) \in Nat /\ \A a \in Names : held[a] \in Nat
    BY <1>0, Constants, TotalNat DEF Typed
  <2>7. bk.val \in Nat /\ bk.agent \in SUBSET Names BY <1>0 DEF Typed, BookType
  <2>8. Covered'
    <3>1. Total(held, Names) <= account' BY <1>0, <2>1, <2>2, <2>6 DEF Covered
    <3>2. ASSUME bk.pc # "idle", NEW a \in bk.agent
          PROVE  Total(held, Names) - held[a] + bk.val <= account'
      <4>1. Total(held, Names) - held[a] + bk.val <= account BY <1>0, <3>2 DEF Covered
      <4>2. held[a] \in Nat BY <2>6, <2>7
      <4> QED BY <2>1, <2>2, <2>6, <2>7, <4>1, <4>2
    <3> QED BY <2>1, <3>1, <3>2 DEF Covered
  <2> QED BY <1>0, <2>1, <2>5, <2>8 DEF TypeInv, Payable, Counting, Affordable
<1>4. CASE PassAbort
  <2>1. /\ used' = [used EXCEPT !.crashes = @ + 1] /\ used.crashes < MaxCrashes /\ rc' = IdlePass
        /\ UNCHANGED <<env, row, held, pool, pods, account, ct, inj, bk>>
    BY <1>4 DEF PassAbort
  <2>2. used' \in UsedType
    <3>1. used.crashes + 1 \in 0 .. MaxCrashes BY <1>0, <2>1, Constants DEF Typed, UsedType
    <3> QED BY <1>0, <2>1, <3>1 DEF Typed, UsedType
  <2>3. Typed' BY <1>0, <2>1, <2>2, IdlePassType DEF Typed
  <2>4. rc'.pc = "idle" BY <2>1, IdlePassType
  <2> QED BY <1>0, <2>1, <2>3, <2>4 DEF TypeInv, Payable, Counting, Affordable, Covered
<1> QED BY <1>1, <1>2, <1>3, <1>4

LEMMA TypeInvInit == Init => TypeInv
<1> SUFFICES ASSUME Init PROVE TypeInv OBVIOUS
<1> USE Constants
<1>1. row \in [Names -> RowType] BY DEF Init, NoRow, RowType
<1>2. held \in [Names -> Nat] /\ \A a \in Names : held[a] = 0 BY DEF Init
<1>3. Total(held, Names) = 0 BY <1>2, TotalZero
<1>4. used \in UsedType BY DEF Init, UsedType
<1>5. ct.pc = "start" /\ rc.pc = "idle" /\ bk.pc = "idle" BY DEF Init, Starting, IdlePass, IdleBk
<1>6. Typed BY <1>1, <1>2, <1>4, IdleTypes, IdlePassType DEF Init, Typed
<1>7. Covered BY <1>3, <1>5 DEF Init, Covered
<1> QED BY <1>5, <1>6, <1>7 DEF TypeInv, Payable, Counting, Affordable

LEMMA TypeInvNext == TypeInv /\ [Next]_vars => TypeInv'
<1> SUFFICES ASSUME TypeInv, [Next]_vars PROVE TypeInv' OBVIOUS
<1>0. Typed /\ Payable /\ Counting /\ Affordable /\ Covered BY DEF TypeInv
<1>1. CASE Boot
  <2>1. UNCHANGED <<env, held, pool, account, rc, inj, bk, used>> BY <1>1, BootFrame
  <2>2. ct' \in BootType /\ Counting' /\ row' \in [Names -> RowType] /\ pods' \in SUBSET Names
    BY <1>1, BootTyped
  <2>3. Typed' BY <1>0, <2>1, <2>2 DEF Typed
  <2>4. Payable' /\ Affordable' /\ Covered' BY <1>0, <2>1 DEF Payable, Affordable, Covered
  <2> QED BY <2>2, <2>3, <2>4 DEF TypeInv
<1>2. CASE PassStep
  <2>1. UNCHANGED <<env, held, account, ct, inj, bk, used>> BY <1>2, PassFrame
  <2>2. /\ rc' \in PassType /\ Payable' /\ row' \in [Names -> RowType] /\ pool' \in Nat
        /\ pods' \in SUBSET Names
    BY <1>2, PassTyped
  <2>3. Typed' BY <1>0, <2>1, <2>2 DEF Typed
  <2>4. Counting' /\ Affordable' /\ Covered' BY <1>0, <2>1 DEF Counting, Affordable, Covered
  <2> QED BY <2>2, <2>3, <2>4 DEF TypeInv
<1>3. CASE UNCHANGED vars
  BY <1>0, <1>3 DEF vars, TypeInv, Typed, Payable, Counting, Affordable, Covered
<1> QED BY <1>1, <1>2, <1>3, TypeInvBooks, TypeInvOthers DEF Next, Booking

LEMMA TypesKept == Spec => []TypeInv
BY TypeInvInit, TypeInvNext, PTL DEF Spec

\* The type invariant: no table and no local ever leaves its type.  In particular the
\* pool never goes below nothing, though a pass pays from a balance it read earlier.
THEOREM CapitalTypeCorrect == Spec => []CapitalTypeOK
<1>1. TypeInv => CapitalTypeOK BY TypedIsTypeOK DEF TypeInv
<1> QED BY <1>1, TypesKept, PTL

----------------------------------------------------------------------------
\* What a step that writes a row does to the agents there are and to their cash.

Cash == [a \in Names |-> row[a].cash]
OnHand == Total(Cash, Active)

LEMMA Rows ==
  ASSUME Typed
  PROVE  /\ row \in [Names -> RowType]
         /\ \A a \in Names : row[a].st \in {"none", "active", "culled"} /\ row[a].cash \in Nat
         /\ Cash \in [Names -> Nat] /\ \A a \in Names : Cash[a] = row[a].cash
         /\ Active \in SUBSET Names /\ IsFiniteSet(Active) /\ OnHand \in Nat
<1>1. row \in [Names -> RowType] BY DEF Typed
<1>2. \A a \in Names : row[a].st \in {"none", "active", "culled"} /\ row[a].cash \in Nat
  BY <1>1 DEF RowType
<1>3. Cash \in [Names -> Nat] /\ \A a \in Names : Cash[a] = row[a].cash BY <1>2 DEF Cash
<1>4. Active \in SUBSET Names /\ IsFiniteSet(Active) BY Constants, FS_Subset DEF Active
<1>5. OnHand \in Nat BY <1>3, <1>4, TotalNat DEF OnHand
<1> QED BY <1>1, <1>2, <1>3, <1>4, <1>5

\* a new agent
LEMMA NewAgent ==
  ASSUME Typed, NEW a \in Names, a \notin Known, NEW cash \in Nat,
         row' = [row EXCEPT ![a] = [st |-> "active", cash |-> cash]]
  PROVE  /\ a \notin Active /\ Active' = Active \cup {a} /\ Known' = Known \cup {a}
         /\ Culled' = Culled /\ OnHand' = OnHand + cash
         /\ row'[a].cash = cash /\ \A b \in Names \ {a} : row'[b] = row[b]
<1>1. /\ row' \in [Names -> RowType] /\ row'[a].st = "active" /\ row'[a].cash = cash
      /\ \A b \in Names \ {a} : row'[b] = row[b]
  BY Rows, RowChanges
<1>2. row[a].st = "none" BY DEF Known
<1>3. a \notin Active /\ Active' = Active \cup {a} /\ Known' = Known \cup {a} /\ Culled' = Culled
  BY <1>1, <1>2 DEF Active, Known, Culled
<1>4. Cash'[a] = cash /\ \A b \in Active : Cash'[b] = Cash[b]
  BY <1>1, <1>3, Rows DEF Cash
<1>5. \A b \in Active' : Cash'[b] \in Int BY <1>3, <1>4, Rows
<1>6. IsFiniteSet(Active') BY <1>3, Rows, FS_AddElement
<1> HIDE DEF Cash, Active, Known, Culled
<1>7. Total(Cash', Active') = Cash'[a] + Total(Cash', Active' \ {a})
  BY <1>3, <1>5, <1>6, TotalStep DEF Ints
<1>8. Active' \ {a} = Active BY <1>3
<1>9. Total(Cash', Active) = Total(Cash, Active) BY <1>4, Rows, TotalSame
<1>10. OnHand' = OnHand + cash
  <2>1. Total(Cash, Active) \in Nat BY Rows DEF OnHand
  <2>2. Total(Cash', Active') = cash + Total(Cash, Active) BY <1>4, <1>7, <1>8, <1>9
  <2>3. Total(Cash', Active') = Total(Cash, Active) + cash BY <2>1, <2>2
  <2> QED BY <2>3 DEF OnHand
<1> QED BY <1>1, <1>3, <1>10

\* another balance
LEMMA NewBalance ==
  ASSUME Typed, NEW a \in Names, NEW cash \in Nat, row' = [row EXCEPT ![a].cash = cash]
  PROVE  /\ Active' = Active /\ Known' = Known /\ Culled' = Culled
         /\ OnHand' = IF a \in Active THEN OnHand - row[a].cash + cash ELSE OnHand
         /\ row'[a].cash = cash /\ \A b \in Names \ {a} : row'[b] = row[b]
<1>1. /\ row'[a].st = row[a].st /\ row'[a].cash = cash /\ \A b \in Names \ {a} : row'[b] = row[b]
      /\ row' \in [Names -> RowType]
  BY Rows, RowChanges DEF RowType
<1>2. Active' = Active /\ Known' = Known /\ Culled' = Culled BY <1>1 DEF Active, Known, Culled
<1>3. Cash'[a] = cash /\ \A b \in Names \ {a} : Cash'[b] = Cash[b] BY <1>1, Rows DEF Cash
<1> HIDE DEF Cash, Active, Known, Culled
<1>4. CASE a \in Active
  <2>1. Ints(Cash, Active) /\ cash \in Int BY Rows DEF Ints
  <2>2. \A b \in Active \ {a} : Cash'[b] = Cash[b] BY <1>3, Rows
  <2>3. Total(Cash', Active) = Total(Cash, Active) - Cash[a] + cash
    BY <1>3, <1>4, <2>1, <2>2, Rows, TotalChange
  <2> QED BY <1>1, <1>2, <1>4, <2>3, Rows DEF OnHand
<1>5. CASE a \notin Active
  <2>1. \A b \in Active : Cash'[b] = Cash[b] BY <1>3, <1>5, Rows
  <2>2. Total(Cash', Active) = Total(Cash, Active) BY <2>1, Rows, TotalSame
  <2> QED BY <1>1, <1>2, <1>5, <2>2 DEF OnHand
<1> QED BY <1>4, <1>5

\* a culled agent
LEMMA NewCulled ==
  ASSUME Typed, NEW a \in Names, row' = [row EXCEPT ![a].st = "culled"]
  PROVE  /\ Active' = Active \ {a} /\ Known' = Known \cup {a} /\ Culled' = Culled \cup {a}
         /\ \A b \in Names : row'[b].cash = row[b].cash
<1>1. /\ row'[a].st = "culled" /\ row'[a].cash = row[a].cash
      /\ \A b \in Names \ {a} : row'[b] = row[b]
  BY Rows DEF RowType
<1>2. \A b \in Names : row'[b].cash = row[b].cash BY <1>1
<1> QED BY <1>1, <1>2 DEF Active, Known, Culled

LEMMA SameRows ==
  row' = row => Active' = Active /\ Known' = Known /\ Culled' = Culled /\ OnHand' = OnHand
                /\ Cash' = Cash
BY DEF Active, Known, Culled, OnHand, Cash

----------------------------------------------------------------------------
\* Seeding.  The jobs start when bootstrap is over, and what bootstrap has handed out is
\* an equal share to each agent it is through with.

Each == ct.cash \div PodCount
Served == PodCount - ct.left + (IF ct.pc = "deploy" THEN 1 ELSE 0)

NotYetUp == ~Up => rc.pc = "idle" /\ inj.pc = "idle" /\ bk.pc = "idle"
Handed == ct.pc \in {"seed", "deploy"} => Known = Active /\ OnHand <= Served * Each
SeedInv == TypeInv /\ NotYetUp /\ Handed

LEMMA Times ==
  /\ \A e \in Nat : 0 * e = 0
  /\ \A k, e \in Nat : k * e \in Nat /\ (k + 1) * e = k * e + e
  /\ \A k, n, e \in Nat : k <= n => k * e <= n * e
OBVIOUS

LEMMA More ==
  ASSUME NEW x \in Nat, NEW k \in Nat, NEW n \in Nat, NEW e \in Nat, x <= k * e, k <= n
  PROVE  x <= n * e
<1>1. k * e \in Nat /\ n * e \in Nat /\ k * e <= n * e OBVIOUS
<1> QED BY <1>1

LEMMA ServedType ==
  ASSUME Typed, Counting
  PROVE  /\ Each \in Nat /\ ct.cash \in Nat /\ PodCount * Each <= ct.cash
         /\ ct.left \in 0 .. PodCount /\ Served \in Nat
         /\ ct.pc \in {"seed", "deploy"} => Served <= PodCount
<1>0. ct.cash \in Nat BY DEF Typed, BootType
<1>1. Each \in Nat /\ PodCount * Each <= ct.cash BY <1>0, Constants, Share DEF Each
<1>2. ct.left \in 0 .. PodCount BY DEF Typed, BootType
<1>3. Served \in Nat /\ (ct.pc \in {"seed", "deploy"} => Served <= PodCount)
  BY <1>2, Constants DEF Served, Counting
<1> QED BY <1>0, <1>1, <1>2, <1>3

LEMMA WhileUp ==
  ASSUME NotYetUp,
         PassStep \/ InjectWrite \/ Booking \/ (\E m \in Amounts : InjectRead(m))
           \/ \E a \in Names : BookRead(a)
  PROVE  Up /\ ct' = ct
<1>1. CASE PassStep
  <2>1. Up
    <3>1. PassBegin => Up BY DEF PassBegin
    <3>2. PassStep => PassBegin \/ rc.pc # "idle"
      BY DEF PassStep, CullRead, CullPod, PassPool, PoolDeploy, PoolFail, PoolList, PassTrend,
             PassStore, PassScale, PassWorth, CullMark, CullReturn, PoolSpawn, TopUp
    <3> QED BY <1>1, <3>1, <3>2 DEF NotYetUp
  <2> QED BY <1>1, <2>1, PassFrame
<1> QED BY <1>1 DEF NotYetUp, InjectWrite, Booking, BookCash, BookPosition, InjectRead, BookRead

\* what BootCreate hands out
LEMMA BootCreateStep ==
  ASSUME SeedInv, NEW a \in Names, BootCreate(a)
  PROVE  /\ Active' = Active \cup {a} /\ Known' = Known \cup {a} /\ a \notin Active
         /\ Culled' = Culled
         /\ OnHand' = OnHand + Each /\ OnHand' <= Served' * Each /\ Each' = Each
         /\ Served' \in Nat /\ Served' <= PodCount
         /\ ct' = [ct EXCEPT !.pc = "deploy", !.name = {a}]
         /\ ct'.pc = "deploy" /\ ct'.left = ct.left /\ ct'.cash = ct.cash /\ ct'.name = {a}
<1>0. Typed /\ Counting /\ Handed BY DEF SeedInv, TypeInv
<1>1. /\ ct' = [ct EXCEPT !.pc = "deploy", !.name = {a}] /\ ct.pc = "seed" /\ a \notin Known
      /\ row' = [row EXCEPT ![a] = [st |-> "active", cash |-> Each]]
  BY DEF BootCreate, Each
<1>2. ct'.pc = "deploy" /\ ct'.left = ct.left /\ ct'.cash = ct.cash /\ ct'.name = {a}
  BY <1>0, <1>1 DEF Typed, BootType
<1>3. Each \in Nat /\ Served \in Nat /\ ct.left \in 0 .. PodCount BY <1>0, ServedType
<1>4. /\ Active' = Active \cup {a} /\ Known' = Known \cup {a} /\ a \notin Active
      /\ Culled' = Culled /\ OnHand' = OnHand + Each
  BY <1>0, <1>1, <1>3, NewAgent
<1>5. ct.left # 0 BY <1>0, <1>1 DEF Counting
<1>6. Served' = Served + 1 /\ Served' \in Nat /\ Served' <= PodCount
  BY <1>1, <1>2, <1>3, <1>5, Constants DEF Served
<1>7. OnHand <= Served * Each /\ OnHand \in Nat BY <1>0, <1>1, Rows DEF Handed
<1>8. (Served + 1) * Each = Served * Each + Each /\ Served * Each \in Nat BY <1>3, Times
<1>9. OnHand' <= Served' * Each
  <2> HIDE DEF OnHand, Served, Each
  <2>1. OnHand + Each <= Served * Each + Each BY <1>3, <1>7, <1>8
  <2> QED BY <1>4, <1>6, <1>8, <2>1
<1>10. Each' = Each BY <1>2 DEF Each
<1> QED BY <1>1, <1>2, <1>4, <1>6, <1>9, <1>10

LEMMA SeedInvInit == Init => SeedInv
<1> SUFFICES ASSUME Init PROVE SeedInv OBVIOUS
<1>1. ct.pc = "start" /\ rc.pc = "idle" /\ inj.pc = "idle" /\ bk.pc = "idle"
  BY DEF Init, Starting, IdlePass, IdleInj, IdleBk
<1> QED BY <1>1, TypeInvInit DEF SeedInv, NotYetUp, Handed

LEMMA SeedInvBoot ==
  ASSUME SeedInv, Boot
  PROVE  NotYetUp' /\ Handed'
<1>0. Typed /\ Counting /\ NotYetUp /\ Handed BY DEF SeedInv, TypeInv
<1>1. UNCHANGED <<rc, inj, bk>> BY BootFrame
<1>2. ~Up BY DEF Up, Boot, BootSkip, BootBegin, BootCreate, BootFail, BootDeploy
<1>3. NotYetUp' BY <1>0, <1>1, <1>2 DEF NotYetUp
<1>4. CASE BootSkip
  <2>1. ct'.pc = "up" BY <1>4 DEF BootSkip, Running
  <2> QED BY <1>3, <2>1 DEF Handed
<1>5. CASE BootBegin
  <2>1. /\ Known = {} /\ row' = row /\ ct'.pc = "seed" /\ ct'.left = PodCount
    BY <1>5 DEF BootBegin
  <2>2. Known' = {} /\ Active' = {} BY <2>1 DEF Known, Active
  <2>3. OnHand' = 0 BY <2>2, TotalEmpty DEF OnHand
  <2>4. Served' = 0 BY <2>1, Constants DEF Served
  <2>5. 0 * Each' = 0
    <3>1. Each' \in Nat
      <4>1. ct'.cash \in Nat BY BootTyped DEF SeedInv, BootType
      <4> PICK cash \in Nat : cash = ct'.cash BY <4>1
      <4>2. cash \div PodCount \in Nat BY Constants, Share
      <4> QED BY <4>2 DEF Each
    <3> QED BY <3>1, Times
  <2> QED BY <1>3, <2>2, <2>3, <2>4, <2>5 DEF Handed
<1>6. ASSUME NEW a \in Names, BootCreate(a) PROVE Handed'
  <2>1. /\ Active' = Active \cup {a} /\ Known' = Known \cup {a} /\ OnHand' <= Served' * Each
        /\ Each' = Each
    BY <1>6, BootCreateStep
  <2>2. Known = Active BY <1>0, <1>6 DEF BootCreate, Handed
  <2> QED BY <2>1, <2>2 DEF Handed
<1>7. CASE BootFail \/ BootDeploy
  <2>1. ct.pc \in {"seed", "deploy"} /\ SeedNext /\ row' = row BY <1>7 DEF BootFail, BootDeploy
  <2>2. ct.left # 0 /\ Known = Active /\ OnHand <= Served * Each
    BY <1>0, <2>1 DEF Counting, Handed
  <2>3. Active' = Active /\ Known' = Known /\ OnHand' = OnHand BY <2>1, SameRows
  <2>4. /\ Each \in Nat /\ ct.left \in 0 .. PodCount /\ Served \in Nat /\ Served <= PodCount
        /\ OnHand \in Nat
    BY <1>0, <2>1, ServedType, Rows
  <2>5. CASE ct'.pc = "up" BY <1>3, <2>5 DEF Handed
  <2>6. CASE ct'.pc = "seed" /\ ct'.left = ct.left - 1 /\ ct'.cash = ct.cash
    <3>0. Each' = Each BY <2>6 DEF Each
    <3>1. Served' \in Nat /\ Served <= Served' BY <2>4, <2>6, Constants DEF Served
    <3> HIDE DEF Served, OnHand, Each
    <3> PICK n \in Nat : n = Served' BY <3>1
    <3> PICK k \in Nat : k = Served BY <2>4
    <3> PICK e \in Nat : e = Each BY <2>4
    <3> PICK x \in Nat : x = OnHand BY <2>4
    <3>4. x <= n * e BY <2>2, <3>1, More
    <3>5. Each' = e BY <3>0
    <3> QED BY <1>3, <2>2, <2>3, <3>4, <3>5 DEF Handed
  <2> QED BY <1>0, <2>1, <2>2, <2>5, <2>6, SeedNextStep
<1> QED BY <1>3, <1>4, <1>5, <1>6, <1>7 DEF Boot

LEMMA SeedInvNext == SeedInv /\ [Next]_vars => SeedInv'
<1> SUFFICES ASSUME SeedInv, [Next]_vars PROVE NotYetUp' /\ Handed'
  BY TypeInvNext DEF SeedInv
<1>0. NotYetUp /\ Handed BY DEF SeedInv
<1>1. CASE PassStep \/ InjectWrite \/ Booking \/ (\E m \in Amounts : InjectRead(m))
             \/ \E a \in Names : BookRead(a)
  <2>1. Up /\ ct' = ct BY <1>0, <1>1, WhileUp
  <2> QED BY <2>1 DEF Up, NotYetUp, Handed
<1>2. CASE Crash
  <2>1. ct'.pc = "start" /\ rc'.pc = "idle" /\ inj'.pc = "idle" /\ bk'.pc = "idle"
    BY <1>2 DEF Crash, Starting, IdlePass, IdleInj, IdleBk
  <2> QED BY <2>1 DEF NotYetUp, Handed
<1>6. CASE PassAbort
  <2>1. rc.pc # "idle" /\ ct' = ct BY <1>6 DEF PassAbort
  <2> QED BY <1>0, <2>1 DEF NotYetUp, Up, Handed
<1>3. ASSUME UNCHANGED <<ct, row, rc, inj, bk>> PROVE NotYetUp' /\ Handed'
  BY <1>0, <1>3, SameRows DEF NotYetUp, Handed, Up, Served, Each
<1>4. CASE \E a \in Names : \E v \in Prices : Market(a, v) BY <1>3, <1>4 DEF Market
<1>5. CASE UNCHANGED vars BY <1>3, <1>5 DEF vars
<1> QED BY <1>1, <1>2, <1>4, <1>5, <1>6, SeedInvBoot DEF Next

LEMMA SeedInvHolds == Spec => []SeedInv
BY SeedInvInit, SeedInvNext, PTL DEF Spec

\* Whatever fails and however often the controller restarts, bootstrap hands out no more
\* than the cash that start has read: a restart finds the agents there are and seeds none.
THEOREM CashIsSeededOnce == Spec => SeededOnce
<1> DEFINE A == ct.pc = "seed" /\ Active # Active' =>
                  SumOf([a \in Names |-> row'[a].cash], Active') <= ct.cash
<1>1. SeedInv /\ [Next]_vars => [A]_vars
  <2> SUFFICES ASSUME SeedInv, Next, ct.pc = "seed", Active # Active'
               PROVE  SumOf(Cash', Active') <= ct.cash
    BY DEF Cash
  <2>0. Typed /\ Counting /\ NotYetUp BY DEF SeedInv, TypeInv
  <2>1. row' # row BY SameRows
  <2>2. ~Up BY DEF Up
  <2>3. \E a \in Names : BootCreate(a)
    <3>1. Boot BY <2>0, <2>1, <2>2, WhileUp DEF Next, Crash, PassAbort, Market
    <3> QED BY <2>1, <3>1 DEF Boot, BootSkip, BootBegin, BootFail, BootDeploy
  <2> PICK a \in Names : BootCreate(a) BY <2>3
  <2>4. /\ OnHand' = OnHand + Each /\ OnHand' <= Served' * Each
        /\ Served' \in Nat /\ Served' <= PodCount
    BY BootCreateStep
  <2>5. OnHand \in Nat /\ Each \in Nat /\ ct.cash \in Nat /\ PodCount * Each <= ct.cash
    BY <2>0, ServedType, Rows
  <2> HIDE DEF Served, OnHand, Each
  <2> PICK k \in Nat : k = Served' BY <2>4
  <2> PICK e \in Nat : e = Each BY <2>5
  <2> PICK n \in Nat : n = PodCount BY Constants
  <2> PICK x \in Nat : x = OnHand' BY <2>4, <2>5
  <2> PICK cash \in Nat : cash = ct.cash BY <2>5
  <2>6. x <= n * e BY <2>4, More
  <2>7. n * e \in Nat BY Times
  <2>8. OnHand' <= ct.cash BY <2>5, <2>6, <2>7
  <2> QED BY <2>8, SumIsTotal DEF OnHand
<1> QED BY <1>1, SeedInvHolds, PTL DEF Spec, SeededOnce

----------------------------------------------------------------------------
\* The shape of a pass: the agents of its lists are agents the ledger knows, as are those
\* who hold anything or for whom a fill is booked.  No row ever vanishes.

Early  == {"agent", "worth", "mark", "return", "refund", "pod", "pool"}
Late   == {"spawn", "deploy", "list", "trend", "topup", "store"}
AtHand == {"worth", "mark", "return", "refund", "pod", "deploy"}

PassShape ==
  /\ rc.pc \in Early => rc.agents \subseteq Known /\ rc.todo \cup rc.cur \subseteq rc.agents
  /\ rc.pc \in Late => rc.list \subseteq Known
  /\ rc.pc \in AtHand => \E a \in Names : rc.cur = {a}
  /\ rc.pc = "topup" => rc.share \subseteq rc.list
HeldShape ==
  /\ \A a \in Names : held[a] > 0 => a \in Known
  /\ bk.pc # "idle" => bk.agent \subseteq Known

ShapeInv == SeedInv /\ PassShape /\ HeldShape

LEMMA RowsStay ==
  ASSUME Typed, [Next]_vars
  PROVE  Known \subseteq Known'
<1>1. row' = row
      \/ \E a \in Names :
           \/ \E cash : row' = [row EXCEPT ![a].cash = cash]
           \/ row' = [row EXCEPT ![a].st = "culled"]
           \/ \E cash : row' = [row EXCEPT ![a] = [st |-> "active", cash |-> cash]]
  <2>1. CASE Boot
    BY <2>1 DEF Boot, BootSkip, BootBegin, BootCreate, BootFail, BootDeploy
  <2>2. CASE PassStep
    BY <2>2
    DEF PassStep, PassBegin, CullRead, CullPod, PassPool, PoolDeploy, PoolFail, PoolList,
        PassTrend, PassStore, PassScale, PassWorth, CullMark, CullReturn, PoolSpawn, TopUp
  <2>3. CASE Booking \/ InjectWrite \/ Crash \/ PassAbort
    BY <2>3 DEF Booking, BookCash, BookPosition, InjectWrite, Crash, PassAbort
  <2> QED BY <2>1, <2>2, <2>3 DEF Next, InjectRead, BookRead, Market, vars
<1>2. row \in [Names -> RowType] /\ \A a \in Names : row[a] \in RowType BY Rows
<1>3. ASSUME NEW a \in Names, NEW b \in Known, NEW cash,
             \/ row' = [row EXCEPT ![a].cash = cash]
             \/ row' = [row EXCEPT ![a].st = "culled"]
             \/ row' = [row EXCEPT ![a] = [st |-> "active", cash |-> cash]]
      PROVE  b \in Known'
  <2>1. b \in Names /\ row[b].st # "none" BY DEF Known
  <2>2. row'[b].st # "none" BY <1>2, <1>3, <2>1 DEF RowType
  <2> QED BY <2>1, <2>2 DEF Known
<1> QED BY <1>1, <1>3, SameRows

LEMMA PassKeepsShape ==
  ASSUME ShapeInv, PassStep
  PROVE  PassShape' /\ HeldShape'
<1> USE DEF Early, Late, AtHand
<1>0. /\ Typed /\ Payable /\ PassShape /\ HeldShape
      /\ Known \in SUBSET Names /\ Active \subseteq Known
  BY DEF ShapeInv, SeedInv, TypeInv, Known, Active
<1>k. Known \subseteq Known' BY <1>0, RowsStay DEF Next
<1>h. HeldShape' BY <1>0, <1>k, PassFrame DEF HeldShape
<1>1. CASE PassBegin
  <2>1. /\ rc'.pc \in {"pool", "agent"} /\ rc'.agents = Active /\ rc'.todo = Active /\ rc'.cur = {}
    BY <1>0, <1>1, PassBeginStep
  <2>2. rc'.agents \subseteq Known' BY <1>0, <1>k, <2>1
  <2> QED BY <1>h, <2>1, <2>2 DEF PassShape
<1>2. CASE CullRead \/ CullPod \/ \E a \in Names : CullMark(a) \/ CullReturn(a)
  <2>1. rc.pc \in {"mark", "return", "refund", "pod"}
    BY <1>2 DEF CullRead, CullPod, CullMark, CullReturn
  <2>2. /\ rc.agents \subseteq Known' /\ rc.todo \cup rc.cur \subseteq rc.agents
        /\ \E a \in Names : rc.cur = {a}
    BY <1>0, <1>k, <2>1 DEF PassShape
  <2>3. CASE CullPod
    <3>1. rc' = NextAgent(rc) \/ rc' = IdlePass BY <2>3 DEF CullPod
    <3>2. rc \in PassType BY <1>0 DEF Typed
    <3>3. \/ /\ rc'.pc \in {"pool", "agent"} /\ rc'.agents = rc.agents /\ rc'.todo = rc.todo
             /\ rc'.cur = {}
          \/ rc'.pc = "idle"
      BY <3>1, <3>2, NextAgentStep, IdlePassType
    <3> QED BY <1>h, <2>2, <3>3 DEF PassShape
  <2>4. CASE ~CullPod
    <3>1. /\ rc'.pc \in {"return", "refund", "pod"} /\ rc'.cur = rc.cur /\ rc'.agents = rc.agents
          /\ rc'.todo = rc.todo
      BY <1>0, <1>2, <2>4, CullStep
    <3> QED BY <1>h, <2>2, <3>1 DEF PassShape
  <2> QED BY <2>3, <2>4
<1>3. CASE PassPool
  <2>1. \/ rc'.pc = "idle"
        \/ rc'.pc \in {"spawn", "trend"} /\ rc'.list = rc.agents
    BY <1>0, <1>3, PassPoolStep
  <2>2. rc.agents \subseteq Known' BY <1>0, <1>k, <1>3 DEF PassShape, PassPool
  <2> QED BY <1>h, <2>1, <2>2 DEF PassShape
<1>4. ASSUME rc.pc \in Late, rc'.pc \in {"list", "trend", "store"}, rc'.list = rc.list
      PROVE  PassShape'
  <2>1. rc.list \subseteq Known' BY <1>0, <1>k, <1>4 DEF PassShape
  <2> QED BY <1>4, <2>1 DEF PassShape
<1>5. CASE PoolDeploy
  <2>1. rc.pc = "deploy" BY <1>5 DEF PoolDeploy
  <2>2. rc.pool >= MinCapital BY <1>0, <2>1 DEF Payable
  <2>3. rc'.pc = "list" /\ rc'.list = rc.list BY <1>0, <1>5, <2>2, PoolDeployStep
  <2> QED BY <1>h, <1>4, <2>1, <2>3
<1>6. CASE PoolFail
  <2>1. rc.pc \in {"spawn", "deploy", "list"} BY <1>6 DEF PoolFail
  <2>2. rc'.pc = "trend" /\ rc'.list = rc.list BY <1>0, <1>6, PoolFailStep
  <2> QED BY <1>h, <1>4, <2>1, <2>2
<1>7. CASE PoolList
  <2>1. rc'.pc \in {"spawn", "trend"} /\ rc'.list = Active BY <1>0, <1>7, PoolListStep
  <2>2. Active \subseteq Known' BY <1>0, <1>k
  <2> QED BY <1>h, <2>1, <2>2 DEF PassShape
<1>8. CASE PassTrend
  <2>1. /\ rc'.pc \in {"topup", "store"} /\ rc'.list = rc.list /\ rc'.share \in SUBSET rc.list
    BY <1>0, <1>8, PassTrendStep
  <2>2. rc.list \subseteq Known' BY <1>0, <1>k, <1>8 DEF PassShape, PassTrend
  <2> QED BY <1>h, <2>1, <2>2 DEF PassShape
<1>9. CASE PassStore
  <2>1. rc'.pc = "idle" BY <1>9, IdlePassType DEF PassStore
  <2> QED BY <1>h, <2>1 DEF PassShape
<1>10. ASSUME NEW a \in Names, PassScale(a) PROVE PassShape'
  <2>1. /\ rc'.pc = "worth" /\ rc'.agents = rc.agents /\ rc'.todo = rc.todo \ {a}
        /\ rc'.cur = {a}
    BY <1>0, <1>10, PassScaleStep
  <2>2. rc.agents \subseteq Known' /\ rc.todo \subseteq rc.agents /\ a \in rc.todo
    BY <1>0, <1>k, <1>10 DEF PassShape, PassScale
  <2> QED BY <2>1, <2>2 DEF PassShape
<1>11. ASSUME NEW a \in Names, PassWorth(a) PROVE PassShape'
  <2>1. /\ rc'.agents = rc.agents /\ rc'.todo = rc.todo
        /\ \/ rc'.pc = "mark" /\ rc'.cur = rc.cur
           \/ rc'.pc \in {"pool", "agent"} /\ rc'.cur = {}
    BY <1>0, <1>11, PassWorthStep
  <2>2. /\ rc.agents \subseteq Known' /\ rc.todo \cup rc.cur \subseteq rc.agents
        /\ \E b \in Names : rc.cur = {b}
    BY <1>0, <1>k, <1>11 DEF PassShape, PassWorth
  <2> QED BY <2>1, <2>2 DEF PassShape
<1>12. ASSUME NEW a \in Names, PoolSpawn(a) PROVE PassShape'
  <2>1. rc'.pc = "deploy" /\ rc'.cur = {a} /\ rc'.list = rc.list
    BY <1>0, <1>12, PoolSpawnStep
  <2>2. rc.list \subseteq Known' BY <1>0, <1>k, <1>12 DEF PassShape, PoolSpawn
  <2> QED BY <2>1, <2>2 DEF PassShape
<1>13. ASSUME NEW a \in Names, TopUp(a) PROVE PassShape'
  <2>1. rc'.pc \in {"topup", "store"} /\ rc'.list = rc.list /\ rc'.share = rc.share \ {a}
    BY <1>0, <1>13, TopUpStep
  <2>2. rc.list \subseteq Known' /\ rc.share \subseteq rc.list
    BY <1>0, <1>k, <1>13 DEF PassShape, TopUp
  <2> QED BY <2>1, <2>2 DEF PassShape
<1> QED BY <1>h, <1>1, <1>2, <1>3, <1>5, <1>6, <1>7, <1>8, <1>9, <1>10, <1>11, <1>12, <1>13
        DEF PassStep

LEMMA ShapeInvInit == Init => ShapeInv
<1> SUFFICES ASSUME Init PROVE PassShape /\ HeldShape BY SeedInvInit DEF ShapeInv
<1>1. rc.pc = "idle" /\ bk.pc = "idle" BY DEF Init, IdlePass, IdleBk
<1>2. \A a \in Names : ~(held[a] > 0) BY DEF Init
<1> QED BY <1>1, <1>2 DEF PassShape, HeldShape, Early, Late, AtHand

LEMMA ShapeInvNext == ShapeInv /\ [Next]_vars => ShapeInv'
<1> SUFFICES ASSUME ShapeInv, [Next]_vars PROVE PassShape' /\ HeldShape'
  BY SeedInvNext DEF ShapeInv
<1>0. /\ Typed /\ Affordable /\ PassShape /\ HeldShape
  BY DEF ShapeInv, SeedInv, TypeInv
<1>k. Known \subseteq Known' BY <1>0, RowsStay
<1>1. ASSUME UNCHANGED rc PROVE PassShape'
  BY <1>0, <1>k, <1>1 DEF PassShape
<1>2. ASSUME UNCHANGED <<held, bk>> PROVE HeldShape'
  BY <1>0, <1>k, <1>2 DEF HeldShape
<1>3. CASE Boot BY <1>1, <1>2, <1>3, BootFrame
<1>4. CASE InjectWrite \/ (\E m \in Amounts : InjectRead(m)) \/ UNCHANGED vars
  BY <1>1, <1>2, <1>4 DEF InjectWrite, InjectRead, vars
<1>5. CASE Crash
  <2>1. held' = held /\ rc'.pc = "idle" /\ bk'.pc = "idle"
    BY <1>5 DEF Crash, IdlePass, IdleBk
  <2> QED BY <1>0, <1>k, <2>1 DEF PassShape, HeldShape, Early, Late, AtHand
<1>10. CASE PassAbort
  <2>1. held' = held /\ bk' = bk /\ rc'.pc = "idle" BY <1>10, IdlePassType DEF PassAbort
  <2> QED BY <1>0, <1>k, <2>1 DEF PassShape, HeldShape, Early, Late, AtHand
<1>6. ASSUME NEW a \in Names, BookRead(a) PROVE PassShape' /\ HeldShape'
  <2>1. bk'.agent = {a} BY <1>6 DEF BookRead
  <2>2. a \in Known BY <1>0, <1>6 DEF BookRead, HeldShape, Active, Known
  <2>3. UNCHANGED <<held, rc>> BY <1>6 DEF BookRead
  <2> QED BY <1>0, <1>1, <1>k, <2>1, <2>2, <2>3 DEF HeldShape
<1>7. ASSUME NEW a \in Names, BookCash(a) PROVE PassShape' /\ HeldShape'
  <2>1. bk.pc # "idle" /\ bk'.agent = bk.agent BY <1>0, <1>7, BookCashStep DEF BookCash
  <2>2. UNCHANGED <<held, rc>> BY <1>7 DEF BookCash
  <2> QED BY <1>0, <1>1, <1>k, <2>1, <2>2 DEF HeldShape
<1>8. ASSUME NEW a \in Names, BookPosition(a) PROVE PassShape' /\ HeldShape'
  <2>1. /\ held' = [held EXCEPT ![a] = bk.val] /\ bk' = IdleBk /\ UNCHANGED <<row, rc>>
        /\ a \in bk.agent /\ bk.pc # "idle"
    BY <1>8 DEF BookPosition
  <2>2. a \in Known' BY <1>0, <1>k, <2>1 DEF HeldShape
  <2>3. \A b \in Names \ {a} : held'[b] = held[b] BY <1>0, <2>1 DEF Typed
  <2>4. bk'.pc = "idle" BY <2>1 DEF IdleBk
  <2> QED BY <1>0, <1>1, <1>k, <2>1, <2>2, <2>3, <2>4 DEF HeldShape
<1>9. ASSUME NEW a \in Names, NEW v \in Prices, Market(a, v) PROVE PassShape' /\ HeldShape'
  <2>1. held' = [held EXCEPT ![a] = v] /\ held[a] > 0 /\ UNCHANGED <<bk, rc>>
    BY <1>9 DEF Market
  <2>2. \A b \in Names \ {a} : held'[b] = held[b] BY <1>0, <2>1 DEF Typed
  <2> QED BY <1>0, <1>1, <1>k, <2>1, <2>2 DEF HeldShape
<1> QED BY <1>3, <1>4, <1>5, <1>6, <1>7, <1>8, <1>9, <1>10, PassKeepsShape DEF Next, Booking

LEMMA ShapeInvHolds == Spec => []ShapeInv
BY ShapeInvInit, ShapeInvNext, PTL DEF Spec

----------------------------------------------------------------------------
\* While nothing overlaps, a list a pass goes through still holds the balances of the
\* rows, and so does the balance a booking or an injection has read.

Turns ==
  /\ rc.pc # "idle" => inj.pc = "idle" /\ bk.pc = "idle"
  /\ inj.pc # "idle" => bk.pc = "idle" /\ inj.pool = pool
  /\ bk.pc = "cash" => \A a \in bk.agent : row[a].cash = bk.bal
UpToDate ==
  /\ rc.pc \in Early => \A a \in rc.agents : rc.bal[a] = row[a].cash
  /\ rc.pc \in Late \ {"topup", "store"} => \A a \in rc.list : rc.bal[a] = row[a].cash
  /\ rc.pc = "topup" => \A a \in rc.share : rc.bal[a] = row[a].cash

CalmInv == ShapeInv /\ (Calm => Turns /\ UpToDate)

LEMMA PassUpToDate ==
  ASSUME ShapeInv, UpToDate, PassStep
  PROVE  UpToDate'
<1> USE DEF Early, Late, AtHand
<1>0. Typed /\ Payable /\ PassShape /\ Known \in SUBSET Names
  BY DEF ShapeInv, SeedInv, TypeInv, Known
<1>t. rc \in PassType /\ rc.agents \in SUBSET Names /\ rc.list \in SUBSET Names
  BY <1>0 DEF Typed, PassType
<1>1. CASE PassBegin
  <2>1. /\ rc'.pc \in {"pool", "agent"} /\ rc'.agents = Active /\ rc'.bal = ActiveBalances
    BY <1>0, <1>1, PassBeginStep
  <2>2. row' = row BY <1>1 DEF PassBegin
  <2> QED BY <1>0, <2>1, <2>2, Balances DEF UpToDate
\* the list is gone through
<1>2. ASSUME rc.pc \in Early, rc'.pc \in Early, rc'.agents = rc.agents,
             rc'.bal = rc.bal, \A a \in Names : row'[a].cash = row[a].cash
      PROVE  UpToDate'
  <2>1. \A a \in rc.agents : rc.bal[a] = row'[a].cash BY <1>2, <1>t DEF UpToDate
  <2> QED BY <1>2, <2>1 DEF UpToDate
<1>3. CASE CullRead \/ CullPod \/ \E a \in Names : CullReturn(a)
  <2>1. rc.pc \in {"return", "refund", "pod"} /\ row' = row
    BY <1>3 DEF CullRead, CullPod, CullReturn
  <2>2. CASE rc'.pc = "idle" BY <2>2 DEF UpToDate
  <2>3. CASE rc'.pc # "idle"
    <3>1. /\ rc'.pc \in {"return", "refund", "pod", "pool", "agent"} /\ rc'.agents = rc.agents
          /\ rc'.bal = rc.bal
      BY <1>0, <1>3, <2>3, CullStep
    <3> QED BY <1>2, <2>1, <3>1
  <2> QED BY <2>2, <2>3
<1>4. ASSUME NEW a \in Names, CullMark(a) PROVE UpToDate'
  <2>1. rc.pc = "mark" /\ row' = [row EXCEPT ![a].st = "culled"] /\ ~CullPod
    BY <1>4 DEF CullMark, CullPod
  <2>2. /\ rc'.pc \in {"return", "refund", "pod"} /\ rc'.agents = rc.agents /\ rc'.bal = rc.bal
    BY <1>0, <1>4, <2>1, CullStep
  <2>3. \A b \in Names : row'[b].cash = row[b].cash BY <1>0, <2>1, NewCulled
  <2> QED BY <1>2, <2>1, <2>2, <2>3
<1>5. CASE PassPool
  <2>1. \/ rc'.pc = "idle"
        \/ rc'.pc \in {"spawn", "trend"} /\ rc'.list = rc.agents /\ rc'.bal = rc.bal
    BY <1>0, <1>5, PassPoolStep
  <2>2. \A a \in rc.agents : rc.bal[a] = row'[a].cash BY <1>5 DEF UpToDate, PassPool
  <2> QED BY <2>1, <2>2 DEF UpToDate
\* the list of the pool's loop is kept
<1>6. ASSUME rc.pc \in Late \ {"topup", "store"},
             rc'.pc \in Late \ {"topup", "store"}, rc'.list = rc.list, rc'.bal = rc.bal,
             \A a \in rc.list : row'[a] = row[a]
      PROVE  UpToDate'
  <2>1. \A a \in rc.list : rc.bal[a] = row'[a].cash BY <1>6 DEF UpToDate
  <2> QED BY <1>6, <2>1 DEF UpToDate
<1>7. CASE PoolDeploy
  <2>1. rc.pc = "deploy" /\ row' = row BY <1>7 DEF PoolDeploy
  <2>2. rc.pool >= MinCapital BY <1>0, <2>1 DEF Payable
  <2>3. rc'.pc = "list" /\ rc'.list = rc.list /\ rc'.bal = rc.bal
    BY <1>0, <1>7, <2>2, PoolDeployStep
  <2> QED BY <1>6, <2>1, <2>3
<1>8. CASE PoolFail
  <2>1. rc.pc \in {"spawn", "deploy", "list"} /\ row' = row BY <1>8 DEF PoolFail
  <2>2. rc'.pc = "trend" /\ rc'.list = rc.list /\ rc'.bal = rc.bal BY <1>0, <1>8, PoolFailStep
  <2> QED BY <1>6, <2>1, <2>2
<1>9. ASSUME NEW a \in Names, PoolSpawn(a) PROVE UpToDate'
  <2>1. rc'.pc = "deploy" /\ rc'.list = rc.list /\ rc'.bal = rc.bal
    BY <1>0, <1>9, PoolSpawnStep
  <2>2. /\ rc.pc = "spawn" /\ a \notin Known
        /\ row' = [row EXCEPT ![a] = [st |-> "active", cash |-> MinCapital]]
    BY <1>9 DEF PoolSpawn
  <2>3. \A b \in Names \ {a} : row'[b] = row[b] BY <1>0, <2>2, Rows
  <2>4. rc.list \subseteq Names \ {a} BY <1>0, <1>t, <2>2 DEF PassShape
  <2> QED BY <1>6, <2>1, <2>2, <2>3, <2>4
<1>10. CASE PoolList
  <2>1. rc'.pc \in {"spawn", "trend"} /\ rc'.list = Active /\ rc'.bal = ActiveBalances
    BY <1>0, <1>10, PoolListStep
  <2>2. row' = row BY <1>10 DEF PoolList
  <2>3. \A a \in Active : ActiveBalances[a] = row[a].cash BY <1>0, Balances
  <2> QED BY <2>1, <2>2, <2>3 DEF UpToDate
<1>11. CASE PassTrend
  <2>1. /\ rc'.pc \in {"topup", "store"} /\ rc'.bal = rc.bal /\ rc'.share \in SUBSET rc.list
    BY <1>0, <1>11, PassTrendStep
  <2>2. \A a \in rc.list : rc.bal[a] = row'[a].cash BY <1>11 DEF UpToDate, PassTrend
  <2>3. \A a \in rc'.share : rc'.bal[a] = row'[a].cash BY <2>1, <2>2
  <2> QED BY <2>1, <2>3 DEF UpToDate
<1>12. ASSUME NEW a \in Names, TopUp(a) PROVE UpToDate'
  <2>1. PICK share \in Nat :
          /\ row' = [row EXCEPT ![a].cash = rc.bal[a] + share]
          /\ rc'.pc \in {"topup", "store"} /\ rc'.bal = rc.bal /\ rc'.share = rc.share \ {a}
    BY <1>0, <1>12, TopUpStep
  <2>2. rc.share \in SUBSET Names /\ \A b \in rc.share : rc.bal[b] = row[b].cash
    BY <1>0, <1>12 DEF UpToDate, TopUp, Typed, PassType
  <2>3. \A b \in Names \ {a} : row'[b] = row[b] BY <1>0, <2>1, Rows
  <2>4. \A b \in rc'.share : rc'.bal[b] = row'[b].cash BY <2>1, <2>2, <2>3
  <2> QED BY <2>1, <2>4 DEF UpToDate
<1>13. CASE PassStore
  <2>1. rc'.pc = "idle" BY <1>13, IdlePassType DEF PassStore
  <2> QED BY <2>1 DEF UpToDate
<1>14. ASSUME NEW a \in Names, PassScale(a) PROVE UpToDate'
  <2>1. rc'.pc = "worth" /\ rc'.agents = rc.agents /\ rc'.bal = rc.bal
    BY <1>0, <1>14, PassScaleStep
  <2> QED BY <1>2, <1>14, <2>1 DEF PassScale
<1>15. ASSUME NEW a \in Names, PassWorth(a) PROVE UpToDate'
  <2>1. rc.pc = "worth" /\ row' = row BY <1>15 DEF PassWorth
  <2>2. /\ rc'.agents = rc.agents /\ rc'.bal = rc.bal /\ rc'.pc \in {"mark", "pool", "agent"}
    BY <1>0, <1>15, PassWorthStep
  <2> QED BY <1>2, <2>1, <2>2
<1> QED BY <1>1, <1>3, <1>4, <1>5, <1>7, <1>8, <1>9, <1>10, <1>11, <1>12, <1>13, <1>14, <1>15
        DEF PassStep

LEMMA CalmInvInit == Init => CalmInv
<1> SUFFICES ASSUME Init PROVE Turns /\ UpToDate BY ShapeInvInit DEF CalmInv
<1>1. rc.pc = "idle" /\ inj.pc = "idle" /\ bk.pc = "idle"
  BY DEF Init, IdlePass, IdleInj, IdleBk
<1> QED BY <1>1 DEF Turns, UpToDate, Early, Late

LEMMA CalmInvNext == CalmInv /\ [Next]_vars => CalmInv'
<1> SUFFICES ASSUME CalmInv, [Next]_vars, Calm' PROVE Turns' /\ UpToDate'
  BY ShapeInvNext DEF CalmInv
<1> USE DEF Early, Late
<1>0. /\ ShapeInv /\ Typed /\ NotYetUp /\ Affordable /\ HeldShape
  BY DEF CalmInv, ShapeInv, SeedInv, TypeInv
<1>e. env' = env
  BY PassFrame, BootFrame
  DEF Next, Booking, BookCash, BookPosition, BookRead, InjectRead, InjectWrite, Crash, PassAbort,
      Market, vars
<1>c. Calm /\ Turns /\ UpToDate BY <1>e DEF CalmInv, Calm
<1>a. Alone => rc.pc = "idle" /\ inj.pc = "idle" /\ bk.pc = "idle" BY <1>c DEF Alone, Calm
<1>1. ASSUME UNCHANGED <<row, pool, rc, inj, bk>> PROVE Turns' /\ UpToDate'
  BY <1>1, <1>c DEF Turns, UpToDate
\* no pass is under way
<1>2. ASSUME rc'.pc = "idle" PROVE UpToDate'
  BY <1>2 DEF UpToDate
<1>3. CASE Boot
  <2>1. rc.pc = "idle" /\ inj.pc = "idle" /\ bk.pc = "idle"
    BY <1>0, <1>3
    DEF NotYetUp, Up, Boot, BootSkip, BootBegin, BootCreate, BootFail, BootDeploy
  <2>2. UNCHANGED <<rc, inj, bk>> BY <1>3, BootFrame
  <2> QED BY <1>2, <2>1, <2>2 DEF Turns
<1>4. CASE PassStep
  <2>1. inj.pc = "idle" /\ bk.pc = "idle"
    <3>1. PassBegin => Alone BY DEF PassBegin
    <3>2. PassBegin \/ rc.pc # "idle"
      BY <1>4 DEF PassStep, CullRead, CullPod, PassPool, PoolDeploy, PoolFail, PoolList,
             PassTrend, PassStore, PassScale, PassWorth, CullMark, CullReturn, PoolSpawn, TopUp
    <3> QED BY <1>a, <1>c, <3>1, <3>2 DEF Turns
  <2>2. UNCHANGED <<inj, bk>> BY <1>4, PassFrame
  <2>3. Turns' BY <2>1, <2>2 DEF Turns
  <2> QED BY <1>0, <1>4, <1>c, <2>3, PassUpToDate
<1>5. CASE InjectWrite
  <2>1. rc.pc = "idle" /\ bk.pc = "idle" BY <1>5, <1>c DEF Turns, InjectWrite
  <2>2. rc' = rc /\ bk' = bk /\ inj'.pc = "idle" BY <1>5 DEF InjectWrite, IdleInj
  <2> QED BY <1>2, <2>1, <2>2 DEF Turns
<1>6. ASSUME NEW m \in Amounts, InjectRead(m) PROVE Turns' /\ UpToDate'
  <2>1. /\ rc.pc = "idle" /\ bk.pc = "idle" /\ rc' = rc /\ bk' = bk /\ pool' = pool
    BY <1>6, <1>a DEF InjectRead
  <2>2. inj'.pool = pool BY <1>6 DEF InjectRead
  <2> QED BY <1>2, <2>1, <2>2 DEF Turns
<1>7. CASE Crash
  <2>1. rc'.pc = "idle" /\ inj'.pc = "idle" /\ bk'.pc = "idle"
    BY <1>7 DEF Crash, IdlePass, IdleInj, IdleBk
  <2> QED BY <1>2, <2>1 DEF Turns
<1>11. CASE PassAbort
  <2>1. rc.pc # "idle" /\ rc'.pc = "idle" /\ UNCHANGED <<inj, bk>>
    BY <1>11, IdlePassType DEF PassAbort
  <2> QED BY <1>2, <1>c, <2>1 DEF Turns
<1>8. ASSUME NEW a \in Names, BookRead(a) PROVE Turns' /\ UpToDate'
  <2>1. /\ rc.pc = "idle" /\ inj.pc = "idle" /\ rc' = rc /\ inj' = inj /\ row' = row
    BY <1>8, <1>a DEF BookRead
  <2>2. bk'.agent = {a} /\ bk'.bal = row[a].cash BY <1>8 DEF BookRead
  <2> QED BY <1>2, <2>1, <2>2 DEF Turns
<1>9. ASSUME NEW a \in Names, BookCash(a) \/ BookPosition(a) PROVE Turns' /\ UpToDate'
  <2>1. bk.pc # "idle" /\ rc' = rc /\ inj' = inj BY <1>9 DEF BookCash, BookPosition
  <2>2. rc.pc = "idle" /\ inj.pc = "idle" BY <1>c, <2>1 DEF Turns
  <2>3. bk'.pc # "cash" BY <1>0, <1>9, BookCashStep DEF BookPosition, IdleBk
  <2> QED BY <1>2, <2>1, <2>2, <2>3 DEF Turns
<1>10. CASE (\E a \in Names : \E v \in Prices : Market(a, v)) \/ UNCHANGED vars
  BY <1>1, <1>10 DEF Market, vars
<1> QED BY <1>3, <1>4, <1>5, <1>6, <1>7, <1>8, <1>9, <1>10, <1>11 DEF Next, Booking

----------------------------------------------------------------------------
\* Pods and rows, between the transaction that writes the row and the call to Kubernetes
\* that follows it: an agent on its way out has left the rows but not yet its pod, one on
\* its way in has a row but no pod yet.

Leaving == IF rc.pc \in {"return", "refund", "pod"} THEN rc.cur ELSE {}
Coming  == (IF ct.pc = "deploy" THEN ct.name ELSE {})
             \cup (IF rc.pc = "deploy" THEN rc.cur ELSE {})
Matched == pods \ Leaving = Active \ Coming /\ Coming \subseteq Active /\ Leaving \cap Active = {}

PodInv == ShapeInv /\ (env \subseteq {"overlap"} => Matched)

LEMMA PodInvInit == Init => PodInv
<1> SUFFICES ASSUME Init PROVE Matched BY ShapeInvInit DEF PodInv
<1>1. rc.pc = "idle" /\ ct.pc = "start" BY DEF Init, IdlePass, Starting
<1>2. Active = {} /\ pods = {} BY DEF Init, Active, NoRow
<1> QED BY <1>1, <1>2 DEF Matched, Leaving, Coming

LEMMA PassMatched ==
  ASSUME ShapeInv, Matched, PassStep, Up, env \subseteq {"overlap"}
  PROVE  Matched'
<1>0. /\ Typed /\ Payable /\ PassShape /\ ct' = ct /\ ct.pc = "up"
  BY PassFrame DEF ShapeInv, SeedInv, TypeInv, Up
\* nobody is on the way in or out after the step, nor was anyone before it
<1>1. ASSUME Leaving = {}, Coming = {}, pods' = pods, row' = row,
             rc'.pc \notin {"return", "refund", "pod", "deploy"}
      PROVE  Matched'
  <2>1. Leaving' = {} /\ Coming' = {} BY <1>0, <1>1 DEF Leaving, Coming
  <2> QED BY <1>1, <2>1, SameRows DEF Matched
<1>2. ASSUME rc.pc \notin {"return", "refund", "pod", "deploy"} PROVE Leaving = {} /\ Coming = {}
  BY <1>0, <1>2 DEF Leaving, Coming
<1>3. CASE PassBegin
  BY <1>0, <1>1, <1>2, <1>3, PassBeginStep DEF PassBegin
<1>4. CASE PassPool
  <2>1. rc'.pc \in {"idle", "spawn", "trend"} BY <1>0, <1>4, PassPoolStep
  <2> QED BY <1>1, <1>2, <1>4, <2>1 DEF PassPool
<1>5. CASE PoolList
  <2>1. rc'.pc \in {"spawn", "trend"} BY <1>0, <1>5, PoolListStep
  <2> QED BY <1>1, <1>2, <1>5, <2>1 DEF PoolList
<1>6. CASE PassTrend
  <2>1. rc'.pc \in {"topup", "store"} BY <1>0, <1>6, PassTrendStep
  <2> QED BY <1>1, <1>2, <1>6, <2>1 DEF PassTrend
<1>7. CASE PassStore
  <2>1. rc'.pc = "idle" BY <1>7, IdlePassType DEF PassStore
  <2> QED BY <1>1, <1>2, <1>7, <2>1 DEF PassStore
<1>8. ASSUME NEW a \in Names, PassScale(a) PROVE Matched'
  <2>1. rc'.pc = "worth" BY <1>0, <1>8, PassScaleStep
  <2> QED BY <1>1, <1>2, <1>8, <2>1 DEF PassScale
<1>9. ASSUME NEW a \in Names, PassWorth(a) PROVE Matched'
  <2>1. rc'.pc \in {"mark", "pool", "agent"} BY <1>0, <1>9, PassWorthStep
  <2> QED BY <1>1, <1>2, <1>9, <2>1 DEF PassWorth
<1>10. ASSUME NEW a \in Names, TopUp(a) PROVE Matched'
  <2>1. PICK share \in Nat :
          /\ row' = [row EXCEPT ![a].cash = rc.bal[a] + share] /\ rc'.pc \in {"topup", "store"}
    BY <1>0, <1>10, TopUpStep
  <2>2. rc.bal[a] + share \in Nat BY <1>0 DEF Typed, PassType
  <2>3. Active' = Active BY <1>0, <2>1, <2>2, NewBalance
  <2>4. Leaving = {} /\ Coming = {} /\ pods' = pods BY <1>2, <1>10 DEF TopUp
  <2>5. Leaving' = {} /\ Coming' = {} BY <1>0, <2>1 DEF Leaving, Coming
  <2> QED BY <2>3, <2>4, <2>5 DEF Matched
\* the row goes, then the pod
<1>11. ASSUME NEW a \in Names, CullMark(a) PROVE Matched'
  <2>1. /\ rc.pc = "mark" /\ a \in rc.cur /\ row' = [row EXCEPT ![a].st = "culled"]
        /\ pods' = pods /\ ~CullPod
    BY <1>11 DEF CullMark, CullPod
  <2>2. rc.cur = {a} BY <1>0, <2>1 DEF PassShape, AtHand
  <2>3. rc'.pc \in {"return", "refund", "pod"} /\ rc'.cur = {a}
    BY <1>0, <1>11, <2>1, <2>2, CullStep
  <2>4. Active' = Active \ {a} BY <1>0, <2>1, NewCulled
  <2>5. Leaving = {} /\ Coming = {} /\ Leaving' = {a} /\ Coming' = {}
    BY <1>0, <1>2, <2>1, <2>3 DEF Leaving, Coming
  <2> QED BY <2>1, <2>4, <2>5 DEF Matched
<1>12. CASE CullRead \/ \E a \in Names : CullReturn(a)
  <2>1. /\ rc.pc \in {"return", "refund"} /\ UNCHANGED <<row, pods>> /\ ~CullPod
    BY <1>12 DEF CullRead, CullReturn, CullPod
  <2>2. rc'.pc \in {"return", "refund", "pod"} /\ rc'.cur = rc.cur
    BY <1>0, <1>12, <2>1, CullStep
  <2>3. Leaving' = Leaving /\ Coming' = Coming
    BY <1>0, <2>1, <2>2 DEF Leaving, Coming
  <2> QED BY <2>1, <2>3, SameRows DEF Matched
<1>13. CASE CullPod
  <2>1. /\ rc.pc = "pod" /\ row' = row /\ pods' = pods \ rc.cur /\ rc' = NextAgent(rc)
    BY <1>13 DEF CullPod
  <2>2. rc'.pc \in {"pool", "agent"} BY <1>0, <2>1, NextAgentStep DEF Typed
  <2>3. Leaving = rc.cur /\ Coming = {} /\ Leaving' = {} /\ Coming' = {}
    BY <1>0, <2>1, <2>2 DEF Leaving, Coming
  <2> QED BY <2>1, <2>3, SameRows DEF Matched
\* the row comes, then the pod
<1>14. ASSUME NEW a \in Names, PoolSpawn(a) PROVE Matched'
  <2>1. /\ rc.pc = "spawn" /\ a \notin Known /\ pods' = pods
        /\ row' = [row EXCEPT ![a] = [st |-> "active", cash |-> MinCapital]]
    BY <1>14 DEF PoolSpawn
  <2>2. Active' = Active \cup {a} /\ a \notin Active BY <1>0, <2>1, NewAgent, Constants
  <2>3. rc'.pc = "deploy" /\ rc'.cur = {a} BY <1>0, <1>14, PoolSpawnStep
  <2>4. Leaving = {} /\ Coming = {} /\ Leaving' = {} /\ Coming' = {a}
    BY <1>0, <1>2, <2>1, <2>3 DEF Leaving, Coming
  <2> QED BY <2>1, <2>2, <2>4 DEF Matched
<1>15. CASE PoolDeploy
  <2>1. rc.pc = "deploy" /\ row' = row /\ pods' = pods \cup rc.cur BY <1>15 DEF PoolDeploy
  <2>2. rc.pool >= MinCapital BY <1>0, <2>1 DEF Payable
  <2>3. rc'.pc = "list" BY <1>0, <1>15, <2>2, PoolDeployStep
  <2>4. Leaving = {} /\ Coming = rc.cur /\ Leaving' = {} /\ Coming' = {}
    BY <1>0, <2>1, <2>3 DEF Leaving, Coming
  <2> QED BY <2>1, <2>4, SameRows DEF Matched
<1>16. ~PoolFail BY DEF PoolFail
<1> QED BY <1>3, <1>4, <1>5, <1>6, <1>7, <1>8, <1>9, <1>10, <1>11, <1>12, <1>13, <1>14, <1>15,
           <1>16 DEF PassStep

LEMMA BootMatched ==
  ASSUME ShapeInv, Matched, Boot, env \subseteq {"overlap"}
  PROVE  Matched'
<1>0. /\ SeedInv /\ Typed /\ Counting /\ NotYetUp
  BY DEF ShapeInv, SeedInv, TypeInv
<1>1. ~Up BY DEF Up, Boot, BootSkip, BootBegin, BootCreate, BootFail, BootDeploy
<1>2. rc.pc = "idle" /\ rc' = rc BY <1>0, <1>1, BootFrame DEF NotYetUp
<1>3. /\ Leaving = {} /\ Leaving' = {}
      /\ Coming = (IF ct.pc = "deploy" THEN ct.name ELSE {})
      /\ Coming' = (IF ct'.pc = "deploy" THEN ct'.name ELSE {})
  BY <1>2 DEF Leaving, Coming
<1>4. CASE BootSkip \/ BootBegin
  <2>1. ct.pc = "start" /\ ct'.pc \in {"seed", "up"} /\ UNCHANGED <<row, pods>>
    BY <1>4 DEF BootSkip, BootBegin, Running
  <2> QED BY <1>3, <2>1, SameRows DEF Matched
<1>5. ASSUME NEW a \in Names, BootCreate(a) PROVE Matched'
  <2>1. /\ Active' = Active \cup {a} /\ a \notin Active /\ ct'.pc = "deploy" /\ ct'.name = {a}
    BY <1>0, <1>5, BootCreateStep
  <2>2. ct.pc = "seed" /\ pods' = pods BY <1>5 DEF BootCreate
  <2> QED BY <1>3, <2>1, <2>2 DEF Matched
<1>6. CASE BootDeploy
  <2>1. ct.pc = "deploy" /\ SeedNext /\ row' = row /\ pods' = pods \cup ct.name
    BY <1>6 DEF BootDeploy
  <2>2. ct.left # 0 BY <1>0, <2>1 DEF Counting
  <2>3. ct'.pc \in {"seed", "up"} BY <1>0, <2>1, <2>2, SeedNextStep
  <2> QED BY <1>3, <2>1, <2>3, SameRows DEF Matched
<1>7. ~BootFail BY DEF BootFail
<1> QED BY <1>4, <1>5, <1>6, <1>7 DEF Boot

LEMMA PodInvNext == PodInv /\ [Next]_vars => PodInv'
<1> SUFFICES ASSUME PodInv, [Next]_vars, env' \subseteq {"overlap"} PROVE Matched'
  BY ShapeInvNext DEF PodInv
<1>0. /\ ShapeInv /\ Typed /\ NotYetUp /\ Affordable
  BY DEF PodInv, ShapeInv, SeedInv, TypeInv
<1>e. env' = env
  BY PassFrame, BootFrame
  DEF Next, Booking, BookCash, BookPosition, BookRead, InjectRead, InjectWrite, Crash, PassAbort,
      Market, vars
<1>m. Matched /\ env \subseteq {"overlap"} BY <1>e DEF PodInv
<1>1. ASSUME UNCHANGED <<pods, ct, rc>>, Active' = Active PROVE Matched'
  BY <1>1, <1>m DEF Matched, Leaving, Coming
<1>2. CASE PassStep BY <1>0, <1>2, <1>m, PassMatched, WhileUp
<1>3. CASE Boot BY <1>0, <1>3, <1>m, BootMatched
<1>4. ASSUME NEW a \in Names, BookCash(a) PROVE Matched'
  <2>1. UNCHANGED <<pods, ct, rc>> BY <1>4 DEF BookCash
  <2>2. Active' = Active BY <1>0, <1>4, BookCashStep, NewBalance
  <2> QED BY <1>1, <2>1, <2>2
<1>5. CASE InjectWrite \/ (\E m \in Amounts : InjectRead(m))
             \/ (\E a \in Names : BookRead(a) \/ BookPosition(a) \/ \E v \in Prices : Market(a, v))
             \/ UNCHANGED vars
  <2>1. UNCHANGED <<row, pods, ct, rc>>
    BY <1>5 DEF InjectWrite, InjectRead, BookRead, BookPosition, Market, vars
  <2> QED BY <1>1, <2>1, SameRows
<1>6. ~Crash /\ ~PassAbort BY <1>m DEF Crash, PassAbort
<1> QED BY <1>2, <1>3, <1>4, <1>5, <1>6 DEF Next, Booking

LEMMA PodInvHolds == Spec => []PodInv
BY PodInvInit, PodInvNext, PTL DEF Spec

\* While nothing fails every agent the ledger says is active runs in a pod and no other
\* does, also when trades and injections go on while a pass culls and spawns.
THEOREM PodsFollowRows == Spec => []PodsMatchRows
<1>1. PodInv => PodsMatchRows
  <2> SUFFICES ASSUME PodInv, env \subseteq {"overlap"}, Quiet PROVE pods = Active
    BY DEF PodsMatchRows
  <2>1. Matched /\ rc.pc = "idle" /\ ct.pc = "up" BY DEF PodInv, Quiet, Up
  <2> QED BY <2>1 DEF Matched, Leaving, Coming
<1> QED BY <1>1, PodInvHolds, PTL

----------------------------------------------------------------------------
\* The money.  At any moment it is with the agents, in the pool or about to reach it,
\* in positions as the fill being booked leaves them, or still to be seeded.

InLoop == rc.pc \in Late
Kitty == (IF InLoop THEN rc.pool ELSE pool) + (IF inj.pc = "write" THEN inj.amount ELSE 0)
           - (IF rc.pc = "deploy" THEN MinCapital ELSE 0)
Positions == [a \in Names |-> IF bk.pc = "position" /\ a \in bk.agent THEN bk.val ELSE held[a]]
Out == Total(Positions, Names)
ToSeed == IF ct.pc = "start" THEN PodCount ELSE IF ct.pc = "seed" THEN ct.left
          ELSE IF ct.pc = "deploy" THEN ct.left - 1 ELSE 0
Portion == StartCash \div PodCount
Unseeded == ToSeed * Portion

Balance == OnHand + Kitty + Out + Unseeded = account

Ledger ==
  /\ ct.pc = "start" => Known = {} /\ AccountCash = StartCash
  /\ ct.pc \in {"seed", "deploy"} => ct.cash = StartCash
  /\ rc.pc \in {"return", "refund", "pod"} => Culled # {}
  /\ Culled = {} => Balance
BalInv == CalmInv /\ (Calm => Ledger)

\* The account is shared out to the last unit, and there is enough for every agent.
Divides == StartCash = PodCount * Portion
Suffices == StartCash >= MinCapital * PodCount

LEMMA OutIs ==
  ASSUME Typed
  PROVE  /\ Out \in Int /\ Total(held, Names) \in Nat
         /\ bk.pc # "position" => Out = Total(held, Names)
         /\ \A a \in Names : bk.pc = "position" /\ bk.agent = {a}
                               => Out = Total(held, Names) - held[a] + bk.val
<1>1. held \in [Names -> Nat] /\ IsFiniteSet(Names) /\ bk.val \in Nat
  BY Constants DEF Typed, BookType
<1>2. Positions \in [Names -> Nat] BY <1>1 DEF Positions
<1>3. Total(held, Names) \in Nat /\ Out \in Int BY <1>1, <1>2, TotalNat DEF Out
<1>4. ASSUME bk.pc # "position" PROVE Out = Total(held, Names)
  <2>1. \A b \in Names : Positions[b] = held[b] BY <1>4 DEF Positions
  <2> HIDE DEF Positions
  <2> QED BY <1>1, <2>1, TotalSame DEF Out
<1>5. ASSUME NEW a \in Names, bk.pc = "position", bk.agent = {a}
      PROVE  Out = Total(held, Names) - held[a] + bk.val
  <2>1. Positions[a] = bk.val /\ \A b \in Names \ {a} : Positions[b] = held[b]
    BY <1>5 DEF Positions
  <2>2. Ints(held, Names) /\ bk.val \in Int BY <1>1 DEF Ints
  <2> HIDE DEF Positions
  <2> QED BY <1>1, <2>1, <2>2, TotalChange DEF Out
<1> QED BY <1>3, <1>4, <1>5

LEMMA PartsType ==
  ASSUME Typed
  PROVE  /\ OnHand \in Int /\ Kitty \in Int /\ Out \in Int /\ Unseeded \in Int
         /\ account \in Int /\ pool \in Int /\ rc.pool \in Int /\ Portion \in Int /\ MinCapital \in Int
         /\ ToSeed \in Int
<1>1. OnHand \in Int /\ Out \in Int BY Rows, OutIs
<1>2. /\ account \in Int /\ pool \in Int /\ rc.pool \in Int /\ MinCapital \in Int
      /\ ct.left \in Int /\ PodCount \in Int
  BY Constants DEF Typed, PassType, BootType
<1>3. inj.amount \in Int
  <2>1. inj \in InjType /\ Amounts \cup {0} \subseteq Nat BY Constants DEF Typed
  <2>2. inj.amount \in Amounts \cup {0} BY <2>1 DEF InjType
  <2> QED BY <2>1, <2>2
<1>4. Kitty \in Int BY <1>2, <1>3 DEF Kitty
<1>5. Portion \in Int BY Constants, Share DEF Portion
<1>6. ToSeed \in Int BY <1>2 DEF ToSeed
<1>7. \A k \in Int, e \in Int : k * e \in Int OBVIOUS
<1>8. Unseeded \in Int BY <1>5, <1>6, <1>7 DEF Unseeded
<1> QED BY <1>1, <1>2, <1>4, <1>5, <1>6, <1>8

LEMMA Nothing == \A p \in Int : p + 0 - 0 = p
OBVIOUS

\* the positions, or the pool, move with the account
LEMMA OutMoves ==
  ASSUME Typed, Balance, OnHand' = OnHand, Kitty' = Kitty, Unseeded' = Unseeded,
         NEW d \in Int, Out' = Out + d, account' = account + d
  PROVE  Balance'
BY PartsType DEF Balance

LEMMA KittyMoves ==
  ASSUME Typed, Balance, OnHand' = OnHand, Out' = Out, Unseeded' = Unseeded,
         NEW d \in Int, Kitty' = Kitty + d, account' = account + d
  PROVE  Balance'
BY PartsType DEF Balance

LEMMA PassBalances ==
  ASSUME CalmInv, Calm, Ledger, PassStep, Up
  PROVE  Ledger'
<1> USE DEF Late
<1>0. /\ ShapeInv /\ Typed /\ Payable /\ PassShape /\ HeldShape /\ UpToDate /\ Turns
      /\ Known = Active \cup Culled /\ Active \in SUBSET Names
  BY Rows DEF CalmInv, ShapeInv, SeedInv, TypeInv, Known, Active, Culled
<1>f. /\ UNCHANGED <<env, held, account, ct, inj, bk, used>> /\ ct.pc = "up"
  BY PassFrame DEF Up
<1>i. inj.pc = "idle" /\ bk.pc = "idle"
  <2>1. PassBegin => inj.pc = "idle" /\ bk.pc = "idle" BY DEF PassBegin, Alone, Calm
  <2>2. PassBegin \/ rc.pc # "idle"
    BY DEF PassStep, CullRead, CullPod, PassPool, PoolDeploy, PoolFail, PoolList,
           PassTrend, PassStore, PassScale, PassWorth, CullMark, CullReturn, PoolSpawn, TopUp
  <2> QED BY <1>0, <2>1, <2>2 DEF Turns
<1>t. /\ OnHand \in Int /\ Kitty \in Int /\ Out \in Int /\ Unseeded \in Int
      /\ account \in Int /\ pool \in Int /\ rc.pool \in Int /\ MinCapital \in Int
  BY <1>0, PartsType
<1>u. Out' = Out /\ Unseeded' = Unseeded /\ account' = account /\ ct'.pc = "up"
  BY <1>f DEF Out, Positions, Unseeded, ToSeed, Portion
<1>k. Kitty = (IF InLoop THEN rc.pool ELSE pool) - (IF rc.pc = "deploy" THEN MinCapital ELSE 0)
  BY <1>i, <1>t DEF Kitty, InLoop
<1>k1. ASSUME rc'.pc \notin Late, pool' \in Int PROVE Kitty' = pool'
  <2>1. ~InLoop' /\ rc'.pc # "deploy" /\ inj'.pc # "write" BY <1>f, <1>i, <1>k1 DEF InLoop
  <2> PICK p \in Int : p = pool' BY <1>k1
  <2>2. Kitty' = p + 0 - 0 BY <2>1 DEF Kitty
  <2> QED BY <2>2, Nothing
<1>k2. ASSUME rc'.pc \in Late \ {"deploy"}, rc'.pool \in Int PROVE Kitty' = rc'.pool
  BY <1>f, <1>i, <1>k2 DEF Kitty, InLoop
\* the steps that move no money
<1>1. ASSUME row' = row, Kitty' = Kitty,
             rc'.pc \in {"return", "refund", "pod"} => Culled # {}
      PROVE  Ledger'
  BY <1>1, <1>f, <1>u, SameRows DEF Ledger, Balance
<1>2. ASSUME rc.pc \notin Late, rc'.pc \notin Late, row' = row, pool' = pool,
             rc'.pc \in {"return", "refund", "pod"} => Culled # {}
      PROVE  Ledger'
  BY <1>1, <1>2, <1>k, <1>k1, <1>t DEF InLoop
<1>3. CASE PassBegin
  <2>1. rc'.pc \in {"pool", "agent"} BY <1>0, <1>3, PassBeginStep
  <2> QED BY <1>2, <1>3, <2>1 DEF PassBegin
<1>4. ASSUME NEW a \in Names, PassScale(a) PROVE Ledger'
  <2>1. rc'.pc = "worth" BY <1>0, <1>4, PassScaleStep
  <2> QED BY <1>2, <1>4, <2>1 DEF PassScale
<1>5. ASSUME NEW a \in Names, PassWorth(a) PROVE Ledger'
  <2>1. rc'.pc \in {"mark", "pool", "agent"} BY <1>0, <1>5, PassWorthStep
  <2> QED BY <1>2, <1>5, <2>1 DEF PassWorth
<1>6. CASE CullRead
  <2>1. rc'.pc \in {"return", "refund", "pod"} BY <1>0, <1>6, CullStep DEF CullRead, CullPod
  <2>2. Culled # {} BY <1>6 DEF CullRead, Ledger
  <2> QED BY <1>2, <1>6, <2>1, <2>2 DEF CullRead
<1>7. ASSUME NEW a \in Names, CullMark(a) PROVE Ledger'
  <2>1. row' = [row EXCEPT ![a].st = "culled"] BY <1>7 DEF CullMark
  <2>2. Culled' # {} BY <1>0, <2>1, NewCulled
  <2> QED BY <1>u, <2>2 DEF Ledger
<1>8. CASE CullPod \/ \E a \in Names : CullReturn(a)
  <2>1. Culled # {} /\ row' = row BY <1>8 DEF CullPod, CullReturn, Ledger
  <2>2. Culled' # {} BY <2>1, SameRows
  <2> QED BY <1>u, <2>2 DEF Ledger
<1>9. CASE PassPool
  <2>1. rc.pc = "pool" /\ row' = row /\ pool' = pool BY <1>9 DEF PassPool
  <2>2. \/ rc'.pc = "idle"
        \/ rc'.pc \in {"spawn", "trend"} /\ rc'.pool = pool
    BY <1>0, <1>9, PassPoolStep
  <2>3. Kitty' = Kitty BY <1>k, <1>k1, <1>k2, <1>t, <2>1, <2>2 DEF InLoop
  <2> QED BY <1>1, <2>1, <2>2, <2>3
<1>10. ASSUME NEW a \in Names, PoolSpawn(a) PROVE Ledger'
  <2>1. /\ rc.pc = "spawn" /\ a \notin Known
        /\ row' = [row EXCEPT ![a] = [st |-> "active", cash |-> MinCapital]]
    BY <1>10 DEF PoolSpawn
  <2>2. Culled' = Culled /\ OnHand' = OnHand + MinCapital
    BY <1>0, <2>1, NewAgent, Constants
  <2>3. rc'.pc = "deploy" /\ rc'.pool = rc.pool BY <1>0, <1>10, PoolSpawnStep
  <2>4. Kitty' = Kitty - MinCapital
    <3>1. Kitty' = rc.pool - MinCapital BY <1>f, <1>i, <1>t, <2>3 DEF Kitty, InLoop
    <3> QED BY <1>k, <1>t, <2>1, <3>1 DEF InLoop
  <2>5. Balance => Balance' BY <1>t, <1>u, <2>2, <2>4 DEF Balance
  <2> QED BY <1>u, <2>2, <2>3, <2>5 DEF Ledger
<1>11. CASE PoolDeploy
  <2>1. rc.pc = "deploy" /\ row' = row BY <1>11 DEF PoolDeploy
  <2>2. rc.pool >= MinCapital BY <1>0, <2>1 DEF Payable
  <2>3. rc'.pc = "list" /\ rc'.pool = rc.pool - MinCapital BY <1>0, <1>11, <2>2, PoolDeployStep
  <2>4. Kitty' = rc.pool - MinCapital BY <1>k2, <1>t, <2>3
  <2>5. Kitty' = Kitty BY <1>k, <1>t, <2>1, <2>4 DEF InLoop
  <2> QED BY <1>1, <2>1, <2>3, <2>5
<1>12. CASE PoolList
  <2>1. rc.pc = "list" /\ row' = row BY <1>12 DEF PoolList
  <2>2. rc'.pc \in {"spawn", "trend"} /\ rc'.pool = rc.pool BY <1>0, <1>12, PoolListStep
  <2>3. Kitty' = Kitty BY <1>k, <1>k2, <1>t, <2>1, <2>2 DEF InLoop
  <2> QED BY <1>1, <2>1, <2>2, <2>3
<1>13. CASE PassTrend
  <2>1. rc.pc = "trend" /\ row' = row BY <1>13 DEF PassTrend
  <2>2. rc'.pc \in {"topup", "store"} /\ rc'.pool = rc.pool BY <1>0, <1>13, PassTrendStep
  <2>3. Kitty' = Kitty BY <1>k, <1>k2, <1>t, <2>1, <2>2 DEF InLoop
  <2> QED BY <1>1, <2>1, <2>2, <2>3
<1>14. ASSUME NEW a \in Names, TopUp(a) PROVE Ledger'
  <2>1. PICK share \in Nat :
          /\ row' = [row EXCEPT ![a].cash = rc.bal[a] + share]
          /\ rc'.pc \in {"topup", "store"} /\ rc'.pool = rc.pool - share
    BY <1>0, <1>14, TopUpStep
  <2>2. rc.pc = "topup" /\ a \in rc.share BY <1>14 DEF TopUp
  <2>3. rc.bal[a] = row[a].cash /\ a \in Known BY <1>0, <2>2 DEF UpToDate, PassShape
  <2>4. rc.bal[a] \in Nat BY <1>0 DEF Typed, PassType
  <2> PICK b \in Nat : b = rc.bal[a] BY <2>4
  <2> PICK c \in Nat : c = b + share OBVIOUS
  <2>5. /\ Culled' = Culled
        /\ a \in Active => OnHand' = OnHand - row[a].cash + c
    BY <1>0, <2>1, NewBalance
  <2>6. Culled = {} => OnHand' = OnHand + share
    <3>1. Culled = {} => OnHand' = OnHand - b + c BY <1>0, <2>3, <2>5
    <3> QED BY <1>t, <3>1
  <2>7. Kitty' = Kitty - share
    <3>1. Kitty' = rc.pool - share BY <1>k2, <1>t, <2>1
    <3> QED BY <1>k, <1>t, <2>2, <3>1 DEF InLoop
  <2>8. Culled = {} /\ Balance => Balance' BY <1>t, <1>u, <2>6, <2>7 DEF Balance
  <2> QED BY <1>u, <2>1, <2>5, <2>8 DEF Ledger
<1>15. CASE PassStore
  <2>1. rc.pc = "store" /\ row' = row /\ pool' = rc.pool /\ rc'.pc = "idle"
    BY <1>15, IdlePassType DEF PassStore
  <2>2. Kitty' = Kitty BY <1>k, <1>k1, <1>t, <2>1 DEF InLoop
  <2> QED BY <1>1, <2>1, <2>2
<1>16. ~PoolFail BY DEF PoolFail, Calm
<1> QED BY <1>3, <1>4, <1>5, <1>6, <1>7, <1>8, <1>9, <1>10, <1>11, <1>12, <1>13, <1>14, <1>15,
           <1>16 DEF PassStep

LEMMA BootBalances ==
  ASSUME CalmInv, Calm, Ledger, Boot, Suffices
  PROVE  Ledger'
<1>0. /\ SeedInv /\ Typed /\ Counting /\ NotYetUp
  BY DEF CalmInv, ShapeInv, SeedInv, TypeInv
<1>1. ~Up BY DEF Up, Boot, BootSkip, BootBegin, BootCreate, BootFail, BootDeploy
<1>2. rc.pc = "idle" /\ UNCHANGED <<env, held, pool, account, rc, inj, bk, used>>
  BY <1>0, <1>1, BootFrame DEF NotYetUp
<1>3. /\ OnHand \in Int /\ Kitty \in Int /\ Out \in Int /\ Unseeded \in Int /\ ToSeed \in Int
      /\ account \in Int /\ Portion \in Int /\ ct.left \in 0 .. PodCount
  BY <1>0, PartsType, ServedType
<1>4. Kitty' = Kitty /\ Out' = Out /\ account' = account /\ rc'.pc = "idle"
      /\ Portion' = Portion
  BY <1>2 DEF Kitty, InLoop, Out, Positions, Portion
<1>5. ASSUME row' = row, ct'.pc # "start", ToSeed' = ToSeed,
             ct'.pc \in {"seed", "deploy"} => ct'.cash = StartCash
      PROVE  Ledger'
  <2>1. Unseeded' = Unseeded BY <1>4, <1>5 DEF Unseeded
  <2> QED BY <1>4, <1>5, <2>1, SameRows DEF Ledger, Balance
<1>6. CASE BootBegin
  <2>1. ct.pc = "start" /\ row' = row /\ ct'.pc = "seed" /\ ct'.left = PodCount
    BY <1>6 DEF BootBegin
  <2>2. ToSeed' = ToSeed BY <2>1 DEF ToSeed
  <2>3. ct'.cash = StartCash BY <1>6, <2>1 DEF BootBegin, Ledger
  <2> QED BY <1>5, <2>1, <2>2, <2>3
<1>7. ~BootSkip
  <2> PICK needed \in Nat : needed = MinCapital * PodCount BY Constants, Times
  <2>1. ~(StartCash < needed) BY Constants DEF Suffices
  <2> QED BY <2>1 DEF BootSkip, Ledger, Calm
<1>8. ASSUME NEW a \in Names, BootCreate(a) PROVE Ledger'
  <2>1. /\ OnHand' = OnHand + Each /\ ct'.pc = "deploy" /\ ct'.left = ct.left
        /\ Culled' = Culled /\ ct'.cash = ct.cash
    BY <1>0, <1>8, BootCreateStep
  <2>2. ct.pc = "seed" /\ ct.cash = StartCash BY <1>8 DEF BootCreate, Ledger
  <2>e. Each = Portion BY <2>2 DEF Each, Portion
  <2> PICK n \in Int : n = ct.left BY <1>3
  <2> PICK e \in Int : e = Portion BY <1>3
  <2>3. ToSeed = n /\ ToSeed' = n - 1 BY <2>1, <2>2 DEF ToSeed
  <2>4. (n - 1) * e = n * e - e OBVIOUS
  <2>5. Unseeded' = Unseeded - Portion BY <1>4, <2>3, <2>4 DEF Unseeded
  <2>6. Balance => Balance' BY <1>3, <1>4, <2>1, <2>5, <2>e DEF Balance
  <2> QED BY <1>4, <2>1, <2>2, <2>6 DEF Ledger
<1>9. CASE BootDeploy
  <2>1. ct.pc = "deploy" /\ SeedNext /\ row' = row BY <1>9 DEF BootDeploy
  <2>2. ct.left # 0 BY <1>0, <2>1 DEF Counting
  <2>3. \/ ct.left = 1 /\ ct'.pc = "up"
        \/ ct'.pc = "seed" /\ ct'.left = ct.left - 1 /\ ct'.cash = ct.cash
    BY <1>0, <2>1, <2>2, SeedNextStep
  <2>4. ToSeed' = ToSeed BY <1>3, <2>1, <2>3 DEF ToSeed
  <2>5. ct.cash = StartCash BY <2>1 DEF Ledger
  <2> QED BY <1>5, <2>1, <2>3, <2>4, <2>5
<1>10. ~BootFail BY DEF BootFail, Calm
<1> QED BY <1>6, <1>7, <1>8, <1>9, <1>10 DEF Boot

LEMMA BooksBalance ==
  ASSUME CalmInv, Calm, Ledger, NEW a \in Names,
         BookRead(a) \/ BookCash(a) \/ BookPosition(a) \/ \E v \in Prices : Market(a, v)
  PROVE  Ledger'
<1>0. /\ TypeInv /\ Typed /\ Affordable /\ Turns /\ HeldShape /\ Covered
      /\ Known = Active \cup Culled
  BY Rows DEF CalmInv, ShapeInv, SeedInv, TypeInv, Known, Active, Culled
<1>1. UNCHANGED <<env, pool, pods, ct, rc, inj>>
  BY DEF BookRead, BookCash, BookPosition, Market
<1>2. Kitty' = Kitty /\ Unseeded' = Unseeded
  BY <1>1 DEF Kitty, InLoop, Unseeded, ToSeed, Portion
<1>s. ct.pc # "start"
  BY <1>0 DEF Ledger, CalmInv, ShapeInv, SeedInv, NotYetUp, Up, HeldShape, BookRead, BookCash,
              BookPosition, Market
<1>3. /\ OnHand \in Int /\ Kitty \in Int /\ Out \in Int /\ Unseeded \in Int
      /\ account \in Int /\ Total(held, Names) \in Int /\ held[a] \in Int
  BY <1>0, PartsType, OutIs DEF Typed
<1>4. ASSUME bk.pc # "position" PROVE Out = Total(held, Names) BY <1>0, <1>4, OutIs
<1>5. ASSUME bk'.pc # "position" PROVE Out' = Total(held', Names)
  <2>1. \A b \in Names : Positions'[b] = held'[b] BY <1>5 DEF Positions
  <2> HIDE DEF Positions
  <2> QED BY <2>1, Constants, TotalSame DEF Out
<1>6. ASSUME row' = row, NEW d \in Int, Out' = Out + d, account' = account + d
      PROVE  Ledger'
  <2>1. Balance => Balance'
    <3>1. OnHand' = OnHand BY <1>6, SameRows
    <3> QED BY <1>0, <1>2, <1>6, <3>1, OutMoves
  <2> QED BY <1>1, <1>6, <1>s, <2>1, SameRows DEF Ledger
<1>7. CASE BookRead(a)
  <2>1. bk.pc = "idle" /\ UNCHANGED <<row, held, account>> BY <1>7 DEF BookRead
  <2>2. bk'.pc = "cash" BY <1>0, <1>7, BookReadStep
  <2>3. Out' = Out /\ account' = account BY <1>4, <1>5, <2>1, <2>2
  <2> PICK d \in Int : d = 0 OBVIOUS
  <2>4. Out' = Out + d /\ account' = account + d BY <1>3, <2>3
  <2> QED BY <1>6, <2>1, <2>4
<1>8. CASE BookCash(a)
  <2>1. bk.pc = "cash" /\ a \in bk.agent /\ UNCHANGED <<held, account>> BY <1>8 DEF BookCash
  <2>2. /\ bk.agent = {a} /\ bk.bal + held[a] - bk.val \in Nat
        /\ row' = [row EXCEPT ![a].cash = bk.bal + held[a] - bk.val]
        /\ bk'.pc = "position" /\ bk'.agent = {a} /\ bk'.val = bk.val
    BY <1>0, <1>8, BookCashStep
  <2>3. bk.bal \in Int /\ bk.val \in Int BY <1>0 DEF Typed, BookType
  <2> PICK cash \in Nat : cash = bk.bal + held[a] - bk.val BY <2>2
  <2>4. row[a].cash = bk.bal /\ a \in Known BY <1>0, <2>1 DEF Turns, HeldShape
  <2>5. /\ Culled' = Culled /\ Known' = Known
        /\ a \in Active => OnHand' = OnHand - row[a].cash + cash
    BY <1>0, <2>2, NewBalance
  <2>6. Culled = {} => OnHand' = OnHand + held[a] - bk.val
    <3>1. Culled = {} => OnHand' = OnHand - bk.bal + cash BY <1>0, <2>4, <2>5
    <3> QED BY <1>3, <2>3, <3>1
  <2>7. Out' = Total(held, Names) - held[a] + bk.val
    <3>1. /\ Positions'[a] = bk.val
          /\ \A b \in Names \ {a} : Positions'[b] = held[b]
      BY <2>1, <2>2 DEF Positions
    <3>2. Ints(held, Names) BY <1>0 DEF Ints, Typed
    <3> HIDE DEF Positions
    <3> QED BY <2>3, <3>1, <3>2, Constants, TotalChange DEF Out
  <2>8. Out = Total(held, Names) BY <1>4, <2>1
  <2>9. Culled = {} /\ Balance => Balance'
    BY <1>2, <1>3, <2>1, <2>3, <2>6, <2>7, <2>8 DEF Balance
  <2> QED BY <1>1, <1>s, <2>5, <2>9 DEF Ledger
<1>9. CASE BookPosition(a)
  <2>1. /\ bk.pc = "position" /\ a \in bk.agent /\ UNCHANGED <<row, account>>
        /\ held' = [held EXCEPT ![a] = bk.val] /\ bk' = IdleBk
    BY <1>9 DEF BookPosition
  <2>2. bk.agent = {a} BY <1>0, <2>1 DEF Affordable
  <2>3. Out = Total(held, Names) - held[a] + bk.val BY <1>0, <2>1, <2>2, OutIs
  <2>4. bk.val \in Nat BY <1>0 DEF Typed, BookType
  <2>5. Total(held', Names) = Total(held, Names) - held[a] + bk.val
    BY <1>0, <2>1, <2>4, Revalue
  <2>6. bk'.pc = "idle" BY <2>1 DEF IdleBk
  <2>7. Out' = Out /\ account' = account BY <1>5, <2>1, <2>3, <2>5, <2>6
  <2> PICK d \in Int : d = 0 OBVIOUS
  <2>8. Out' = Out + d /\ account' = account + d BY <1>3, <2>7
  <2> QED BY <1>6, <2>1, <2>8
<1>10. ASSUME NEW v \in Prices, Market(a, v) PROVE Ledger'
  <2>1. /\ held' = [held EXCEPT ![a] = v] /\ account' = account + v - held[a]
        /\ bk.pc = "idle" /\ UNCHANGED <<row, bk>>
    BY <1>10 DEF Market
  <2>2. v \in Nat BY Constants
  <2>3. Total(held', Names) = Total(held, Names) - held[a] + v BY <1>0, <2>1, <2>2, Revalue
  <2>4. Out = Total(held, Names) /\ Out' = Total(held', Names) BY <1>4, <1>5, <2>1
  <2> PICK d \in Int : d = v - held[a] BY <1>3, <2>2
  <2>5. Out' = Out + d /\ account' = account + d BY <1>3, <2>1, <2>2, <2>3, <2>4
  <2> QED BY <1>6, <2>1, <2>5
<1> QED BY <1>7, <1>8, <1>9, <1>10

LEMMA InjectionsBalance ==
  ASSUME CalmInv, Calm, Ledger, InjectWrite \/ \E m \in Amounts : InjectRead(m)
  PROVE  Ledger'
<1>0. Typed /\ Turns BY DEF CalmInv, ShapeInv, SeedInv, TypeInv
<1>1. UNCHANGED <<env, row, held, pods, ct, rc, bk>> BY DEF InjectWrite, InjectRead
<1>2. rc.pc = "idle" BY <1>0 DEF InjectWrite, InjectRead, Turns, Alone, Calm
<1>3. /\ OnHand \in Int /\ Kitty \in Int /\ Out \in Int /\ Unseeded \in Int
      /\ account \in Int /\ pool \in Int
  BY <1>0, PartsType
<1>s. ct.pc # "start"
  BY DEF CalmInv, ShapeInv, SeedInv, NotYetUp, Up, InjectWrite, InjectRead
<1>4. OnHand' = OnHand /\ Out' = Out /\ Unseeded' = Unseeded
  BY <1>1, SameRows DEF Out, Positions, Unseeded, ToSeed, Portion
<1>5. ASSUME NEW d \in Int, Kitty' = Kitty + d, account' = account + d PROVE Ledger'
  <2>1. Balance => Balance' BY <1>0, <1>4, <1>5, KittyMoves
  <2> QED BY <1>1, <1>s, <2>1, SameRows DEF Ledger
<1>k. /\ inj.pc = "idle" => Kitty = pool + 0 - 0
      /\ inj.pc = "write" => Kitty = pool + inj.amount - 0
  BY <1>2 DEF Kitty, InLoop, Late
<1>6. CASE InjectWrite
  <2>1. inj.pc = "write" /\ pool' = inj.pool + inj.amount /\ inj' = IdleInj /\ account' = account
    BY <1>6 DEF InjectWrite
  <2>2. inj.pool = pool BY <1>0, <2>1 DEF Turns
  <2>3. inj.amount \in Nat
    <3>1. inj \in InjType /\ Amounts \cup {0} \subseteq Nat BY <1>0, Constants DEF Typed
    <3>2. inj.amount \in Amounts \cup {0} BY <3>1 DEF InjType
    <3> QED BY <3>1, <3>2
  <2> PICK p \in Int : p = pool' BY <1>3, <2>1, <2>2, <2>3
  <2>4. Kitty' = p + 0 - 0 BY <1>1, <1>2, <2>1 DEF Kitty, InLoop, Late, IdleInj
  <2>5. Kitty' = p BY <2>4, Nothing
  <2>6. Kitty' = Kitty BY <1>3, <1>k, <2>1, <2>2, <2>3, <2>5
  <2> PICK d \in Int : d = 0 OBVIOUS
  <2>7. Kitty' = Kitty + d /\ account' = account + d BY <1>3, <2>1, <2>6
  <2> QED BY <1>5, <2>7
<1>7. ASSUME NEW m \in Amounts, InjectRead(m) PROVE Ledger'
  <2>1. /\ inj' = [pc |-> "write", amount |-> m, pool |-> pool] /\ account' = account + m
        /\ pool' = pool
    BY <1>7 DEF InjectRead
  <2>2. inj.pc = "idle" BY <1>7 DEF InjectRead
  <2>3. m \in Nat BY Constants
  <2>4. inj'.pc = "write" /\ inj'.amount = m BY <2>1
  <2>5. Kitty' = pool + m - 0 BY <1>1, <1>2, <2>1, <2>4 DEF Kitty, InLoop, Late
  <2>6. Kitty' = Kitty + m BY <1>3, <1>k, <2>2, <2>3, <2>5
  <2> PICK d \in Int : d = m BY <2>3
  <2>7. Kitty' = Kitty + d /\ account' = account + d BY <2>1, <2>6
  <2> QED BY <1>5, <2>7
<1> QED BY <1>6, <1>7

LEMMA BalInvInit == Divides /\ Init => BalInv
<1> SUFFICES ASSUME Divides, Init PROVE Ledger BY CalmInvInit DEF BalInv
<1>1. ct.pc = "start" /\ rc.pc = "idle" /\ inj.pc = "idle" /\ bk.pc = "idle"
  BY DEF Init, Starting, IdlePass, IdleInj, IdleBk
<1>2. Known = {} /\ Active = {} BY DEF Init, Known, Active, NoRow
<1>3. Typed BY TypeInvInit DEF TypeInv
<1>4. OnHand = 0 BY <1>2, TotalEmpty DEF OnHand
<1>5. Out = 0
  <2>1. \A a \in Names : held[a] = 0 BY DEF Init
  <2> QED BY <1>1, <1>3, <2>1, OutIs, Constants, TotalZero
<1>6. Kitty = 0
  <2>1. Kitty = pool + 0 - 0 BY <1>1 DEF Kitty, InLoop, Late
  <2> QED BY <2>1 DEF Init
<1>7. Unseeded = StartCash /\ account = StartCash
  BY <1>1 DEF Unseeded, ToSeed, Divides, Init
<1>8. 0 + 0 + 0 + StartCash = StartCash BY Constants
<1>10. AccountCash = StartCash
  <2>1. \A a \in Names : held[a] = 0 BY DEF Init
  <2>2. SumOf(held, Names) = 0 BY <1>3, <2>1, Constants, TotalZero, SumIsTotal DEF Typed
  <2>3. StartCash - 0 = StartCash BY Constants
  <2> QED BY <1>7, <2>2, <2>3 DEF AccountCash
<1>9. Balance BY <1>4, <1>5, <1>6, <1>7, <1>8 DEF Balance
<1> QED BY <1>1, <1>2, <1>9, <1>10 DEF Ledger

LEMMA BalInvNext == Suffices /\ BalInv /\ [Next]_vars => BalInv'
<1> SUFFICES ASSUME Suffices, BalInv, [Next]_vars, Calm' PROVE Ledger'
  BY CalmInvNext DEF BalInv
<1>0. CalmInv /\ NotYetUp BY DEF BalInv, CalmInv, ShapeInv, SeedInv
<1>e. env' = env
  BY PassFrame, BootFrame
  DEF Next, Booking, BookCash, BookPosition, BookRead, InjectRead, InjectWrite, Crash, PassAbort,
      Market, vars
<1>c. Calm /\ Ledger BY <1>e DEF BalInv, Calm
<1>1. CASE Boot BY <1>0, <1>1, <1>c, BootBalances
<1>2. CASE PassStep BY <1>0, <1>2, <1>c, PassBalances, WhileUp
<1>3. CASE UNCHANGED vars
  BY <1>3, <1>c, SameRows
  DEF vars, Ledger, Balance, Kitty, InLoop, Out, Positions, Unseeded, ToSeed, Portion, AccountCash
<1>4. ~Crash /\ ~PassAbort BY <1>c DEF Crash, PassAbort, Calm
<1> QED BY <1>0, <1>1, <1>2, <1>3, <1>4, <1>c, BooksBalance, InjectionsBalance
        DEF Next, Booking

\* While nothing overlaps or fails and nobody has been culled, the balances, the pool and
\* the positions add up to what the broker's account is worth, whatever is seeded,
\* spawned, topped up, injected and traded, provided the account's cash divides evenly
\* (a share is a fraction in the code and a whole number here) and bootstrap finds enough.
THEOREM LedgerIsTheAccount ==
  ASSUME Divides, Suffices
  PROVE  Spec => []CalmBalanced
<1>1. Init => BalInv BY BalInvInit
<1>2. BalInv /\ [Next]_vars => BalInv' BY BalInvNext
<1>3. BalInv => CalmBalanced
  <2> SUFFICES ASSUME BalInv, Calm, Culled = {}, Quiet PROVE LedgerTotal = account
    BY DEF CalmBalanced, Balanced
  <2>1. /\ Balance /\ Typed /\ rc.pc = "idle" /\ inj.pc = "idle" /\ bk.pc = "idle" /\ ct.pc = "up"
    BY DEF BalInv, Ledger, CalmInv, ShapeInv, SeedInv, TypeInv, Quiet, Up
  <2>2. Out = Total(held, Names) BY <2>1, OutIs
  <2>3. /\ OnHand \in Int /\ Out \in Int /\ account \in Int /\ pool \in Int /\ Portion \in Int
    BY <2>1, PartsType
  <2>4. Kitty = pool
    <3>1. Kitty = pool + 0 - 0 BY <2>1 DEF Kitty, InLoop, Late
    <3> QED BY <2>3, <3>1, Nothing
  <2>5. Unseeded = 0
    <3>1. Unseeded = 0 * Portion BY <2>1 DEF Unseeded, ToSeed
    <3> PICK e \in Int : e = Portion BY <2>3
    <3>2. 0 * e = 0 OBVIOUS
    <3> QED BY <3>1, <3>2
  <2>6. OnHand + pool + Total(held, Names) + 0 = account
    <3>1. OnHand + pool + Out + 0 = account
      <4>1. OnHand + Kitty + Out + Unseeded = account BY <2>1 DEF Balance
      <4>2. OnHand + pool + Out + 0 = OnHand + Kitty + Out + Unseeded BY <2>4, <2>5
      <4> QED BY <4>1, <4>2
    <3> QED BY <2>2, <3>1
  <2>7. LedgerTotal = OnHand + pool + Total(held, Names)
    BY SumIsTotal DEF LedgerTotal, OnHand, Cash
  <2> QED BY <2>2, <2>3, <2>6, <2>7
<1> QED BY <1>1, <1>2, <1>3, PTL DEF Spec
=============================================================================
