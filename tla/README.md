# TLA+ models of tradingCluster

A Controller (one Kubernetes pod: a Flask server and an APScheduler) keeps a Postgres
ledger of trading agents and is the only program that talks to the broker, Alpaca. Agents
(one pod each) ask it for data, ask a language model for a decision, and send the decision
back as a proposal. This directory models the Controller's ledger (how it places orders and
learns what became of them, how it sells on its own, how it sizes and stops positions, how it
moves capital between agents), the agents' loop against it with the budget and the cost
breaker that hold it back, the shortlists the agents are shown, the owner's command poll, and
the backtester.

Paths and lines below are of the repository; `app.py`, `db.py` and so on are in
`controller/`.

## The system

| Part | State | Operations | Talks to |
|---|---|---|---|
| Order placement (`app.propose`) | rows of `trades`, `agents.current_balance`, `positions` | check, size, record, submit, mark, book an instant fill | `risk`, `db`, Alpaca |
| Order sync (`app.sync_orders`, every 20 s) | the same | list pending orders, read each at the broker, mark, book | `db`, Alpaca |
| Exits (`app.enforce_exits`, every 60 s) | the same, `high_water_mark`, `last_price` | true quantities up against the broker, compute the stop, sell | `db`, Alpaca |
| Risk gate (`risk.py`, `market_regime.exposure_multiplier`) | none | six checks and a resize | |
| Capital (`app.bootstrap`, `app.reconcile` every 60 s, `/capital/inject`) | `agents.status`, `unallocated_pool`, deployments | seed, spawn at the ceiling, cull at the floor, spawn from the pool, top up | `db`, Kubernetes, Alpaca |
| Agent loop (`agent/agent.py`), heartbeat and pacing (`app.heartbeat`, `market_hours.py`) | `_last_context` in the pod, `api_usage` | think or sleep; is the model worth asking; ask; report; POST `/propose` (waits 15 s) | Controller, the model provider |
| Cost breaker (end of `app.reconcile`), `app.sync_api_costs` | `_cost_breaker` in memory, `api_costs` | compare a week's spend with its profit; fetch the bills | `db`, Anthropic |
| Regime (`market_regime.py`, `app.refresh_regime`) | `market_regime` | score the market from closes | market data |
| Discovery and screening (`app.run_discovery_scan`, `app.screen`) | `market_scans`, `shortlist_cache` | record what moves; filter, rank, save | market data |
| Commands (`app.poll_telegram_commands`, `telegram_client.py`) | `_last_update_id`, `telegram_state` | poll, answer, save the offset | Telegram |
| Backtester (`backtester/`) | its own | replay days of history | `risk`, `market_regime`, `major_coins` |
| Daily summary, dashboard, scripts | none of the ledger's | messages; read and render; maintenance | |

What makes it hard:

- **Threads over one ledger.** Flask threads and the scheduler's jobs run at once. Every
  `db.*` function opens a transaction of its own (`db.get_conn`), so a handler is a series of
  transactions with broker calls between them. `current_balance` is written as an absolute
  value computed from a read made earlier.
- **The broker runs on its own.** An order is accepted now and fills, or is cancelled,
  perhaps with a part filled, later. A submit may fail after the broker took the order.
- **Crashes.** The pod may die between any two transactions and starts again with nothing
  but the tables. A database call that raises ends one request or pass and leaves the
  other threads running.
- **Several writers of one fact.** A sell may be the agent's, the Controller's or the
  owner's; each changes what the others will find. Two agents' screens write one table.
- **Reads that go stale.** The heartbeat answers from a count of calls that the call it
  allows will raise only much later; the breaker adds up bills that lag behind the spend.
- **Memory and table.** An offset, a breaker and an agent's last context live in memory; only
  the first of them is also in a table.

What makes the parts correct: a fill is booked exactly once and for the quantity that
filled; no fill is invented; the ledger knows of every order the broker knows; an agent does
not spend money twice or share a symbol; a stop that is hit sells, and never moves away from
the price; money moved between agents and pool is neither made nor lost; a restart never seeds
twice; the daily budget bounds what is paid for, and nothing is
paid twice for the same answer; a holding near its stop is put to the model; a breaker trips
for cause and comes back; no command is lost or answered twice; the replay's stop is no
kinder than the live one. `PROJECT.json` lists the hazards line by line.

## Modules

| Module | Models | Extends |
|---|---|---|
| `FillBook` | the contract: an order is open, ends one way, and a fill is booked once | |
| `OrderLedger` | `propose`, `sync_orders`, the broker | |
| `ExitLedger` | `enforce_exits` and the owner, on the same tables | `OrderLedger` |
| `RiskGate` | `risk.validate_proposal`, the regime's multiplier | |
| `TrailingStop` | one position from proposal to exit | `RiskGate` |
| `Capital` | `bootstrap`, `reconcile`, `inject_capital` | |
| `AgentCycle` | `agent.py`'s loop, `heartbeat`, the daily budget, the cost breaker, `sync_api_costs` | |
| `CommandPoll` | `poll_telegram_commands`, `get_updates`, the saved offset | |
| `Screening` | discovery passes, the persistence filter, the three screens, `save_shortlist` | |
| `Replay` | the backtester and its report; the regime score | `RiskGate` |
| `SumProofs` | sums over finite sets, induction, division | |
| `OrderLedgerProofs`, `ExitLedgerProofs` | theorems about the ledgers | `OrderLedger` and `SumProofs`; `ExitLedger` and `OrderLedgerProofs` |
| `TrailingStopProofs`, `CapitalProofs`, `AgentCycleProofs` | theorems about the three | the module of that name (the first two: and `SumProofs`) |
| `JobsProofs` | theorems about the poll and the screening | `CommandPoll`, `Screening` |
| `ReplayProofs` | theorems about the replay and the score | `Replay`, `SumProofs` |
| `MC*` | constants of the instances TLC checks | the module of that name |
| `MCJobs` | the command poll, the screening and the replay, one in each behaviour | all three |

The abstract specification is `FillBook`. `OrderLedger` implements it under the mapping
`life <- trade[o].status` (`ImplementsFillBook`), and so does the composition with the exits
(`ExitsImplementFillBook`).

### OrderLedger

One step per transaction or broker call. `hd` holds, for each thread, the point it has
reached in `propose` and the locals it uses later: the order, the balance read at the top
(`bal`), whether the symbol was taken, whether the submit answered with a fill. `sy` does so
for the sync pass: the rows left (`todo`), the row at hand and the balance read for it.

| Variable | In the code |
|---|---|
| `trade[o]` | the row of `trades`: `status`, whether `alpaca_order_id` is set, `qty` |
| `cash[a]`, `pos[a][s]` | `agents.current_balance`, `positions.qty` |
| `brk[o]`, `held[s]` | the broker: the order, and what the account holds |
| `booked[o]` | history: how often the fill was written to a balance |
| `stale` | history: the agents whose balance was written from one that was no longer theirs |
| `oversold` | history: the symbols of which a fill took more from a row than it had |

| Actions | In `app.py` |
|---|---|
| `Propose`, `Gate`, `ReadClaims`, `Record` | 67-140 |
| `Submit`, `MarkFailed`, `Mark` | 142-156 |
| `HandlerCash`, `HandlerPosition` | 158-168 |
| `SyncBegin`, `SyncSkip`, `SyncRead`, `SyncFail`, `SyncAgent`, `SyncMark`, `SyncCash`, `SyncPosition` | 425-472 |
| `BrokerFill`, `BrokerCancel`, `Crash` | outside |
| `Abort` | `db.get_conn` (`db.py` 15-25): a raised call rolls back and ends the request or pass |

Abstractions: a unit of every symbol costs one unit of money, so that cash and quantities
compare; the risk checks other than sizing and the symbol claim are a free choice of
rejection; a claim does not expire (the code ignores accepted buys older than a day); the
order of the rows in a pass is free, where the code sorts by `created_at`; the two
transactions of a rejection are one, since nothing reads the row in between. `Faults` says
which outcomes an instance shows. Two of them let a request book its own fill and so become a
second writer of balances: a fill within the submit ("instant_fill"), and a reply that has a
price although only a part is filled ("part_reply"): `submit_market_order` hands on whatever
`filled_avg_price` it finds (`alpaca_client.py` 290), and `propose` books the whole order.

### ExitLedger

Adds the exit job `ex`, one step per transaction or call of `enforce_exits` and
`_reconcile_position_qty` (app.py 487-676), the owner who closes a position by hand, and the
price, of which it keeps only whether a symbol's stop is hit (`fallen`). It submits before it
records, as the code does. An outside close is credited at the unit price. `MaxCredited`
bounds those credits.

### RiskGate and TrailingStop

`RiskGate` is the order of checks in `validate_proposal` with its early return: an order
that is cut down to size is approved there and then, and the loss and day-trade checks after
it apply to sells as well. Quantities count the smallest fraction, `Lot` to a share; `Whole`
and `Nearest` are the code's `int()` and `round()`. `TrailingStop` drives it with one agent
and one symbol, an asset of any kind (coin, stock, stock in fractions; with and without the
trailing stop), and carries the row through `apply_fill_to_position`,
`update_high_water_mark` and `set_position_qty`. The fills of the day are counted without a
limit, as `account_day_trade_count` does. Orders fill at once: their interleavings are the ledgers'. The exit pass is four steps, so the price it read and the row it listed may be
stale when it sells.

### Capital

`ct` is `main()` with `bootstrap`, `rc` the reconcile pass with its locals, `inj` an
injection, `bk` a fill being booked. Each start reads the cash there is in the account
(`AccountCash`, kept in `ct.cash`), which trades and injections since the last start have
changed, and divides that. The list of agents a pass began with keeps the balances
it was read with (`rc.bal`), and keeps the agents the pass has culled, as the code's does.
Positions are one number per agent, their value at the last price; a pass adds them to the
balance of its list (`Worth`, app.py 705-709) and decides on that, whatever has been traded since.
The sign of `rolling_pnl_trend` is left open. A database call that raises outside a `try` ends
the pass wherever it is (`PassAbort`), between two top-ups too; one that raises in the spawn
loop leaves only the loop (`PoolFail`). `PassScale` is the attempt to spawn a sibling: the
transaction raises on every call (see Findings), so all that happens is that the pass goes
on. `env` is chosen at the start and says what may go wrong in that behaviour. A share of the
pool that does not divide goes to the last agent, where the code has fractions.

### AgentCycle

One step per HTTP call of `agent.py`, so that the other agents, the Controller's jobs and
restarts come in between: `Heartbeat` (app.py 287-374 with `should_think` and `calls_today`),
`Screen` (the shortlist, `_position_events` and `_worth_asking`, agent.py 284-337), `AskModel`
(142-194), `ReportUsage` (`/usage`), `Settle` (`/decision` and what a hold leaves behind) and
`Propose` (358-407): executed, turned down, no reply, or a reply that cannot be read. Two
failures matter to what is paid for: a quote the heartbeat cannot get makes a holding look
worth what was paid for it (`Reports`, app.py 309-312), and an answer cut short raises on the
field it lacks and leaves the last action as it was (`AskModel`'s "cut", agent.py 358-364).

| Variable | In the code |
|---|---|
| `agent[a]` | where `run_cycle` stands: the holding the heartbeat reported, the price that was shown, the decision |
| `context[a]` | `_last_context`: fingerprint, last action, crossings already raised |
| `row[a]` | `agents.status`, the position as the band its change lies in, the buys and sells in flight, and the sells marked filled that are not yet booked (`due`) |
| `budget` | today's rows of `api_usage` (`used`), all of them (`logged`), the calls really made (`spent`, `today`), reports that failed (`lost`) |
| `books` | `api_costs`; of the trailing week the sells marked filled and the profit booked; all the sells there were |
| `breaker` | `_cost_breaker` and the pass that sets it |
| `seen[a]` | history: what the model has been shown |

A shortlist is one candidate's price in half steps of the fingerprint, so that `_fingerprint`
rounds as the code does and a price can move without changing its bucket. A holding is
"mid", "profit" or "loss". A call costs one unit and a closed trade makes or loses one. The
regime is one Boolean, since `propose` refuses everything when its multiplier is 0. What else
`propose` checks is a free refusal. A fill goes the code's way: `Filled` marks it, which is when
`trade_counts_since` sees a sell (app.py 456), and `Booked` writes position and profit two
transactions later (app.py 469, db.py 552), unless a crash or an exception comes first. The
breaker counts, adds up and decides in three steps (`BreakerCounts`, `BreakerCosts`,
`BreakerVerdict`). `WeekPasses` lets trades and usage rows fall out of their 168 hours, while
the bills, which reach back eight calendar days (db.py 356), still count. `can_act` is not in the model: `agent.py` never reads it,
it only lengthens the sleep (app.py 112-116 says so), and sleeps have no length here.

### CommandPoll

Updates are numbered in the order sent. `confirmed` is what Telegram has forgotten: a poll
that names an offset confirms everything below it even if its answer is lost. `Handle` takes
one update of the batch, and reading the snapshot for a command may raise, which ends the
batch before the offset is saved. `PollRestart` may come anywhere.

### Screening

A symbol is reduced to the case it is for the filters (no quote, too few bars, its change,
too volatile, too thin, claimed, blocked by the dip guard); each of the three screens says
which cases it keeps and how it ranks them. `save_shortlist` is taken apart into the rows its
DELETE takes and its upserts, with Postgres's row locks and its way of ending a deadlock, since
two agents' screens meet there. A cached row holds the number of the screen that wrote it. The
shortlists of a quote are the ordered choices of its best symbols (`Top`, `Ranked`): equal
changes come in either order, since the code's stable sort keeps that of its input, which the
model leaves open.

### Replay

`Day` is one pass of the loop in `engine.Backtest.run`, as four pieces that follow its comments:
the exit on the day's bar, the regime score, the purchase through `RiskGate`, the equity.
`Score` is `score_from_closes` with the window lengths as constants. Beside the position runs
`live`, the position a live agent would have: it sees the day's high and low in either order
and trails its stop as `compute_stop` does, without the profit lock, which the backtester does
not have. Prices are whole, money counts hundredths; where the float of a cost decides whether
`validate_proposal` returns early or goes on to the loss check, either may happen.

## Runs

| Run | Instance | Shows |
|---|---|---|
| `order_calm` | two agents, two symbols, four orders (two sells, one perhaps of nothing), two threads; fills in the reply or later, replies that price a part, cancels with a part filled, failing submits, unreadable orders | balances and positions end at what the broker did, but for the named exceptions; one buy in flight; every fill is booked in the end |
| `order_faults` | one agent, three orders, two threads, every fault | a booked fill is real, booked once; the ledger is written ahead; `IInv` |
| `exit_live` | one agent holding two, a sell of both, two exits, an owner, a price | a stop that stays hit sells; a closed position is cleared |
| `exit_faults` | one agent holding two, a sell of one, one exit, crashes, failing database calls, lost replies, partial fills, replies that price a part, an unreadable account | the contract holds with the exits' orders too |
| `capital` | three names, two seeded agents, one injection, two trades, prices 1 and 6, two revaluations, one crash | no money made or lost in calm behaviours; pods match rows; a start seeds no more than the cash it read, once |
| `trailing` | prices 6, 7, 10, stops of 10 and 30 per cent, three regimes, two orders, one drift | solvency; stops only rise; exits only off the peak; a stop is taken; no price releases the profit lock |
| `cycle` | two agents, a budget of two, prices 0 to 2, four scenes | calls over budget are bounded; calls are for a reason; crossings are heard; the breaker trips for cause and comes back |
| `jobs` | three updates and two faults; two agents, two stocks, a coin, three screens; two symbols over four days | offsets keep their promise and commands are answered; shortlists are of repeated finds and the cache is the last list; the replay's stop, its money and its log, its drawdown and the score |
| `claims`, `race`, `cull`, `sibling` | small | the findings |

Bounds, and why they are enough. The hazards of the order ledger are between two requests,
or a request and the sync pass, over one agent's balance or one symbol: two agents, two
threads and four orders contain every pair, and each order may take every end the broker
has. A buy of three lets a part fill, lets a reply price that part, and lets a proposal be cut
to size (`Divisor = 2`); an agent that may sell a symbol before or after it has bought it, next
to another that holds it, gives the sell of more than a row has. In `ExitLedger` a position of two lets a sell leave something, which is
where rows and broker differ; two exits let one fail and another follow. In `Capital` three
names are two seeded agents and one to spawn; two trades are a buy and a sell, two
revaluations make an agent poor and another rich (or one poor and rich again), and one crash, or
one pass cut short, may come anywhere, seeding included; an injection before it lets a restart
find another account than the first start did.
In `TrailingStop` three prices give a rise, a small fall and a fall through the stop; two
orders give averaging, a partial sell, or a second position in the symbol. In `AgentCycle` the
scenes split the questions. An event is a move of the market or of a holding, a lost quote, an
exit, an order that fails, a bill, a failed call, a restart, a cull, a new day or week. One agent on
paper with a holding already past its target, two calls and two events: a crossing, a lost quote
or a failed call, and the crossing raised again. Two agents, four calls over a budget of two, no
event: they meet between the heartbeat and the report. One agent on a live account with a holding,
two calls and one event: a sell that is marked, counted by the breaker and booked afterwards, or
never. One without, one call and two events: a trip, a restart and the trip after it. Three prices are two that share a bucket and one that does not. In `CommandPoll` three
updates are one discarded, one answered and one behind it, and two faults are a crash and a
failure around it. In `Screening` three passes over a window of two let a find leave it, and
three screens let one overtake two. The bars of `Replay` are a rise, a fall within the day, a
fall through the stop and a day that opens below it; four days let a position be opened, trail,
close and be opened again, with windows of two and three closes so that averages and slopes
are defined for some days and not for others.

`cycle` checks for deadlock too: the agents' heartbeat never stops. In the other runs no
deadlock is looked for: they bound what the outside does, and stop when that is used up and
the jobs have nothing to do.

### Fairness

`sync_orders`, `enforce_exits` and `reconcile` are interval jobs, so each runs again and again
(weak fairness of its steps). A request, once begun, runs to its end, and the broker ends every
order (weak fairness). Strong fairness is asked for in three places: an order that can be read
time and again is read in the end (`SyncRead`), a price that can be had time and again is had
(`ExitStop`), and a broker that time and again could take an order takes it (`ExitTaken`). Without
these a network that fails at the right moments for ever would keep any poll from succeeding.
`agent.py` loops for ever and catches whatever a cycle raises, so each agent's own steps are
weakly fair; so are the breaker's, which end every reconcile pass, and the command poll's, which
the scheduler starts every 25 seconds. Nothing makes an agent, the owner or the market act, and
nothing is fair about crashes.

## What is proved

Every safety property the passing runs check, invariant or action property, is stated by a
theorem for every value of the constants: any number of agents, symbols, orders, threads,
updates or days, any prices and amounts, any bounds on faults. The hypotheses are the
assumptions stated with the constants of each module and those named below. Each theorem rests
on an inductive invariant, since few of the properties are inductive by themselves.

### The ledgers

`OrderLedgerProofs`:

| Theorem | Property | Hypotheses |
|---|---|---|
| `TypeCorrect` | `TypeOK` | |
| `LedgerIsWrittenAhead` | `WrittenAhead` | |
| `OnePodInvariant`, `FillsAreReal`, `FillsAreBookedOnce` | `IInv`, `BookedIsReal` | `OnePod` |
| `LedgerImplementsFillBook` | `ImplementsFillBook` | `OnePod` |
| `OneBuyAtATime` | `OneBuyInFlight` | `OnePod`, `NoLoss`, no late reply |
| `BalancesAreTheBrokers` | `CashMatchesBroker` | `OnePod`, `NoLoss`, finitely many orders |
| `PositionsAreTheBrokers` | `PositionsMatchBroker` | the same, and finitely many agents |

- Types: the induction hypothesis adds that a thread or a pass past its first step has an
  order in hand (`HandlerOK`, `SyncOK`). `WrittenAhead` rests on `Ahead`: a thread that submits
  has recorded its row, and no row goes back to "none".
- `BookedIsReal` is not inductive: the step that books reads the pass's own program point, not
  the broker. `IInv` says what each program point has made of its order's row (`HandlerInv`,
  `SyncInv`), that a row 'filled' has a fill behind it (`RowInv`), that every row a pass still
  has to do is pending unless it is the one being booked, and that no order is in two hands
  (`Exclusive`). Its one gap is two passes at once: both may have read the same row as filled,
  and each books it. Hence `OnePod`, which the deployment provides: `replicas: 1`
  "deliberately one - it's the single writer" (`k8s/05-controller-deployment.yaml:19`). A
  rolling update may break it for as long as two pods overlap.
- `NoLoss`: no crash, no lost reply and no failing database call. Then an order the broker works
  on or has filled is listed by `pending_orders` or in the hand of the thread that will mark it
  (`Followed`). `BuyInv` adds that an agent waits for its request (`OneRequest`), so the check for
  pending buys sees every earlier buy, and two of them never overlap (`OneBuy`). A reply that
  comes late breaks `OneRequest`: the agent has given up and asks again.
- The two sums hold however the orders fill: in full, in the reply, in part before a cancel, or in
  part behind a reply that is taken for a fill. `PaidInv` says of each agent that is not `stale`
  that its balance is the start cash plus the sum of what is booked for its orders (`Settled`,
  each booked at the size the row has, `Sized`). A request that may book its own fill holds the
  balance it read at its top (app.py 71) until it writes it (158), and what the sync wrote in
  between is gone: that write makes the agent `stale`, and from then on nothing is claimed of it.
  Where no request can (`~OwnFills`), the invariant also says that only the pass pays
  (`NoPayer`), that the balance it has read is still the one in the table (`Fresh`), and so that no
  agent is ever stale: the claim is then about all of them.
- `HeldInv` says of each symbol that is not `oversold` that the broker holds what the rows say and
  what is in transit (`Held`): filled and not yet applied, or applied as filled and not filled.
  At rest that is what the property calls `Missed`. `apply_fill_to_position` deletes a row
  that is asked for more than it has, and neither `propose` nor `validate_proposal` looks at the
  position of a sell (`risk.py:38`), so a symbol of which that happened is left out.

`ExitLedgerProofs` carries this over to the composition, of which `OrderLedger`'s steps and the
exit job's are the disjuncts. `ExitTypeCorrect` (`ExitTypeOK`) holds with any number of pods;
with `OnePod`, `ExitInvariant` (`XInv`) adds to `IInv` that the exit job is a third hand an
order may be in and what each of its points has made of the row (`ExitInv`): it submits before
it records, so an order of its own may be filled at the broker without a row, and only while
the job holds it. `ExitFillsAreReal` and `ExitsRefineFillBook` (`ExitsImplementFillBook`)
follow. With `NoLoss`, `NothingIsForgotten` (`NoExitForgotten`): an order the broker has is
followed, or is the exit that the pass is about to write down.

### Stops and the risk gate

`TrailingStopProofs`: `TypesHold` (`StopTypeOK`), `StopsNeverFall` (`StopNeverFalls`), `LocksHold`
(`LockOutlivesPrices`) and `ExitsAreOffThePeak` (`ExitsOffThePeak`) for every price path, and
`StaysSolvent` (`Solvent`) when `MaxPositionPct` is at most 50. `StopsNeverFall` is about every step
in which a position is kept or reduced, but for two that it names: the one that releases the
profit lock, and the one that engages it in place of a tighter stop of the position's own. `StopInv` says that the entry, an
average rounded at every purchase, and the mark lie below the highest price the position was seen
at (`BelowPeak`), that a row that is gone leaves nothing for the next position to start from
(`Cleared`), and that what an exit pass has listed is still the position it listed, or has been
sold (`Listed`). Above half a balance solvency fails: a resized order that may be fractional is
rounded to the nearest fraction, not down, and with a limit of everything a balance of 3 at a
price of 2 buys two of the smallest fraction for 4. The repository's limit is a quarter
(`controller/tier_config.py:25`, `k8s/02-configmap-tiers.yaml:20`).

### Capital

`CapitalProofs`: `CapitalTypeCorrect` (`CapitalTypeOK`, and no balance, pool or account below
zero), `CashIsSeededOnce` (`SeededOnce`), `PodsFollowRows` (`PodsMatchRows`),
`LedgerIsTheAccount` (`CalmBalanced`).

- `SeedInv`: while the pod seeds, what is out is at most a share for each agent served, a share
  being of the cash this start has read, and only active rows exist, so a restart that finds one
  skips.
- `ShapeInv`: what a pass still has to do is among what it listed, and only agents hold.
- `CalmInv`: when nothing overlaps, the balances a pass has read are those of the rows it still
  goes through; `BalInv` needs it.
- `PodInv`: deployments are those of the active rows, but for the one being spawned or deleted.
- `BalInv`: while nothing overlaps and nobody is culled, at every point of every handler the
  rows, the pool, the positions and what the handler has in hand add up to the account. It is a
  sum over the agents, and so rests on `SumProofs`.

`LedgerIsTheAccount` assumes `Divides`, that the start cash is shared out to the last unit (the
code's `per_pod` is a fraction, app.py 863, so there nothing is left over), and `Suffices`, that
it is enough for every agent: otherwise `bootstrap` seeds nobody and the ledger stays empty
beside an account that is not.

### The agents' loop

`AgentCycleProofs`: `CycleTypeCorrect` (`CycleTypeOK`), `DailyBudgetHolds` (`BudgetBound`),
`ModelIsAskedForAReason` (`AsksForAReason`), `BreakerTripsForCause` (`TripsForCause`).

- The budget's bound speaks of calls made, while the heartbeat reads calls reported, so it is
  not inductive. `BudgetInv` counts the agents in between: each one the heartbeat has let
  through and whose call is not yet reported (`Admitted`) has a unit reserved, and those that
  have made their call (`Owing`) make up the difference between made and reported, but for the
  reports that were lost.
- `CostInv` adds that no bill and no sum the pass has read exceeds what was really spent, and that
  no count of sells, in the week or read by the pass, exceeds the sells there ever were
  (`Behind`). The profit the verdict reads is the profit booked at that moment, which is what the
  property speaks of: the sells counted before may not be in it yet.
- `ReasonInv` relates what the model has really been shown to what `_last_context` remembers
  (`Sound`): a band the holding is in was shown or is remembered, or has been made to look new by
  a lost quote; the fingerprint is that of the price last shown; and an action other than a hold
  is remembered only with news of it, which an answer cut short does not use up.

### Jobs

`JobsProofs`, about the poll: `PollInvariant`, `OffsetKeepsPromise` (`SavedWasHandled`),
`AnsweredOncePerRun` (`OncePerRun`). The batch is a run of updates that ends at the offset in
memory, so `Edge`, the offset less what is left of the batch, separates the updates that are
done from those this pod has not looked at.

About the screening: `CacheIsTheLastScreen` (`CacheOfLastScreen`) and `ShortlistsArePersistent`
(`NoBlip`). `ScreenInv` says of each transaction that what it writes carries its number or is a deletion
(`Signed`), and that one no other has run beside has in hand every row there is, to delete, to
write or written (`Covers`). `BlipInv` says that a stock in the cache or in a
transaction's hand was found by enough passes, and that a pass that found it is counted once,
whatever number of its rows name it (`Passes`).

### The backtester and the score

`ReplayProofs`: `ReplayExitsNoLater` (`NeverLater`), `ReplayLogTellsTheMoney` (`LogTellsTheMoney`),
`ReportedDrawdownIsWorst` (`DrawdownIsWorst`), `ScoreEasesWithPrice` (`ScoreFollowsPrice`).

- `ReplayInv` says that while a position is open the replay's peak is at or above the live
  agent's, and the live stop has not fired (`Holding`).
- `LogInv` says that the money in hand, with what the open position cost, is the money put in and
  the profits logged so far, through every purchase and every sale at its trigger.
- The drawdown is a running fold. `Tells` says what the fold holds after n points, the peak
  among them and the worst fall between two of them. A fall is a share of its peak, so this
  needs a curve that never goes below zero (`MoneyInv`), and so the limit of half a balance
  again.
- Each of the score's four parts eases, that is does not fall, with a higher last close (`Eased`),
  the slopes and the rounding included, so their sum does.

### Sums

`SumProofs` proves what the others need of sums over a finite set: that the fold of the
community modules adds one element at a time, whatever the order it takes them in (`FoldStep`),
and what follows for a change of one entry (`TotalChange`), a sum of sums (`TotalPlus`), or
entries that are zero. The library's induction theorems have an operator as parameter and cannot
be used here; `Induction`, for sets of numbers in their place, is proved from the pigeonhole
principle of `FiniteSetTheorems`. A set stands for the formula: the one of all n at which it
holds.

### Only model-checked

Liveness: `EveryFillBooked`, `StopFires`, `ClosedOutsideIsCleared`, `StopIsTaken`,
`EscalationIsHeard`, `BreakerComesBack`, `CommandsAnswered`. Each rests on fairness, that is on
`ENABLED`, which the prover does not expand. What the proofs assume and the runs do not need, or
the other way round, is listed above: `order_faults` and `exit_faults` check under every fault
what the theorems state with one pod.


## Findings

Each is a run that TLC ends with a counterexample; `PROJECT.json` quotes the line it is at
odds with.

- `claims`: two requests for one symbol both read the claims before either has recorded its
  own.
- `race`: the exit job trues a row down to the broker's quantity before the sync has booked
  the sell that explains it; the sync subtracts it again, the row is deleted, and what the
  broker still holds has no stop.
- `cull`: only cash returns to the pool. The positions stay with the culled agent, and their
  proceeds go to a row no total counts.
- `sibling`: `Decimal - float` raises in `spawn_sibling_transaction`, so no agent ever gets a
  sibling.

What else was met while modelling, and is in the models as the code has it:

- `propose` reads the balance (app.py 71) before it counts pending buys (92): a fill booked in
  between passes the check, and the buy is sized on the balance of before, against the
  comment at 89. `OneBuyInFlight` holds all the same.
  It also writes that balance back when the fill comes with the reply (158), over whatever the
  sync has booked since; and a pass that read before it undoes it in turn. In `order_calm` one of two
  fills of an agent is then missing from its balance.
- A reply with a `filled_avg_price` is taken for a full fill (`alpaca_client.py` 290): of an order
  that is only part filled, `propose` books the whole (app.py 151-168), and since the row is then
  'filled' no pass looks at it again.
- The profit lock is recomputed from the quantity and the entry (app.py 564-568), so a partial
  sell releases it, and so does a purchase above the average, where `README.md:103` says "for the
  rest of its life". Prices do not (`LockOutlivesPrices`). Once engaged it replaces the
  position's own stop even where that is the tighter one (568-570): the "much tighter trailing
  distance" is then a wider one, and the stop falls.
- A crossing is remembered before the model is asked (agent.py 300). If the call then fails,
  the crossing is not raised again until the holding has gone back inside the band. A heartbeat
  that cannot get a quote reports the holding as worth what was paid for it (app.py 309-312); the
  agent forgets the crossing (agent.py 302-305) and pays for the same answer once more.
- An answer cut short is paid for and then raises on the field it lacks (agent.py 358-364), which
  leaves the last action as it was: after a trade the model is asked again at once.
- The breaker counts a sell from the moment its row is marked (app.py 456) and sees its profit only
  two transactions later (469): in between a profitable trade may trip it for a pass. Bills
  count from seven calendar days back (db.py 356), profit from 168 hours.
- `bootstrap` divides the cash the account has at that start (app.py 851-863). If a first start
  cannot read the account, money injected meanwhile is in the pool, and a restart hands it
  out to the seeded agents as well while the pool keeps it.
- A pass that began before a position was sold adds the old balance to the new, empty holding
  (app.py 685, 705-709) and may cull the agent, returning the old balance: the proceeds are lost.
- A pass that raises between its top-ups and `set_pool_balance` (app.py 775-782) leaves the pool
  as it was, and the next pass hands it out again.
- A regime without exposure refuses sells as well as buys (app.py 102-110); `can_act` stops
  nothing, and `heartbeat`'s comment that a stale reading yields 1.0 is true of a missing one
  only: `latest_regime` looks at no date.
- `actual_cost_since` takes the bills alone once there are any, so days not yet billed count
  nothing. A restart leaves the breaker off for one interval, as the comment at app.py 57 accepts.
- An empty discovery pass leaves no batch, so "the last three" may reach back over failed
  ones. `screen_universe` ranks a change of exactly 0 like an unknown one (`or -999`). Stock and
  coin agents overwrite each other's cached list, and an empty pool leaves the old one.
- `save_shortlist`'s upserts run in the order of the ranking, so two screens can deadlock, and
  one is answered with the 502 that its comment (db.py 714-716) means to avoid.
- The backtester takes a day's high before its low, fills at the trigger on a day that opened
  below it, values a position without a bar at nothing, and has no profit lock.

Properties are stated where they hold. `CashMatchesBroker`, `PositionsMatchBroker` and
`EveryFillBooked` are claimed without crashes and lost replies, because the code marks a row before
it books it. The first excepts agents whose balance was overwritten from a stale one, where
requests book their own fills; the second names what the ledger misses of an order that was
cut short or booked whole, and excepts symbols of which more was sold than a row had.
`CalmBalanced` is claimed without overlap, because `reconcile` works on the list it began with;
nothing is claimed of who is culled, because the stale list culls agents that are not poor.
`SeededOnce` is about the cash a start reads, not about all the cash there ever was.
`AsksForAReason` counts a crossing again after a lost quote; `TripsForCause` compares with the
profit booked, not with the profit made; `StopFires` is for an agent that sells all or nothing,
because of `race`; `StopNeverFalls` leaves purchases aside, because the mark is only taken by
exit passes and averaging down lowers the entry, and for coins what releases the profit lock and
where the lock is the looser stop; `LockOutlivesPrices` leaves aside every change of the quantity;
`StopIsTaken` leaves less than one share of a stock aside, because `int(qty)` of it is 0. `EscalationIsHeard` excepts a
crossing whose call failed and one the agent was told not to think about; `BudgetBound` adds
the lost reports; `CacheOfLastScreen` claims that nothing else is cached only for a screen that
was saved alone; `CommandsAnswered` speaks of commands sent once an offset was saved, since the
first poll of all discards what is pending.

## Not modelled

The dashboard reads and renders. Telegram's notifications, the daily summary, the exchange rate
and the discovery debug page are output. Deployment, wipe and baseline scripts are operated by
hand; the command lines of the backtester and its file cache are I/O. Equity snapshots are
written and never acted on. `take_profit_pct`, which leaks from a coin to the stocks after it in
a pass (app.py 614), needs a pass over two symbols. Sleeps have no length. Prices in the
ledgers, and the rounding of `NUMERIC` columns (a row may differ from its order by 0.00005), are
abstracted as said above. A listing of tradable coins that failed once is cached until restart
(`major_coins._TRADABLE_CACHE`); the universe is a constant here.

## Plan

Done: `FillBook`, `OrderLedger`, `ExitLedger`, `RiskGate`, `TrailingStop`, `Capital`,
`AgentCycle`, `CommandPoll`, `Screening`, `Replay`, and a theorem for every safety property of
the passing runs. Left, in this order:

1. Proofs: `FillBook`'s own consequences, stated once at the abstract level.
2. An exit pass over two asset classes, for `take_profit_pct`.
3. `AgentCycle` composed with `OrderLedger`, so that a proposal that has timed out is the
   request still running there.
