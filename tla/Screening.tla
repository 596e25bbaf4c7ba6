----------------------------- MODULE Screening -----------------------------
(***************************************************************************)
(* The shortlists the agents are shown.  run_discovery_scan records what   *)
(* each pass over the market found; GET /screen turns those records, or a  *)
(* fixed universe, into a ranked list, drops what the agent could not buy  *)
(* anyway and saves the list in shortlist_cache for the dashboard.         *)
(*                                                                         *)
(* Several agents screen at once.  save_shortlist is one transaction of a  *)
(* DELETE and an upsert for each symbol, and its row locks are modelled: a *)
(* row another transaction has written is waited for, a DELETE looks for   *)
(* rows once, when it starts, and the database ends a deadlock by failing  *)
(* one of the two.                                                         *)
(*                                                                         *)
(* What the market says of a symbol is reduced to the case it is for the   *)
(* filters:                                                                *)
(*   "absent"   no quote or no bars          "short"  one bar, so no change*)
(*   "down", "flat", "up"  its change        "wild"   up too far or choppy *)
(*   "thin"     too little volume            "taken"  claimed by another   *)
(*   "hot"      the dip-buy guard blocks it: ran up, or near its high      *)
(***************************************************************************)
EXTENDS Integers, Sequences, FiniteSetsExt, SequencesExt

CONSTANTS
  Agents,           \* the agents that screen
  Stocks, Coins,    \* the symbols
  Findings,         \* <<symbol, source>>: the rows a discovery pass may record
  Lookback,         \* persistence_lookback
  MinAppearances,   \* persistence_min_appearances
  TopN,             \* screen_top_n
  Scenes            \* universe_mode, and the bounds on the discovery passes and
                    \* the screens of a behaviour

ASSUME ScreeningAssumption ==
  /\ IsFiniteSet(Stocks) /\ IsFiniteSet(Coins)
  /\ Stocks \intersect Coins = {}
  /\ Findings \subseteq Stocks \X STRING
  /\ {Lookback, MinAppearances, TopN} \subseteq Nat \ {0}
  /\ Scenes \subseteq [universe : {"safe", "market"}, scans : Nat, screens : Nat]

VARIABLES
  universe,  \* universe_mode: do the stocks come from the scans?
  scans,     \* market_scans, a set of rows for each batch, oldest first
  cache,     \* shortlist_cache: the screen that wrote each symbol's row
  screen,    \* per agent: its GET /screen, and what its transaction has written
  left,      \* the passes and the screens that the bounds leave
  screens,   \* history: the screens so far
  found,     \* history: the passes that found each symbol
  shown      \* history: the last screen that was committed

screenVars == <<universe, scans, cache, screen, left, screens, found, shown>>

Symbols == Stocks \union Coins
Cases == {"absent", "short", "down", "flat", "up", "wild", "thin", "taken", "hot"}
Absent == 0                     \* no row in shortlist_cache
Gone == -1                      \* a row the transaction has deleted
NoWrites == [s \in {} |-> Absent]
NoScreen == [pc |-> "idle", n |-> 0, list |-> <<>>, doomed |-> {}, wrote |-> NoWrites,
         alone |-> TRUE]

-----------------------------------------------------------------------------
(* A discovery pass makes two requests, each of which may fail or find     *)
(* nothing.  What it found goes in as one batch, and nothing as none.      *)
DiscoverCandidates == SUBSET Findings

Recorded(rows) == IF rows = {} THEN scans ELSE Append(scans, rows)

DiscoveryScan ==
  /\ universe = "market" /\ left.scans > 0
  /\ left' = [left EXCEPT !.scans = @ - 1]
  /\ \E rows \in DiscoverCandidates :
       /\ scans' = Recorded(rows)
       /\ found' = [s \in Symbols |->
                      IF \E r \in rows : r[1] = s THEN found[s] + 1 ELSE found[s]]
  /\ UNCHANGED <<universe, cache, screen, screens, shown>>

RecentBatches == Max({1, Len(scans) - Lookback + 1}) .. Len(scans)

\* Mutant of Appearances: COUNT without DISTINCT counts rows.
AppearancesRows(s) ==
  Cardinality({p \in RecentBatches \X Findings : p[2] \in scans[p[1]] /\ p[2][1] = s})

Appearances(s) ==
  Cardinality({b \in RecentBatches : \E r \in scans[b] : r[1] = s})

PersistentCandidates == {s \in Stocks : Appearances(s) >= MinAppearances}

-----------------------------------------------------------------------------
(* The three screens keep different cases ...                              *)
MarketKeeps == {"short", "down", "flat", "up", "taken", "hot"}
SafeKeeps == {"up", "thin", "taken", "hot"}
CoinsKeep == {"down", "flat", "up", "wild", "thin", "taken", "hot"}

KeptBy(mode) ==
  CASE mode = "market" -> MarketKeeps
    [] mode = "safe" -> SafeKeeps
    [] mode = "coins" -> CoinsKeep

(* ... and rank them by their change, best first.  screen_universe counts  *)
(* a change of nothing, like an unknown one, as the worst there can be.    *)
Key(mode, case) ==
  CASE case \in {"up", "taken", "hot", "thin"} -> 1
    [] case = "wild" -> 2
    [] case = "down" -> -1
    [] case = "short" -> -999
    [] case = "flat" -> IF mode = "market" THEN -999 ELSE 0

Ranked(mode, quote, symbols) ==
  {list \in SetToSeqs(symbols) :
     \A i, j \in DOMAIN list :
        i < j => Key(mode, quote[list[i]]) >= Key(mode, quote[list[j]])}

Top(mode, quote) ==
  LET kept == {s \in DOMAIN quote : quote[s] \in KeptBy(mode)} IN
  {top \in SUBSET kept :
     /\ Cardinality(top) = Min({TopN, Cardinality(kept)})
     /\ \A s \in top, r \in kept \ top : Key(mode, quote[s]) >= Key(mode, quote[r])}

(* What the agent could not buy is dropped after the top was taken: what   *)
(* another agent claims, and the coins the dip-buy guard would refuse.     *)
Buyable(mode, case) == case # "taken" /\ (mode = "coins" => case # "hot")

Shortlists(mode, quote) ==
  UNION {Ranked(mode, quote, {s \in top : Buyable(mode, quote[s])}) :
           top \in Top(mode, quote)}

Pool(mode) ==
  CASE mode = "market" -> PersistentCandidates
    [] mode = "safe" -> Stocks
    [] mode = "coins" -> Coins

\* the quotes and bars of every symbol of the pool
Quotes(mode) == [Pool(mode) -> Cases]

Saving(a) == screen[a].pc # "idle"
With(wrote, s, row) == [r \in DOMAIN wrote \union {s} |-> IF r = s THEN row ELSE wrote[r]]
Locked(s, a) == \E b \in Agents \ {a} : s \in DOMAIN screen[b].wrote

(* GET /screen up to the DELETE, which looks for the rows to delete now.   *)
(* An empty pool of candidates is answered without saving anything.        *)
Screen(a) ==
  /\ ~Saving(a)
  /\ left.screens > 0
  /\ left' = [left EXCEPT !.screens = @ - 1]
  /\ screens' = screens + 1
  /\ \E mode \in {universe, "coins"} :
       \/ mode = "market" /\ Pool(mode) = {} /\ UNCHANGED screen
       \/ /\ mode = "market" => Pool(mode) # {}
          /\ \E quote \in Quotes(mode) : \E list \in Shortlists(mode, quote) :
               screen' = [b \in Agents |->
                 IF b = a
                   THEN [pc |-> "delete", n |-> screens', list |-> list,
                         doomed |-> {s \in Symbols : cache[s] # Absent} \ Range(list),
                         wrote |-> NoWrites, alone |-> \A c \in Agents : ~Saving(c)]
                   ELSE [screen[b] EXCEPT !.alone = ~Saving(b)]]
  /\ UNCHANGED <<universe, scans, cache, found, shown>>

(* The DELETE takes a row that no other transaction has written.           *)
DeleteRow(a) ==
  /\ screen[a].pc = "delete"
  /\ \E s \in screen[a].doomed :
       /\ ~Locked(s, a)
       /\ screen' = [screen EXCEPT
            ![a].doomed = @ \ {s},
            ![a].wrote = With(@, s, Gone)]
  /\ UNCHANGED <<universe, scans, cache, left, screens, found, shown>>

DeleteDone(a) ==
  /\ screen[a].pc = "delete" /\ screen[a].doomed = {}
  /\ screen' = [screen EXCEPT ![a].pc = "upsert"]
  /\ UNCHANGED <<universe, scans, cache, left, screens, found, shown>>

NextSymbol(a) == Head(screen[a].list)

\* Mutant of Written: ON CONFLICT DO NOTHING.
WrittenIfNew(a) == IF cache[NextSymbol(a)] = Absent THEN screen[a].n ELSE cache[NextSymbol(a)]

Written(a) == screen[a].n

Upsert(a) ==
  /\ screen[a].pc = "upsert" /\ screen[a].list # <<>>
  /\ ~Locked(NextSymbol(a), a)
  /\ screen' = [screen EXCEPT ![a].list = Tail(@),
                              ![a].wrote = With(@, NextSymbol(a), Written(a))]
  /\ UNCHANGED <<universe, scans, cache, left, screens, found, shown>>

Listed(a) == {s \in DOMAIN screen[a].wrote : screen[a].wrote[s] # Gone}

(* A row deleted here is passed over by the DELETEs under way.              *)
Commit(a) ==
  /\ screen[a].pc = "upsert" /\ screen[a].list = <<>>
  /\ cache' = [s \in Symbols |->
                 IF s \notin DOMAIN screen[a].wrote THEN cache[s]
                 ELSE IF screen[a].wrote[s] = Gone THEN Absent ELSE screen[a].wrote[s]]
  /\ shown' = [n |-> screen[a].n, list |-> Listed(a), alone |-> screen[a].alone]
  /\ screen' = [b \in Agents |->
       IF b = a THEN NoScreen
       ELSE [screen[b] EXCEPT !.doomed = {s \in @ : cache'[s] # Absent}]]
  /\ UNCHANGED <<universe, scans, left, screens, found>>

(* The rows a transaction is waiting for.                                  *)
Wanted(a) ==
  CASE screen[a].pc = "delete" -> screen[a].doomed
    [] screen[a].pc = "upsert" /\ screen[a].list # <<>> -> {NextSymbol(a)}
    [] OTHER -> {}

Waits(a) == Wanted(a) # {} /\ \A s \in Wanted(a) : Locked(s, a)

(* Postgres ends a deadlock: the request is answered 502.                  *)
DeadlockDetected(a) ==
  /\ Saving(a) /\ \A b \in Agents : Saving(b) => Waits(b)
  /\ screen' = [screen EXCEPT ![a] = NoScreen]
  /\ UNCHANGED <<universe, scans, cache, left, screens, found, shown>>

ScreenStep(a) == DeleteRow(a) \/ DeleteDone(a) \/ Upsert(a) \/ Commit(a)

ScreenInit ==
  /\ \E scene \in Scenes : /\ universe = scene.universe
                          /\ left = [scans |-> scene.scans, screens |-> scene.screens]
  /\ scans = <<>>
  /\ cache = [s \in Symbols |-> Absent]
  /\ screen = [a \in Agents |-> NoScreen]
  /\ screens = 0
  /\ found = [s \in Symbols |-> 0]
  /\ shown = [n |-> 0, list |-> {}, alone |-> FALSE]

ScreenNext ==
  \/ DiscoveryScan
  \/ \E a \in Agents : Screen(a) \/ ScreenStep(a) \/ DeadlockDetected(a)

ScreenSpec == ScreenInit /\ [][ScreenNext]_screenVars

-----------------------------------------------------------------------------
(* The noise filter of db.persistent_candidates: a stock that reaches a    *)
(* shortlist in market mode was found by several passes, not by several    *)
(* requests of one.                                                        *)
NoBlip ==
  universe = "market" =>
    \A s \in Stocks :
      (cache[s] # Absent \/ \E a \in Agents : s \in Range(screen[a].list) \union Listed(a))
        => found[s] >= MinAppearances

(* The dashboard shows the list of the screen that was saved last, whole   *)
(* and with its figures, however the screens' transactions interleaved,    *)
(* and nothing but that list if no other screen was being saved while that *)
(* one was.                                                                *)
CacheOfLastScreen ==
  /\ \A s \in shown.list : cache[s] = shown.n
  /\ shown.alone => {s \in Symbols : cache[s] # Absent} = shown.list
=============================================================================
