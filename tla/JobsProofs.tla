----------------------------- MODULE JobsProofs -----------------------------
(***************************************************************************)
(* What holds of the controller's two side jobs for any number of updates, *)
(* faults, agents, symbols and passes.                                     *)
(*                                                                         *)
(* The command poll: the saved offset promises nothing that was not done,  *)
(* and no command is answered twice in one run of the controller.  Both    *)
(* follow from where the poll stands.  Its batch is the run of updates that*)
(* ends at the offset in memory, so Edge, the offset less what is left of  *)
(* the batch, separates the updates of this run that are done from those   *)
(* that no pod has looked at since it started.                             *)
(*                                                                         *)
(* The shortlists: what the cache holds once a pass is saved is that pass, *)
(* and a symbol is never shortlisted on the strength of one appearance.    *)
(***************************************************************************)
EXTENDS CommandPoll, Screening, FiniteSetTheorems, TLAPS

PollTypeOK ==
  /\ sent \in Seq(BOOLEAN) /\ Len(sent) <= MaxUpdates
  /\ confirmed \in 0 .. Len(sent)
  /\ last \in NoOffset .. Len(sent)
  /\ saved \in NoOffset .. Len(sent)
  /\ job \in [pc : {"idle", "handle"}, todo : Seq(Updates)]
  /\ faults \in Nat /\ crashes \in Nat
  /\ replies \in [Updates -> Nat]

Edge == last - Len(job.todo)

BatchOK ==
  /\ job.pc = "idle" => job.todo = <<>>
  /\ \A i \in 1 .. Len(job.todo) : job.todo[i] = Edge + i

Done(u) == replies[u] > 0 \/ u \in drained \union dropped

DoneInv ==
  \A u \in Updates : IsCommand(u) =>
    /\ u <= saved => Done(u)
    /\ u <= confirmed => Done(u)
    /\ u <= Edge => Done(u)

RepliesInv ==
  \A u \in Updates : /\ replies[u] <= 1 + crashes
                     /\ u > Edge => replies[u] <= crashes

PollInv == PollTypeOK /\ BatchOK /\ DoneInv /\ RepliesInv

LEMMA PollInvInit == PollInit => PollInv
BY PollAssumption
   DEF PollInit, PollInv, PollTypeOK, BatchOK, DoneInv, RepliesInv, Edge, NoBatch,
       NoOffset, Updates, IsCommand

LEMMA SendKeeps == PollInv /\ Send => PollInv'
<1> SUFFICES ASSUME PollInv, Send PROVE PollInv' OBVIOUS
<1>1. PICK command \in BOOLEAN : sent' = Append(sent, command)
  BY DEF Send
<1>2. Len(sent') = Len(sent) + 1 /\ sent' \in Seq(BOOLEAN) /\ Len(sent') <= MaxUpdates
  BY <1>1, PollAssumption DEF Send, PollInv, PollTypeOK
<1>3. \A u \in Updates : u <= Len(sent) => (IsCommand(u)' <=> IsCommand(u))
  BY <1>1, <1>2 DEF IsCommand, PollInv, PollTypeOK, Updates
<1>4. PollTypeOK'
  BY <1>2 DEF PollInv, PollTypeOK, Send, NoOffset, Updates
<1>5. BatchOK' /\ RepliesInv'
  BY DEF PollInv, BatchOK, RepliesInv, Send, Edge
<1>6. DoneInv'
  BY <1>3 DEF PollInv, PollTypeOK, DoneInv, Send, Edge, Done, Updates, NoOffset
<1> QED BY <1>4, <1>5, <1>6 DEF PollInv

LEMMA PollKeeps == PollInv /\ Poll => PollInv'
<1> SUFFICES ASSUME PollInv, Poll PROVE PollInv' OBVIOUS
<1> USE DEF PollInv, PollTypeOK, BatchOK, NoOffset
<1>1. job.todo = <<>> /\ Edge = last
  BY DEF Poll, Edge
<1>2. Confirmed \in 0 .. Len(sent) /\ last <= Confirmed /\ confirmed <= Confirmed
  BY DEF Confirmed
<1>3. \A u \in Updates : IsCommand(u) /\ u <= Confirmed => Done(u)
  BY <1>1 DEF DoneInv, Confirmed, Updates
<1>4. CASE /\ PollFine /\ last = NoOffset
           /\ confirmed' = Confirmed /\ last' = Advanced
           /\ job' = [pc |-> "handle", todo |-> <<>>]
           /\ drained' = drained \union Pending
  <2>1. last' \in NoOffset .. Len(sent) /\ last' <= Len(sent) /\ Edge' = last'
    BY <1>2, <1>4 DEF Advanced, Pending, Edge
  <2>2. \A u \in Updates : u \in 1 .. Len(sent) /\ u > Confirmed => u \in Pending
    BY <1>2 DEF Pending, Updates
  <2>3. DoneInv'
    BY <1>2, <1>3, <1>4, <2>2, <2>1 DEF DoneInv, Done, Poll, IsCommand, Updates
  <2>4. RepliesInv'
    BY <1>1, <1>2, <1>4, <2>1 DEF RepliesInv, Poll, Advanced, Pending, Updates
  <2>5. PollTypeOK' /\ BatchOK'
    BY <1>2, <1>4, <2>1 DEF Poll, PollFine
  <2> QED BY <2>3, <2>4, <2>5
<1>5. CASE /\ PollFine /\ last # NoOffset
           /\ confirmed' = Confirmed /\ last' = Advanced
           /\ job' = [pc |-> "handle", todo |-> Batch]
           /\ drained' = drained
  <2>1. Batch \in Seq(Updates) /\ Len(Batch) = Len(sent) - Confirmed
    BY <1>2, PollAssumption DEF Batch, Updates
  <2>2. job'.todo = Batch /\ Edge' = last' - (Len(sent) - Confirmed)
    BY <1>5, <2>1 DEF Edge
  <2>3. /\ last' \in NoOffset .. Len(sent) /\ Edge' <= Confirmed /\ last <= Edge'
        /\ \A i \in 1 .. Len(Batch) : Batch[i] = Edge' + i
    <3>1. CASE Confirmed = Len(sent)
      <4>1. Pending = {} BY <1>2, <3>1 DEF Pending
      <4> QED BY <1>2, <1>5, <2>1, <2>2, <3>1, <4>1 DEF Advanced
    <3>2. CASE Confirmed < Len(sent)
      <4>1. Len(sent) \in Pending BY <1>2, <3>2 DEF Pending
      <4>2. last' = Len(sent) /\ Edge' = Confirmed
        BY <1>2, <1>5, <2>2, <4>1 DEF Advanced
      <4> QED BY <1>2, <2>1, <3>2, <4>2 DEF Batch
    <3> QED BY <1>2, <3>1, <3>2
  <2>4. DoneInv'
    BY <1>2, <1>3, <1>5, <2>3 DEF DoneInv, Done, Poll, IsCommand, Updates, Edge
  <2>5. RepliesInv'
    BY <1>1, <1>2, <1>5, <2>3 DEF RepliesInv, Poll, Updates, Edge
  <2>6. PollTypeOK' /\ BatchOK'
    BY <1>2, <1>5, <2>1, <2>2, <2>3 DEF Poll, PollFine
  <2> QED BY <2>4, <2>5, <2>6
<1>6. CASE /\ PollFault /\ confirmed' \in {confirmed, Confirmed}
           /\ job' = [pc |-> "handle", todo |-> <<>>]
           /\ UNCHANGED <<last, drained>>
  <2>1. Edge' = last
    BY <1>6 DEF Edge
  <2>2. DoneInv' /\ RepliesInv'
    BY <1>1, <1>2, <1>3, <1>6, <2>1 DEF DoneInv, RepliesInv, Done, Poll, IsCommand, Updates
  <2>3. PollTypeOK' /\ BatchOK'
    BY <1>2, <1>6, <2>1 DEF Poll, PollFault
  <2> QED BY <2>2, <2>3
<1> QED BY <1>4, <1>5, <1>6 DEF Poll

LEMMA HandleKeeps == PollInv /\ Handle => PollInv'
<1> SUFFICES ASSUME PollInv, Handle PROVE PollInv' OBVIOUS
<1> USE DEF PollInv, PollTypeOK, BatchOK, NoOffset
<1>a. job.todo \in Seq(Updates) /\ job.todo # <<>> /\ last \in Int
  BY DEF Handle
<1>b. Len(job.todo) \in Nat \ {0} /\ Head(job.todo) = job.todo[1] /\ Head(job.todo) \in Updates
  BY <1>a
<1>d. PICK u \in Updates : u = Head(job.todo)
  BY <1>b
<1>1. /\ Len(job.todo) > 0 /\ u = Edge + 1 /\ u \in Updates
      /\ job.pc = "handle" /\ Edge \in Int
  BY <1>a, <1>b, <1>d DEF Edge
<1>c. \A v \in Updates : IsCommand(v)' <=> IsCommand(v)
  BY DEF IsCommand, Handle
<1>2. CASE /\ PollFine
           /\ replies' = IF IsCommand(u) THEN [replies EXCEPT ![u] = @ + 1] ELSE replies
           /\ job' = [job EXCEPT !.todo = Tail(@)]
           /\ UNCHANGED dropped
  <2>1. /\ Tail(job.todo) \in Seq(Updates) /\ Len(Tail(job.todo)) = Len(job.todo) - 1
        /\ \A i \in 1 .. Len(Tail(job.todo)) : Tail(job.todo)[i] = job.todo[i + 1]
    BY <1>1
  <2>2. Edge' = Edge + 1 /\ job'.todo = Tail(job.todo) /\ job'.pc = "handle"
    BY <1>1, <1>2, <2>1 DEF Edge, Handle
  <2>3. /\ replies' \in [Updates -> Nat]
        /\ \A v \in Updates : /\ v # u => replies'[v] = replies[v]
                              /\ replies'[v] >= replies[v]
                              /\ replies'[v] <= replies[v] + 1
        /\ IsCommand(u) => replies'[u] > 0
    <3>1. CASE IsCommand(u) BY <1>1, <1>2, <3>1
    <3>2. CASE ~IsCommand(u) BY <1>1, <1>2, <3>2
    <3> QED BY <3>1, <3>2
  <2>4. BatchOK'
    <3> SUFFICES ASSUME NEW i \in 1 .. Len(Tail(job.todo))
                 PROVE  Tail(job.todo)[i] = (Edge + 1) + i
      BY <2>2
    <3>1. i + 1 \in 1 .. Len(job.todo)
      BY <1>1, <2>1
    <3>2. job.todo[i + 1] = Edge + (i + 1)
      BY <3>1
    <3> QED
      BY <1>1, <2>1, <3>2
  <2>5. PollTypeOK'
    BY <1>1, <1>2, <2>1, <2>3 DEF Handle, PollFine
  <2>6. \A v \in Updates : Done(v) => Done(v)'
    BY <1>2, <2>3 DEF Done, Handle
  <2>7. IsCommand(u) => Done(u)'
    BY <2>3 DEF Done
  <2>8. DoneInv'
    BY <1>1, <1>c, <2>2, <2>6, <2>7 DEF DoneInv, Handle, Updates
  <2>9. RepliesInv'
    <3> SUFFICES ASSUME NEW v \in Updates
                 PROVE  /\ replies'[v] <= 1 + crashes
                        /\ v > Edge + 1 => replies'[v] <= crashes
      BY <2>2 DEF RepliesInv, Handle
    <3>1. replies[v] \in Nat /\ replies'[v] \in Nat /\ crashes \in Nat /\ v \in Int
      BY <2>3 DEF Updates
    <3>2. /\ replies[v] <= 1 + crashes
          /\ v > Edge => replies[v] <= crashes
      BY DEF RepliesInv
    <3>3. CASE v = u BY <1>1, <2>3, <3>1, <3>2, <3>3
    <3>4. CASE v # u BY <1>1, <2>3, <3>1, <3>2, <3>4
    <3> QED BY <3>3, <3>4
  <2> QED BY <2>4, <2>5, <2>8, <2>9
<1>3. CASE /\ PollFault /\ IsCommand(u)
           /\ dropped' = dropped \union {job.todo[i] : i \in 1 .. Len(job.todo)}
           /\ job' = NoBatch
           /\ UNCHANGED replies
  <2>1. Edge' = last /\ job'.todo = <<>>
    BY <1>3 DEF Edge, NoBatch, Handle
  <2>2. \A v \in Updates : v > Edge /\ v <= last => v \in dropped'
    <3> SUFFICES ASSUME NEW v \in Updates, v > Edge, v <= last PROVE v \in dropped'
      OBVIOUS
    <3>1. v - Edge \in 1 .. Len(job.todo)
      BY DEF Edge, Updates
    <3>2. job.todo[v - Edge] = v
      BY <1>1, <3>1 DEF Updates
    <3> QED BY <1>3, <3>1, <3>2
  <2>3. DoneInv'
    BY <1>1, <1>3, <1>c, <2>1, <2>2 DEF DoneInv, Done, Handle, Updates
  <2>4. Edge <= last
    BY DEF Edge
  <2>5. RepliesInv'
    BY <1>1, <1>3, <2>1, <2>4 DEF RepliesInv, Handle, Updates
  <2>6. PollTypeOK' /\ BatchOK'
    BY <1>3, <2>1 DEF Handle, PollFault, NoBatch
  <2> QED BY <2>3, <2>5, <2>6
<1> QED BY <1>2, <1>3, <1>d DEF Handle

LEMMA SaveKeeps == PollInv /\ Save => PollInv'
<1> SUFFICES ASSUME PollInv, Save PROVE PollInv' OBVIOUS
<1> USE DEF PollInv, PollTypeOK, BatchOK, NoOffset
<1>1. job.todo = <<>> /\ job' = NoBatch /\ Edge = last /\ Edge' = last
  BY DEF Save, Handled, Edge, NoBatch
<1>2. saved' \in {saved, last}
  BY DEF Save
<1>3. PollTypeOK' /\ BatchOK'
  BY <1>1, <1>2 DEF Save, PollFine, PollFault, NoBatch
<1>4. DoneInv' /\ RepliesInv'
  BY <1>1, <1>2 DEF DoneInv, RepliesInv, Done, IsCommand, Save
<1> QED BY <1>3, <1>4

LEMMA RestartKeeps == PollInv /\ PollRestart => PollInv'
<1> SUFFICES ASSUME PollInv, PollRestart PROVE PollInv' OBVIOUS
<1> USE DEF PollInv, PollTypeOK, BatchOK, NoOffset
<1>1. job' = NoBatch /\ last' = saved /\ Edge' = saved
  BY DEF PollRestart, Resumed, Edge, NoBatch
<1>2. PollTypeOK' /\ BatchOK'
  BY <1>1 DEF PollRestart, PollFault, NoBatch
<1>3. DoneInv'
  BY <1>1 DEF DoneInv, Done, IsCommand, PollRestart
<1>4. RepliesInv'
  BY <1>1 DEF RepliesInv, PollRestart
<1> QED BY <1>2, <1>3, <1>4

(* Where the poll stands, and what that says of each update, is an         *)
(* invariant of the poll (app.poll_telegram_commands).                     *)
THEOREM PollInvariant == PollSpec => []PollInv
<1>1. PollInv /\ [PollNext]_pollVars => PollInv'
  <2> SUFFICES ASSUME PollInv, [PollNext]_pollVars PROVE PollInv' OBVIOUS
  <2>1. CASE Send BY <2>1, SendKeeps
  <2>2. CASE PollStep BY <2>2, PollKeeps, HandleKeeps, SaveKeeps DEF PollStep
  <2>3. CASE PollRestart BY <2>3, RestartKeeps
  <2>4. CASE UNCHANGED pollVars
    BY <2>4 DEF pollVars, PollInv, PollTypeOK, BatchOK, DoneInv, RepliesInv, Edge, Done,
                IsCommand
  <2> QED BY <2>1, <2>2, <2>3, <2>4 DEF PollNext
<1> QED BY PollInvInit, <1>1, PTL DEF PollSpec

(* The offset a new pod finds promises nothing that was not done           *)
(* (db.set_telegram_offset comes after the batch).                         *)
THEOREM OffsetKeepsPromise == PollSpec => []SavedWasHandled
<1>1. PollInv => SavedWasHandled
  BY DEF PollInv, DoneInv, Done, SavedWasHandled
<1> QED BY PollInvariant, <1>1, PTL

(* Without a crash in between, no command is answered twice.               *)
THEOREM AnsweredOncePerRun == PollSpec => []OncePerRun
<1>1. PollInv => OncePerRun
  BY DEF PollInv, RepliesInv, OncePerRun
<1> QED BY PollInvariant, <1>1, PTL

-----------------------------------------------------------------------------(* The saved shortlists, for any number of agents, symbols and passes.     *)

Writes == UNION {[d -> Int] : d \in SUBSET Symbols}
Saves == [pc : {"idle", "delete", "upsert"}, n : Nat, list : Seq(Symbols),
          doomed : SUBSET Symbols, wrote : Writes, alone : BOOLEAN]
Present == {s \in Symbols : cache[s] # Absent}

(* What a transaction has in hand or has written covers every row there is,*)
(* as long as no other transaction ran beside it.                          *)
Covers(a) ==
  Saving(a) /\ screen[a].alone =>
    /\ \A b \in Agents \ {a} : ~Saving(b)
    /\ Present \subseteq screen[a].doomed \union DOMAIN screen[a].wrote
                           \union Range(screen[a].list)

Signed(a) ==
  /\ Saving(a) => screen[a].n > 0
  /\ \A s \in DOMAIN screen[a].wrote : screen[a].wrote[s] \in {Gone, screen[a].n}
  /\ screen[a].pc = "upsert" => screen[a].doomed = {}

ScreenInv ==
  /\ universe \in {"safe", "market"} /\ screens \in Nat
  /\ cache \in [Symbols -> Int]
  /\ screen \in [Agents -> Saves]
  /\ \A a \in Agents : Signed(a) /\ Covers(a)
  /\ shown.list \subseteq Symbols
  /\ CacheOfLastScreen

LEMMA SaveFields ==
  ASSUME NEW r \in Saves
  PROVE  /\ r.pc \in {"idle", "delete", "upsert"} /\ r.n \in Nat
         /\ r.list \in Seq(Symbols) /\ r.doomed \in SUBSET Symbols
         /\ r.wrote \in Writes /\ r.alone \in BOOLEAN
BY DEF Saves

LEMMA NoWritesTyped == NoWrites \in Writes /\ DOMAIN NoWrites = {}
<1>1. NoWrites \in [{} -> Int] BY DEF NoWrites
<1>2. {} \in SUBSET Symbols OBVIOUS
<1> QED BY <1>1, <1>2 DEF Writes, NoWrites

LEMMA NoScreenTyped ==
  /\ NoScreen \in Saves /\ NoScreen.pc = "idle" /\ DOMAIN NoScreen.wrote = {}
<1>1. PICK zero \in Nat : zero = 0 OBVIOUS
<1>2. PICK w \in Writes : w = NoWrites BY NoWritesTyped
<1>3. PICK e \in Seq(Symbols) : e = <<>>
  <2>1. <<>> \in Seq(Symbols) OBVIOUS
  <2> QED BY <2>1
<1>4. NoScreen = [pc |-> "idle", n |-> zero, list |-> e, doomed |-> {}, wrote |-> w,
                  alone |-> TRUE]
  BY <1>1, <1>2, <1>3 DEF NoScreen
<1>5. {} \in SUBSET Symbols OBVIOUS
<1>6. NoScreen \in Saves BY <1>4, <1>5 DEF Saves
<1>7. NoScreen.pc = "idle" /\ NoScreen.wrote = w BY <1>4
<1> QED BY <1>2, <1>6, <1>7, NoWritesTyped

LEMMA RangeIn ==
  ASSUME NEW list \in Seq(Symbols) PROVE Range(list) \subseteq Symbols
BY DEF Range

LEMMA RangeTail ==
  ASSUME NEW list \in Seq(Symbols), list # <<>>
  PROVE  /\ Head(list) \in Symbols /\ Tail(list) \in Seq(Symbols)
         /\ Range(list) \subseteq {Head(list)} \union Range(Tail(list))
<1>1. Len(list) \in Nat /\ Len(list) > 0 OBVIOUS
<1>2. Head(list) \in Symbols /\ Head(list) = list[1] /\ Tail(list) \in Seq(Symbols)
  BY <1>1
<1>3. ASSUME NEW i \in DOMAIN list, i # 1
      PROVE  list[i] \in Range(Tail(list))
  <2>1. i \in 2 .. Len(list) BY <1>3
  <2>2. i - 1 \in DOMAIN Tail(list) /\ Tail(list)[i - 1] = list[i] BY <1>1, <2>1
  <2> QED BY <2>2 DEF Range
<1> QED BY <1>2, <1>3 DEF Range

LEMMA ScreenInitial == ScreenInit => ScreenInv
<1> SUFFICES ASSUME ScreenInit PROVE ScreenInv OBVIOUS
<1>1. /\ universe \in {"safe", "market"} /\ screens \in Nat
      /\ cache \in [Symbols -> Int]
  BY ScreeningAssumption DEF ScreenInit, Absent
<1>2. screen \in [Agents -> Saves] BY NoScreenTyped DEF ScreenInit
<1>3. \A a \in Agents : Signed(a) /\ Covers(a)
  BY NoScreenTyped DEF ScreenInit, Signed, Covers, Saving
<1>4. shown.list = {} /\ ~shown.alone BY DEF ScreenInit
<1> QED BY <1>1, <1>2, <1>3, <1>4 DEF ScreenInv, CacheOfLastScreen

(* A shortlist ranks symbols of its pool, some of which the top has left   *)
(* out and some the filter.                                                *)
LEMMA PoolFinite ==
  ASSUME NEW mode \in {"safe", "market", "coins"}
  PROVE  Pool(mode) \subseteq Symbols /\ IsFiniteSet(Pool(mode))
<1>1. PersistentCandidates \subseteq Stocks BY DEF PersistentCandidates
<1>2. IsFiniteSet(Stocks) /\ IsFiniteSet(Coins) BY ScreeningAssumption
<1>3. IsFiniteSet(PersistentCandidates) BY <1>1, <1>2, FS_Subset
<1> QED BY <1>1, <1>2, <1>3 DEF Pool, Symbols

LEMMA ShortlistTyped ==
  ASSUME NEW mode \in {"safe", "market", "coins"}, NEW quote \in Quotes(mode),
         NEW list \in Shortlists(mode, quote)
  PROVE  list \in Seq(Pool(mode)) /\ Range(list) \subseteq Pool(mode)
<1>1. PICK top \in Top(mode, quote) :
        list \in Ranked(mode, quote, {s \in top : Buyable(mode, quote[s])})
  BY DEF Shortlists
<1>2. PICK S : S = {s \in top : Buyable(mode, quote[s])} OBVIOUS
<1>3. DOMAIN quote = Pool(mode) BY DEF Quotes
<1>4. S \subseteq Pool(mode) BY <1>1, <1>2, <1>3 DEF Top
<1>5. IsFiniteSet(S) BY <1>4, PoolFinite, FS_Subset
<1>6. Cardinality(S) \in Nat BY <1>5, FS_CardinalityType
<1>7. list \in [1 .. Cardinality(S) -> S] BY <1>1, <1>2 DEF Ranked, SetToSeqs
<1>8. list \in Seq(Pool(mode)) BY <1>4, <1>6, <1>7
<1> QED BY <1>4, <1>7, <1>8 DEF Range

(* A screen that begins: its DELETE has found every row it will not write  *)
(* itself, and whoever else was saving is no longer alone.                 *)
LEMMA ScreenKeeps ==
  ASSUME ScreenInv, NEW a \in Agents, Screen(a) PROVE ScreenInv'
<1>1. /\ screens' = screens + 1 /\ universe' = universe /\ cache' = cache /\ shown' = shown
      /\ ~Saving(a)
  BY DEF Screen
<1>2. universe' \in {"safe", "market"} /\ screens' \in Nat /\ cache' \in [Symbols -> Int]
  BY <1>1 DEF ScreenInv
<1>3. shown'.list \subseteq Symbols /\ CacheOfLastScreen'
  BY <1>1 DEF ScreenInv, CacheOfLastScreen
<1>4. CASE UNCHANGED screen
  <2>1. \A b \in Agents : Signed(b)' /\ Covers(b)'
    BY <1>1, <1>4 DEF ScreenInv, Signed, Covers, Saving, Present
  <2> QED BY <1>2, <1>3, <1>4, <2>1 DEF ScreenInv
<1>5. ASSUME NEW mode \in {"safe", "market", "coins"}, NEW quote \in Quotes(mode),
             NEW list \in Shortlists(mode, quote),
             screen' = [b \in Agents |->
                 IF b = a
                   THEN [pc |-> "delete", n |-> screens', list |-> list,
                         doomed |-> {s \in Symbols : cache[s] # Absent} \ Range(list),
                         wrote |-> NoWrites, alone |-> \A c \in Agents : ~Saving(c)]
                   ELSE [screen[b] EXCEPT !.alone = ~Saving(b)]]
      PROVE  ScreenInv'
  <2>1. list \in Seq(Symbols) BY PoolFinite, ShortlistTyped
  <2>2. PICK k \in Nat : k = screens' /\ k > 0 BY <1>1 DEF ScreenInv
  <2>3. PICK al \in BOOLEAN : al = (\A c \in Agents : ~Saving(c)) OBVIOUS
  <2>4. PICK w \in Writes : w = NoWrites /\ DOMAIN w = {} BY NoWritesTyped
  <2>5. PICK dm \in SUBSET Symbols : dm = Present \ Range(list) BY DEF Present
  <2>6. PICK r : r = [pc |-> "delete", n |-> k, list |-> list, doomed |-> dm, wrote |-> w,
                      alone |-> al]
    OBVIOUS
  <2>7. /\ r \in Saves /\ r.pc = "delete" /\ r.n = k /\ r.list = list /\ r.doomed = dm
        /\ r.wrote = w /\ r.alone = al
    BY <2>1, <2>6 DEF Saves
  <2>8. screen'[a] = r
    BY <1>5, <2>2, <2>3, <2>4, <2>5, <2>6 DEF Present
  <2>9. ASSUME NEW b \in Agents \ {a}
        PROVE  /\ screen'[b] \in Saves /\ screen'[b].pc = screen[b].pc
               /\ screen'[b].n = screen[b].n /\ screen'[b].doomed = screen[b].doomed
               /\ screen'[b].wrote = screen[b].wrote
               /\ Saving(b) => ~screen'[b].alone
    <3>1. PICK q \in Saves : q = screen[b] BY DEF ScreenInv
    <3>2. PICK x \in BOOLEAN : x = ~Saving(b) OBVIOUS
    <3>3. screen'[b] = [q EXCEPT !.alone = x] BY <1>5, <3>1, <3>2
    <3> QED BY <3>1, <3>2, <3>3 DEF Saves
  <2>10. screen' \in [Agents -> Saves] BY <1>5, <2>7, <2>8, <2>9
  <2>11. Signed(a)' BY <2>2, <2>4, <2>7, <2>8 DEF Signed, Saving
  <2>12. Covers(a)'
    <3>1. SUFFICES ASSUME al PROVE Covers(a)' BY <2>7, <2>8 DEF Covers
    <3>2. \A b \in Agents \ {a} : ~Saving(b)' BY <2>3, <2>9, <3>1 DEF Saving
    <3>3. Present' = Present BY <1>1 DEF Present
    <3>4. Present' \subseteq r.doomed \union DOMAIN r.wrote \union Range(r.list)
      BY <2>5, <2>7, <3>3
    <3> QED BY <2>8, <3>2, <3>4 DEF Covers
  <2>13. \A b \in Agents \ {a} : Signed(b)' /\ Covers(b)'
    BY <2>9 DEF ScreenInv, Signed, Covers, Saving
  <2> QED BY <1>2, <1>3, <2>10, <2>11, <2>12, <2>13 DEF ScreenInv
<1> QED BY <1>4, <1>5 DEF Screen, ScreenInv

(* A step of one transaction that writes no more than its own record.      *)
LEMMA TransactionKeeps ==
  ASSUME ScreenInv, NEW a \in Agents, NEW r \in Saves, screen' = [screen EXCEPT ![a] = r],
         UNCHANGED <<universe, screens, cache, shown>>,
         Saving(a), r.n = screen[a].n, r.alone = screen[a].alone,
         \A s \in DOMAIN r.wrote : r.wrote[s] \in {Gone, r.n},
         r.pc = "upsert" => r.doomed = {},
         screen[a].doomed \union DOMAIN screen[a].wrote \union Range(screen[a].list)
           \subseteq r.doomed \union DOMAIN r.wrote \union Range(r.list)
  PROVE  ScreenInv'
<1>1. screen'[a] = r /\ \A b \in Agents \ {a} : screen'[b] = screen[b]
  BY DEF ScreenInv
<1>2. screen' \in [Agents -> Saves] BY DEF ScreenInv
<1>3. Present' = Present BY DEF Present
<1>4. Signed(a)' BY <1>1 DEF Signed, Saving, ScreenInv
<1>5. Covers(a)'
  BY <1>1, <1>3 DEF Covers, Saving, ScreenInv
<1>6. ASSUME NEW b \in Agents \ {a} PROVE Signed(b)' /\ Covers(b)'
  BY <1>1, <1>3 DEF Signed, Covers, Saving, ScreenInv
<1>7. shown'.list \subseteq Symbols /\ CacheOfLastScreen'
  BY DEF ScreenInv, CacheOfLastScreen
<1> QED BY <1>2, <1>4, <1>5, <1>6, <1>7 DEF ScreenInv

LEMMA DeleteRowKeeps ==
  ASSUME ScreenInv, NEW a \in Agents, DeleteRow(a) PROVE ScreenInv'
<1>1. PICK s \in screen[a].doomed :
        screen' = [screen EXCEPT ![a].doomed = @ \ {s}, ![a].wrote = With(@, s, Gone)]
  BY DEF DeleteRow
<1>2. PICK q \in Saves : q = screen[a] BY DEF ScreenInv
<1>3. s \in Symbols /\ q.wrote \in Writes /\ q.doomed \in SUBSET Symbols
  BY <1>1, <1>2, SaveFields
<1>4. PICK w \in Writes :
        /\ w = With(q.wrote, s, Gone) /\ DOMAIN w = DOMAIN q.wrote \union {s}
        /\ \A r \in DOMAIN w : w[r] = IF r = s THEN Gone ELSE q.wrote[r]
  <2>1. PICK w : w = With(q.wrote, s, Gone) OBVIOUS
  <2>2. DOMAIN w = DOMAIN q.wrote \union {s} BY <2>1 DEF With
  <2>3. \A r \in DOMAIN w : w[r] = IF r = s THEN Gone ELSE q.wrote[r] BY <2>1 DEF With
  <2>4. w \in Writes
    <3>1. PICK d \in SUBSET Symbols : q.wrote \in [d -> Int] BY <1>3 DEF Writes
    <3>2. Gone \in Int BY DEF Gone
    <3>3. w \in [d \union {s} -> Int] BY <2>1, <3>1, <3>2 DEF With
    <3>4. d \union {s} \in SUBSET Symbols BY <1>3
    <3> QED BY <3>3, <3>4 DEF Writes
  <2> QED BY <2>1, <2>2, <2>3, <2>4
<1>5. PICK d \in SUBSET Symbols : d = q.doomed \ {s} BY <1>3
<1>6. PICK r : r = [q EXCEPT !.doomed = d, !.wrote = w] OBVIOUS
<1>7. /\ r \in Saves /\ r.n = q.n /\ r.alone = q.alone /\ r.pc = q.pc /\ r.list = q.list
      /\ r.doomed = d /\ r.wrote = w
  BY <1>6 DEF Saves
<1>8. screen' = [screen EXCEPT ![a] = r]
  BY <1>1, <1>2, <1>4, <1>5, <1>6 DEF ScreenInv
<1>9. screen[a].pc = "delete" /\ UNCHANGED <<universe, screens, cache, shown>>
  BY DEF DeleteRow
<1>10. \A x \in DOMAIN q.wrote : q.wrote[x] \in {Gone, q.n}
  BY <1>2 DEF ScreenInv, Signed
<1>11. \A x \in DOMAIN r.wrote : r.wrote[x] \in {Gone, r.n} BY <1>4, <1>7, <1>10
<1>12. q.doomed \union DOMAIN q.wrote \union Range(q.list)
         \subseteq r.doomed \union DOMAIN r.wrote \union Range(r.list)
  BY <1>4, <1>5, <1>7
<1> QED
  BY <1>2, <1>7, <1>8, <1>9, <1>11, <1>12, TransactionKeeps DEF Saving

LEMMA DeleteDoneKeeps ==
  ASSUME ScreenInv, NEW a \in Agents, DeleteDone(a) PROVE ScreenInv'
<1>1. PICK q \in Saves : q = screen[a] BY DEF ScreenInv
<1>2. PICK r : r = [q EXCEPT !.pc = "upsert"] OBVIOUS
<1>3. /\ r \in Saves /\ r.n = q.n /\ r.alone = q.alone /\ r.list = q.list
      /\ r.doomed = q.doomed /\ r.wrote = q.wrote
  BY <1>2 DEF Saves
<1>4. screen' = [screen EXCEPT ![a] = r] BY <1>1, <1>2 DEF DeleteDone, ScreenInv
<1>5. /\ screen[a].pc = "delete" /\ q.doomed = {}
      /\ UNCHANGED <<universe, screens, cache, shown>>
  BY <1>1 DEF DeleteDone
<1>6. \A x \in DOMAIN q.wrote : q.wrote[x] \in {Gone, q.n}
  BY <1>1 DEF ScreenInv, Signed
<1> QED BY <1>1, <1>3, <1>4, <1>5, <1>6, TransactionKeeps DEF Saving

LEMMA UpsertKeeps ==
  ASSUME ScreenInv, NEW a \in Agents, Upsert(a) PROVE ScreenInv'
<1>1. PICK q \in Saves : q = screen[a] BY DEF ScreenInv
<1>2. /\ q.pc = "upsert" /\ q.list # <<>> /\ q.list \in Seq(Symbols) /\ q.wrote \in Writes
      /\ q.n \in Nat /\ UNCHANGED <<universe, screens, cache, shown>>
      /\ screen' = [screen EXCEPT ![a].list = Tail(@),
                                  ![a].wrote = With(@, NextSymbol(a), Written(a))]
  BY <1>1, SaveFields DEF Upsert
<1>3. PICK s \in Symbols : s = Head(q.list) BY <1>2, RangeTail
<1>4. PICK w \in Writes :
        /\ w = With(q.wrote, s, q.n) /\ DOMAIN w = DOMAIN q.wrote \union {s}
        /\ \A r \in DOMAIN w : w[r] = IF r = s THEN q.n ELSE q.wrote[r]
  <2>1. PICK w : w = With(q.wrote, s, q.n) OBVIOUS
  <2>2. DOMAIN w = DOMAIN q.wrote \union {s} BY <2>1 DEF With
  <2>3. \A r \in DOMAIN w : w[r] = IF r = s THEN q.n ELSE q.wrote[r] BY <2>1 DEF With
  <2>4. w \in Writes
    <3>1. PICK d \in SUBSET Symbols : q.wrote \in [d -> Int] BY <1>2 DEF Writes
    <3>2. q.n \in Int BY <1>2
    <3>3. w \in [d \union {s} -> Int] BY <2>1, <3>1, <3>2 DEF With
    <3>4. d \union {s} \in SUBSET Symbols BY <1>3
    <3> QED BY <3>3, <3>4 DEF Writes
  <2> QED BY <2>1, <2>2, <2>3, <2>4
<1>5. PICK t \in Seq(Symbols) : t = Tail(q.list) /\ Range(q.list) \subseteq {s} \union Range(t)
  BY <1>2, <1>3, RangeTail
<1>6. PICK r : r = [q EXCEPT !.list = t, !.wrote = w] OBVIOUS
<1>7. /\ r \in Saves /\ r.n = q.n /\ r.alone = q.alone /\ r.pc = q.pc /\ r.list = t
      /\ r.doomed = q.doomed /\ r.wrote = w
  BY <1>6 DEF Saves
<1>8. screen' = [screen EXCEPT ![a] = r]
  BY <1>1, <1>2, <1>3, <1>4, <1>5, <1>6 DEF ScreenInv, NextSymbol, Written
<1>9. /\ \A x \in DOMAIN q.wrote : q.wrote[x] \in {Gone, q.n}
      /\ q.doomed = {}
  BY <1>1, <1>2 DEF ScreenInv, Signed
<1>10. \A x \in DOMAIN r.wrote : r.wrote[x] \in {Gone, r.n} BY <1>4, <1>7, <1>9
<1>11. q.doomed \union DOMAIN q.wrote \union Range(q.list)
         \subseteq r.doomed \union DOMAIN r.wrote \union Range(r.list)
  BY <1>4, <1>5, <1>7
<1>12. Saving(a) /\ r.n = screen[a].n /\ r.alone = screen[a].alone
  BY <1>1, <1>2, <1>7 DEF Saving
<1>13. r.doomed = {} BY <1>7, <1>9
<1> QED BY <1>1, <1>2, <1>7, <1>8, <1>10, <1>11, <1>12, <1>13, TransactionKeeps

(* A commit replaces the rows it has written.  When it ran alone these are *)
(* all there were, and what it leaves is its list.                         *)
LEMMA CommitKeeps ==
  ASSUME ScreenInv, NEW a \in Agents, Commit(a) PROVE ScreenInv'
<1>1. PICK q \in Saves : q = screen[a] BY DEF ScreenInv
<1>2. q.pc = "upsert" /\ q.list = <<>> /\ q.wrote \in Writes /\ q.n \in Nat
  BY <1>1, SaveFields DEF Commit
<1>3. PICK d \in SUBSET Symbols : q.wrote \in [d -> Int] /\ DOMAIN q.wrote = d
  BY <1>2 DEF Writes
<1>4. /\ \A s \in d : q.wrote[s] \in {Gone, q.n}
      /\ q.n > 0 /\ q.doomed = {}
  BY <1>1, <1>2, <1>3 DEF ScreenInv, Signed, Saving
<1>5. Listed(a) = {s \in d : q.wrote[s] # Gone} BY <1>1, <1>3 DEF Listed
<1>6. /\ cache' = [s \in Symbols |->
                     IF s \notin d THEN cache[s]
                     ELSE IF q.wrote[s] = Gone THEN Absent ELSE q.wrote[s]]
      /\ shown' = [n |-> q.n, list |-> Listed(a), alone |-> q.alone]
      /\ UNCHANGED <<universe, screens>>
  BY <1>1, <1>3 DEF Commit
<1>7. cache' \in [Symbols -> Int] BY <1>3, <1>6 DEF ScreenInv, Absent
<1>8. shown'.n = q.n /\ shown'.list = Listed(a) /\ shown'.alone = q.alone BY <1>6
<1>9. shown'.list \subseteq Symbols BY <1>5, <1>8
<1>10. \A s \in shown'.list : cache'[s] = shown'.n BY <1>4, <1>5, <1>6, <1>8
<1>11. ASSUME q.alone PROVE {s \in Symbols : cache'[s] # Absent} = Listed(a)
  <2>1. Present \subseteq d
    <3>1. Range(q.list) = {} BY <1>2 DEF Range
    <3>2. Present \subseteq q.doomed \union d \union Range(q.list)
      BY <1>1, <1>2, <1>3, <1>11 DEF ScreenInv, Covers, Saving
    <3> QED BY <1>4, <3>1, <3>2
  <2>2. ASSUME NEW s \in Symbols PROVE cache'[s] # Absent <=> s \in Listed(a)
    <3>1. CASE s \notin d BY <1>5, <1>6, <2>1, <3>1 DEF Present
    <3>2. CASE s \in d BY <1>4, <1>5, <1>6, <3>2 DEF Absent, Gone
    <3> QED BY <3>1, <3>2
  <2> QED BY <1>5, <2>2
<1>12. CacheOfLastScreen' BY <1>8, <1>10, <1>11 DEF CacheOfLastScreen
<1>13. screen'[a] = NoScreen BY DEF Commit, ScreenInv
<1>14. ASSUME NEW b \in Agents \ {a}
       PROVE  /\ screen'[b] \in Saves /\ screen'[b].pc = screen[b].pc
              /\ screen'[b].n = screen[b].n /\ screen'[b].wrote = screen[b].wrote
              /\ screen'[b].alone = screen[b].alone
              /\ screen'[b].doomed \subseteq screen[b].doomed
  <2>1. PICK p \in Saves : p = screen[b] BY DEF ScreenInv
  <2>2. PICK x \in SUBSET Symbols : x = {s \in p.doomed : cache'[s] # Absent}
    BY SaveFields
  <2>3. screen'[b] = [p EXCEPT !.doomed = x] BY <2>1, <2>2 DEF Commit
  <2> QED BY <2>1, <2>2, <2>3 DEF Saves
<1>15. screen' \in [Agents -> Saves] BY <1>13, <1>14, NoScreenTyped DEF Commit
<1>16. Signed(a)' /\ Covers(a)' BY <1>13, NoScreenTyped DEF Signed, Covers, Saving
<1>17. ASSUME NEW b \in Agents \ {a} PROVE Signed(b)' /\ Covers(b)'
  <2>1. Signed(b)' BY <1>14 DEF ScreenInv, Signed, Saving
  <2>2. ~(Saving(b) /\ screen[b].alone)
    BY <1>1, <1>2 DEF ScreenInv, Covers, Saving
  <2>3. Covers(b)' BY <1>14, <2>2 DEF Covers, Saving
  <2> QED BY <2>1, <2>3
<1>18. universe' \in {"safe", "market"} /\ screens' \in Nat BY <1>6 DEF ScreenInv
<1> QED BY <1>7, <1>9, <1>12, <1>15, <1>16, <1>17, <1>18 DEF ScreenInv

LEMMA DeadlockKeeps ==
  ASSUME ScreenInv, NEW a \in Agents, DeadlockDetected(a) PROVE ScreenInv'
<1>1. /\ screen' = [screen EXCEPT ![a] = NoScreen]
      /\ UNCHANGED <<universe, screens, cache, shown>>
  BY DEF DeadlockDetected
<1>2. /\ screen'[a] = NoScreen /\ \A b \in Agents \ {a} : screen'[b] = screen[b]
      /\ screen' \in [Agents -> Saves]
  BY <1>1, NoScreenTyped DEF ScreenInv
<1>3. Signed(a)' /\ Covers(a)' BY <1>2, NoScreenTyped DEF Signed, Covers, Saving
<1>4. Present' = Present BY <1>1 DEF Present
<1>5. ASSUME NEW b \in Agents \ {a} PROVE Signed(b)' /\ Covers(b)'
  BY <1>2, <1>3, <1>4, NoScreenTyped DEF ScreenInv, Signed, Covers, Saving
<1> QED BY <1>1, <1>2, <1>3, <1>5 DEF ScreenInv, CacheOfLastScreen

LEMMA IdleKeeps ==
  ASSUME ScreenInv, UNCHANGED <<universe, screens, cache, shown, screen>> PROVE ScreenInv'
BY DEF ScreenInv, CacheOfLastScreen, Signed, Covers, Saving, Present

LEMMA ScreenInvStep == ScreenInv /\ [ScreenNext]_screenVars => ScreenInv'
<1> SUFFICES ASSUME ScreenInv, [ScreenNext]_screenVars PROVE ScreenInv' OBVIOUS
<1>1. CASE DiscoveryScan \/ UNCHANGED screenVars
  BY <1>1, IdleKeeps DEF DiscoveryScan, screenVars
<1>2. ASSUME NEW a \in Agents, Screen(a) \/ ScreenStep(a) \/ DeadlockDetected(a)
      PROVE  ScreenInv'
  BY <1>2, ScreenKeeps, DeleteRowKeeps, DeleteDoneKeeps, UpsertKeeps, CommitKeeps,
     DeadlockKeeps DEF ScreenStep
<1> QED BY <1>1, <1>2 DEF ScreenNext

(* However the transactions of any number of agents wait for each other's  *)
(* rows, fail or commit, shortlist_cache holds the list saved last, whole, *)
(* and nothing else if no other screen was being saved meanwhile.          *)
THEOREM CacheIsTheLastScreen == ScreenSpec => []CacheOfLastScreen
<1>1. ScreenInv => CacheOfLastScreen BY DEF ScreenInv
<1> QED BY ScreenInitial, ScreenInvStep, <1>1, PTL DEF ScreenSpec

-----------------------------------------------------------------------------
(* The noise filter.  A stock that is in the cache or that a transaction   *)
(* has in hand (Hand: still to be written, written, or to be deleted) was  *)
(* found by enough passes, and a pass that found it is counted once,       *)
(* whatever number of its rows name it.                                    *)

Passes(s) == {b \in DOMAIN scans : \E r \in scans[b] : r[1] = s}
Hand(a) == Range(screen[a].list) \union screen[a].doomed \union DOMAIN screen[a].wrote
Around(s) == cache[s] # Absent \/ \E a \in Agents : s \in Hand(a)

BlipInv ==
  /\ ScreenInv
  /\ scans \in Seq(SUBSET Findings)
  /\ found \in [Symbols -> Nat]
  /\ \A s \in Stocks : Cardinality(Passes(s)) <= found[s]
  /\ universe = "market" => \A s \in Stocks : Around(s) => found[s] >= MinAppearances

LEMMA Bounds == MinAppearances \in Nat /\ MinAppearances > 0 /\ Lookback \in Nat
BY ScreeningAssumption

LEMMA PassesFinite ==
  ASSUME scans \in Seq(SUBSET Findings), NEW s
  PROVE  /\ IsFiniteSet(Passes(s)) /\ Cardinality(Passes(s)) \in Nat
         /\ Passes(s) \subseteq 1 .. Len(scans)
<1>1. Len(scans) \in Nat /\ DOMAIN scans = 1 .. Len(scans) OBVIOUS
<1>2. Passes(s) \subseteq 1 .. Len(scans) BY <1>1 DEF Passes
<1>3. IsFiniteSet(1 .. Len(scans)) BY <1>1, FS_Interval
<1>4. IsFiniteSet(Passes(s)) BY <1>2, <1>3, FS_Subset
<1> QED BY <1>2, <1>4, FS_CardinalityType

LEMMA MaxOfTwo ==
  ASSUME NEW k \in Int PROVE Max({1, k}) \in Int /\ Max({1, k}) >= 1
<1>1. \E x \in {1, k} : \A y \in {1, k} : x >= y
  <2>1. CASE k >= 1 BY <2>1
  <2>2. CASE ~(k >= 1) BY <2>2
  <2> QED BY <2>1, <2>2
<1>2. Max({1, k}) \in {1, k} /\ \A y \in {1, k} : Max({1, k}) >= y
  BY <1>1 DEF Max
<1> QED BY <1>2

(* What the filter counts are passes that found the stock.                 *)
LEMMA AppearancesAreFinds ==
  ASSUME BlipInv, NEW s \in PersistentCandidates
  PROVE  s \in Stocks /\ found[s] >= MinAppearances
<1>1. s \in Stocks /\ Appearances(s) >= MinAppearances BY DEF PersistentCandidates
<1>2. scans \in Seq(SUBSET Findings) BY DEF BlipInv
<1>3. PICK k \in Int : k = Len(scans) - Lookback + 1
  <2>1. Len(scans) \in Nat BY <1>2
  <2> QED BY <2>1, Bounds
<1>4. RecentBatches \subseteq DOMAIN scans
  BY <1>2, <1>3, MaxOfTwo DEF RecentBatches
<1>5. PICK P : P = {b \in RecentBatches : \E r \in scans[b] : r[1] = s} OBVIOUS
<1>6. P \subseteq Passes(s) BY <1>4, <1>5 DEF Passes
<1>7. /\ IsFiniteSet(Passes(s)) /\ Cardinality(Passes(s)) \in Nat
  BY <1>2, PassesFinite
<1>8. Cardinality(P) <= Cardinality(Passes(s)) /\ IsFiniteSet(P)
  BY <1>6, <1>7, FS_Subset
<1>9. Cardinality(P) \in Nat BY <1>8, FS_CardinalityType
<1>10. Cardinality(P) >= MinAppearances BY <1>1, <1>5 DEF Appearances
<1>11. Cardinality(Passes(s)) <= found[s] /\ found[s] \in Nat
  BY <1>1 DEF BlipInv, Symbols
<1> QED BY <1>1, <1>7, <1>8, <1>9, <1>10, <1>11, Bounds

LEMMA BlipInitial == ScreenInit => BlipInv
<1> SUFFICES ASSUME ScreenInit PROVE BlipInv OBVIOUS
<1>1. scans = <<>> /\ found = [s \in Symbols |-> 0] BY DEF ScreenInit
<1>2. scans \in Seq(SUBSET Findings) BY <1>1
<1>3. found \in [Symbols -> Nat] BY <1>1
<1>4. ASSUME NEW s \in Stocks
      PROVE  Cardinality(Passes(s)) <= found[s] /\ ~Around(s)
  <2>1. Passes(s) = {} BY <1>1 DEF Passes
  <2>2. found[s] = 0 /\ s \in Symbols BY <1>1 DEF Symbols
  <2>3. cache[s] = Absent BY <2>2 DEF ScreenInit
  <2>4. \A a \in Agents : screen[a] = NoScreen BY DEF ScreenInit
  <2>5. NoScreen.list = <<>> /\ NoScreen.doomed = {} BY DEF NoScreen
  <2>6. \A a \in Agents : s \notin Hand(a)
    BY <2>4, <2>5, NoScreenTyped DEF Hand, Range
  <2> QED BY <2>1, <2>2, <2>3, <2>6, FS_EmptySet DEF Around
<1> QED BY <1>2, <1>3, <1>4, ScreenInitial DEF BlipInv

(* A step that finds nothing new: what is in hand or in the cache after it *)
(* was there before, or has been found often enough.                       *)
LEMMA BlipKept ==
  ASSUME BlipInv, ScreenInv', UNCHANGED <<universe, scans, found>>,
         universe = "market" =>
           \A s \in Stocks : Around(s)' => Around(s) \/ found[s] >= MinAppearances
  PROVE  BlipInv'
<1>1. \A s \in Stocks : Passes(s)' = Passes(s) BY DEF Passes
<1> QED BY <1>1 DEF BlipInv

(* A pass finds a stock once, however many rows it gives it.               *)
LEMMA DiscoveryFinds ==
  ASSUME BlipInv, ScreenInv', DiscoveryScan PROVE BlipInv'
<1>1. PICK rows \in SUBSET Findings :
        /\ scans' = Recorded(rows)
        /\ found' = [s \in Symbols |->
                       IF \E r \in rows : r[1] = s THEN found[s] + 1 ELSE found[s]]
  BY DEF DiscoveryScan, DiscoverCandidates
<1>2. scans \in Seq(SUBSET Findings) /\ found \in [Symbols -> Nat] BY DEF BlipInv
<1>3. Len(scans) \in Nat BY <1>2
<1>4. scans' \in Seq(SUBSET Findings) BY <1>1, <1>2 DEF Recorded
<1>5. found' \in [Symbols -> Nat] BY <1>1, <1>2
<1>6. ASSUME NEW s \in Stocks
      PROVE  Cardinality(Passes(s)') <= found'[s] /\ found[s] <= found'[s]
  <2>1. s \in Symbols BY DEF Symbols
  <2>2. PICK n \in Nat : n = found[s] BY <1>2, <2>1
  <2>3. PICK m \in Nat : m = Cardinality(Passes(s)) BY <1>2, PassesFinite
  <2>4. m <= n BY <2>2, <2>3 DEF BlipInv
  <2>5. CASE rows = {}
    <3>1. scans' = scans /\ found'[s] = n BY <1>1, <2>1, <2>2, <2>5 DEF Recorded
    <3>2. Passes(s)' = Passes(s) BY <3>1 DEF Passes
    <3> QED BY <2>2, <2>3, <2>4, <3>1, <3>2
  <2>6. CASE rows # {}
    <3>1. scans' = Append(scans, rows) BY <1>1, <2>6 DEF Recorded
    <3>2. /\ DOMAIN scans' = DOMAIN scans \union {Len(scans) + 1}
          /\ \A b \in DOMAIN scans : scans'[b] = scans[b]
          /\ scans'[Len(scans) + 1] = rows
      BY <1>2, <1>3, <3>1
    <3>3. CASE \E r \in rows : r[1] = s
      <4>1. Passes(s)' = Passes(s) \union {Len(scans) + 1}
        BY <3>2, <3>3 DEF Passes
      <4>2. Len(scans) + 1 \notin Passes(s)
        <5>1. Passes(s) \subseteq 1 .. Len(scans) BY <1>2, PassesFinite
        <5> QED BY <1>3, <5>1
      <4>3. Cardinality(Passes(s) \union {Len(scans) + 1}) = m + 1
        BY <1>2, <2>3, <4>2, PassesFinite, FS_AddElement
      <4>4. found'[s] = n + 1 BY <1>1, <2>1, <2>2, <3>3
      <4> QED BY <2>2, <2>4, <4>1, <4>3, <4>4
    <3>4. CASE ~\E r \in rows : r[1] = s
      <4>1. Passes(s)' = Passes(s)
        BY <1>3, <3>2, <3>4 DEF Passes
      <4>2. found'[s] = n BY <1>1, <2>1, <2>2, <3>4
      <4> QED BY <2>2, <2>3, <2>4, <4>1, <4>2
    <3> QED BY <3>3, <3>4
  <2> QED BY <2>5, <2>6
<1>7. ASSUME NEW s \in Stocks, Around(s)', universe' = "market"
      PROVE  found'[s] >= MinAppearances
  <2>1. Around(s) /\ universe = "market"
    BY <1>7 DEF DiscoveryScan, Around, Hand
  <2>2. found[s] >= MinAppearances BY <2>1 DEF BlipInv
  <2>3. found[s] \in Nat /\ found'[s] \in Nat BY <1>2, <1>5 DEF Symbols
  <2> QED BY <1>6, <2>2, <2>3, Bounds
<1> QED BY <1>4, <1>5, <1>6, <1>7 DEF BlipInv

(* One transaction's step leaves it with no row it did not have in hand.   *)
LEMMA HandShrinks ==
  ASSUME ScreenInv, NEW a \in Agents,
         DeleteRow(a) \/ DeleteDone(a) \/ Upsert(a) \/ DeadlockDetected(a)
  PROVE  /\ \A b \in Agents : Hand(b)' \subseteq Hand(b)
         /\ UNCHANGED <<universe, scans, cache, found>>
<1>1. PICK q \in Saves : q = screen[a] BY DEF ScreenInv
<1>2. /\ q.list \in Seq(Symbols) /\ q.wrote \in Writes /\ q.doomed \in SUBSET Symbols
  BY SaveFields
<1>3. UNCHANGED <<universe, scans, cache, found>>
  BY DEF DeleteRow, DeleteDone, Upsert, DeadlockDetected
<1>4. \A b \in Agents \ {a} : screen'[b] = screen[b]
  BY DEF DeleteRow, DeleteDone, Upsert, DeadlockDetected, ScreenInv
<1>5. CASE DeleteRow(a)
  <2>1. PICK s \in q.doomed :
          screen' = [screen EXCEPT ![a].doomed = @ \ {s}, ![a].wrote = With(@, s, Gone)]
    BY <1>1, <1>5 DEF DeleteRow
  <2>2. PICK w : w = With(q.wrote, s, Gone) OBVIOUS
  <2>3. DOMAIN w = DOMAIN q.wrote \union {s} BY <2>2 DEF With
  <2>4. PICK d : d = q.doomed \ {s} OBVIOUS
  <2>5. screen'[a] = [q EXCEPT !.doomed = d, !.wrote = w]
    BY <1>1, <2>1, <2>2, <2>4 DEF ScreenInv
  <2>6. screen'[a].list = q.list /\ screen'[a].doomed = d /\ screen'[a].wrote = w
    BY <2>5 DEF Saves
  <2>7. Hand(a)' \subseteq Hand(a) BY <1>1, <2>3, <2>4, <2>6 DEF Hand
  <2> QED BY <1>3, <1>4, <2>7 DEF Hand
<1>6. CASE DeleteDone(a)
  <2>1. screen'[a] = [q EXCEPT !.pc = "upsert"] BY <1>1, <1>6 DEF DeleteDone, ScreenInv
  <2>2. /\ screen'[a].list = q.list /\ screen'[a].doomed = q.doomed
        /\ screen'[a].wrote = q.wrote
    BY <2>1 DEF Saves
  <2> QED BY <1>1, <1>3, <1>4, <2>2 DEF Hand
<1>7. CASE Upsert(a)
  <2>1. q.list # <<>> /\ screen' = [screen EXCEPT ![a].list = Tail(@),
                                     ![a].wrote = With(@, NextSymbol(a), Written(a))]
    BY <1>1, <1>7 DEF Upsert
  <2>2. PICK s \in Symbols, t \in Seq(Symbols) : s = Head(q.list) /\ t = Tail(q.list)
    BY <1>2, <2>1, RangeTail
  <2>3. PICK w : w = With(q.wrote, s, Written(a)) OBVIOUS
  <2>4. DOMAIN w = DOMAIN q.wrote \union {s} BY <2>3 DEF With
  <2>5. screen'[a] = [q EXCEPT !.list = t, !.wrote = w]
    BY <1>1, <2>1, <2>2, <2>3 DEF ScreenInv, NextSymbol
  <2>6. screen'[a].list = t /\ screen'[a].doomed = q.doomed /\ screen'[a].wrote = w
    BY <2>5 DEF Saves
  <2>7. s \in Range(q.list) /\ Range(t) \subseteq Range(q.list)
    <3>1. Len(q.list) \in Nat /\ Len(q.list) > 0 BY <1>2, <2>1
    <3>2. 1 \in DOMAIN q.list /\ s = q.list[1] BY <1>2, <2>1, <2>2, <3>1
    <3>3. ASSUME NEW i \in DOMAIN t PROVE i + 1 \in DOMAIN q.list /\ t[i] = q.list[i + 1]
      BY <1>2, <2>1, <2>2, <3>1
    <3> QED BY <3>2, <3>3 DEF Range
  <2>8. Hand(a)' \subseteq Hand(a) BY <1>1, <2>4, <2>6, <2>7 DEF Hand
  <2> QED BY <1>3, <1>4, <2>8 DEF Hand
<1>8. CASE DeadlockDetected(a)
  <2>1. screen'[a] = NoScreen BY <1>8 DEF DeadlockDetected, ScreenInv
  <2>2. NoScreen.list = <<>> /\ NoScreen.doomed = {} BY DEF NoScreen
  <2>3. Hand(a)' = {} BY <2>1, <2>2, NoScreenTyped DEF Hand, Range
  <2> QED BY <1>3, <1>4, <2>3 DEF Hand
<1> QED BY <1>5, <1>6, <1>7, <1>8

(* A commit puts what it has in hand into the cache.                       *)
LEMMA CommitStores ==
  ASSUME ScreenInv, NEW a \in Agents, Commit(a)
  PROVE  /\ \A b \in Agents : Hand(b)' \subseteq Hand(b)
         /\ \A s \in Symbols : cache'[s] # Absent => cache[s] # Absent \/ s \in Hand(a)
         /\ UNCHANGED <<universe, scans, found>>
<1>1. screen'[a] = NoScreen BY DEF Commit, ScreenInv
<1>2. NoScreen.list = <<>> /\ NoScreen.doomed = {} BY DEF NoScreen
<1>3. Hand(a)' = {} BY <1>1, <1>2, NoScreenTyped DEF Hand, Range
<1>4. ASSUME NEW b \in Agents \ {a} PROVE Hand(b)' \subseteq Hand(b)
  <2>1. PICK p \in Saves : p = screen[b] BY DEF ScreenInv
  <2>2. PICK x : x = {s \in p.doomed : cache'[s] # Absent} OBVIOUS
  <2>3. screen'[b] = [p EXCEPT !.doomed = x] BY <2>1, <2>2 DEF Commit
  <2>4. screen'[b].list = p.list /\ screen'[b].doomed = x /\ screen'[b].wrote = p.wrote
    BY <2>3 DEF Saves
  <2> QED BY <2>1, <2>2, <2>4 DEF Hand
<1>5. \A s \in Symbols : cache'[s] # Absent => cache[s] # Absent \/ s \in Hand(a)
  BY DEF Commit, Hand
<1> QED BY <1>3, <1>4, <1>5 DEF Commit

(* A screen takes in hand what is in the cache and a list from its pool.   *)
LEMMA ScreenTakes ==
  ASSUME BlipInv, NEW a \in Agents, Screen(a), universe = "market", NEW s \in Stocks,
         Around(s)'
  PROVE  Around(s) \/ found[s] >= MinAppearances
<1>0. ScreenInv BY DEF BlipInv
<1>1. cache' = cache BY DEF Screen
<1>2. CASE UNCHANGED screen BY <1>1, <1>2 DEF Around, Hand
<1>3. ASSUME NEW mode \in {universe, "coins"}, NEW quote \in Quotes(mode),
             NEW list \in Shortlists(mode, quote),
             screen' = [b \in Agents |->
                 IF b = a
                   THEN [pc |-> "delete", n |-> screens', list |-> list,
                         doomed |-> {r \in Symbols : cache[r] # Absent} \ Range(list),
                         wrote |-> NoWrites, alone |-> \A c \in Agents : ~Saving(c)]
                   ELSE [screen[b] EXCEPT !.alone = ~Saving(b)]]
      PROVE  Around(s) \/ found[s] >= MinAppearances
  <2>1. mode \in {"safe", "market", "coins"} BY <1>3
  <2>2. Range(list) \subseteq Pool(mode) BY <2>1, ShortlistTyped
  <2>3. s \in Range(list) => found[s] >= MinAppearances
    <3>1. CASE mode = "coins"
      BY <2>2, <3>1, ScreeningAssumption DEF Pool
    <3>2. CASE mode = "market"
      BY <2>2, <3>2, AppearancesAreFinds DEF Pool
    <3> QED BY <1>3, <3>1, <3>2
  <2>4. PICK r : /\ r = screen'[a] /\ r.list = list /\ r.doomed = Present \ Range(list)
                 /\ r.wrote = NoWrites
    BY <1>3 DEF Present
  <2>5. Hand(a)' = Range(list) \union (Present \ Range(list))
    BY <2>4, NoWritesTyped DEF Hand
  <2>6. ASSUME NEW b \in Agents \ {a} PROVE Hand(b)' = Hand(b)
    <3>1. PICK q \in Saves : q = screen[b] BY <1>0 DEF ScreenInv
    <3>2. PICK x : x = ~Saving(b) OBVIOUS
    <3>3. screen'[b] = [q EXCEPT !.alone = x] BY <1>3, <3>1, <3>2
    <3>4. screen'[b].list = q.list /\ screen'[b].doomed = q.doomed /\ screen'[b].wrote = q.wrote
      BY <3>3 DEF Saves
    <3> QED BY <3>1, <3>4 DEF Hand
  <2>7. s \in Hand(a)' => s \in Range(list) \/ cache[s] # Absent
    BY <2>5 DEF Present
  <2> QED BY <1>1, <2>3, <2>6, <2>7 DEF Around
<1> QED BY <1>2, <1>3 DEF Screen

LEMMA BlipStep == BlipInv /\ [ScreenNext]_screenVars => BlipInv'
<1> SUFFICES ASSUME BlipInv, [ScreenNext]_screenVars PROVE BlipInv' OBVIOUS
<1>0. ScreenInv /\ ScreenInv' BY ScreenInvStep DEF BlipInv
<1>1. CASE DiscoveryScan BY <1>0, <1>1, DiscoveryFinds
<1>2. ASSUME NEW a \in Agents, Screen(a) PROVE BlipInv'
  <2>1. UNCHANGED <<universe, scans, found>> BY <1>2 DEF Screen
  <2> QED BY <1>0, <1>2, <2>1, ScreenTakes, BlipKept
<1>3. ASSUME NEW a \in Agents, DeleteRow(a) \/ DeleteDone(a) \/ Upsert(a) \/ DeadlockDetected(a)
      PROVE  BlipInv'
  <2>1. /\ \A b \in Agents : Hand(b)' \subseteq Hand(b)
        /\ UNCHANGED <<universe, scans, cache, found>>
    BY <1>0, <1>3, HandShrinks
  <2>2. \A s \in Stocks : Around(s)' => Around(s) BY <2>1 DEF Around
  <2> QED BY <1>0, <2>1, <2>2, BlipKept
<1>4. ASSUME NEW a \in Agents, Commit(a) PROVE BlipInv'
  <2>1. /\ \A b \in Agents : Hand(b)' \subseteq Hand(b)
        /\ \A s \in Symbols : cache'[s] # Absent => cache[s] # Absent \/ s \in Hand(a)
        /\ UNCHANGED <<universe, scans, found>>
    BY <1>0, <1>4, CommitStores
  <2>2. \A s \in Stocks : Around(s)' => Around(s) BY <2>1 DEF Around, Symbols
  <2> QED BY <1>0, <2>1, <2>2, BlipKept
<1>5. CASE UNCHANGED screenVars
  <2>1. UNCHANGED <<universe, scans, found>> /\ \A s \in Stocks : Around(s)' => Around(s)
    BY <1>5 DEF screenVars, Around, Hand
  <2> QED BY <1>0, <2>1, BlipKept
<1> QED BY <1>1, <1>2, <1>3, <1>4, <1>5 DEF ScreenNext, ScreenStep

(* A stock on a shortlist, or in the cache the dashboard reads, was found  *)
(* by at least persistence_min_appearances passes: for any lookback, any   *)
(* findings and any number of screens at once.                             *)
THEOREM ShortlistsArePersistent == ScreenSpec => []NoBlip
<1>1. BlipInv => NoBlip
  <2> SUFFICES ASSUME BlipInv, universe = "market", NEW s \in Stocks,
                      \/ cache[s] # Absent
                      \/ \E a \in Agents : s \in Range(screen[a].list) \union Listed(a)
               PROVE  found[s] >= MinAppearances
    BY DEF NoBlip
  <2>1. Around(s) BY DEF Around, Hand, Listed
  <2> QED BY <2>1 DEF BlipInv
<1> QED BY BlipInitial, BlipStep, <1>1, PTL DEF ScreenSpec

=============================================================================
