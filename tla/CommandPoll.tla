---------------------------- MODULE CommandPoll ----------------------------
(***************************************************************************)
(* The owner's commands: app.poll_telegram_commands, the long poll of      *)
(* telegram_client.get_updates, and the offset that db.telegram_state      *)
(* keeps so that a redeploy goes on where the last pod stopped.            *)
(*                                                                         *)
(* Updates are numbered from 1 in the order in which they were sent.       *)
(* Telegram forgets an update once a poll names a higher offset.  An update*)
(* is a command of the owner's or something the poll passes over.  A reply *)
(* that Telegram does not take is only logged, so a reply is an attempt.   *)
(***************************************************************************)
EXTENDS Integers, Sequences

CONSTANTS
  MaxUpdates,   \* bound on the updates sent
  MaxFaults     \* bound on crashes, failed polls and failed database calls

ASSUME PollAssumption == MaxUpdates \in Nat /\ MaxFaults \in Nat

VARIABLES
  sent,         \* the updates sent so far: is each a command?
  confirmed,    \* Telegram has forgotten the updates up to here
  last,         \* telegram_client._last_update_id
  saved,        \* telegram_state.last_update_id
  job,          \* the poll under way and the updates it has yet to look at
  faults,
  replies,      \* history: how often each update was answered
  crashes,      \* history: restarts of the controller
  drained,      \* history: updates the first poll of all discarded
  dropped,      \* history: updates behind one whose answer raised
  kept          \* history: updates sent when an offset had been saved

pollVars == <<sent, confirmed, last, saved, job, faults, replies, crashes,
          drained, dropped, kept>>

NoOffset == -1
NoBatch == [pc |-> "idle", todo |-> <<>>]
Updates == 1 .. MaxUpdates
IsCommand(u) == u <= Len(sent) /\ sent[u]

PollFault == faults < MaxFaults /\ faults' = faults + 1
PollFine == faults' = faults

-----------------------------------------------------------------------------
\* somebody writes to the bot
Send ==
  /\ Len(sent) < MaxUpdates
  /\ \E command \in BOOLEAN : sent' = Append(sent, command)
  /\ kept' = IF saved = NoOffset THEN kept ELSE kept \union {Len(sent) + 1}
  /\ UNCHANGED <<confirmed, last, saved, job, faults, replies, crashes, drained, dropped>>

\* a poll names the offset last + 1 once there is one
Confirmed == IF last < confirmed THEN confirmed ELSE last

Pending == Confirmed + 1 .. Len(sent)
Batch == [i \in 1 .. Len(sent) - Confirmed |-> Confirmed + i]

\* Mutant of Advanced: to the first update of the batch.
AdvancedByOne == IF Pending = {} THEN last ELSE Confirmed + 1

\* the last update of the batch, whatever becomes of it
Advanced == IF Pending = {} THEN last ELSE Len(sent)

(* get_updates.  Without an offset whatever is pending is discarded; a poll *)
(* that fails returns nothing, whether or not Telegram saw it.              *)
Poll ==
  /\ job.pc = "idle"
  /\ \/ /\ PollFine
        /\ confirmed' = Confirmed
        /\ last' = Advanced
        /\ job' = [pc |-> "handle",
                   todo |-> IF last = NoOffset THEN <<>> ELSE Batch]
        /\ drained' = IF last = NoOffset THEN drained \union Pending ELSE drained
     \/ /\ PollFault
        /\ confirmed' \in {confirmed, Confirmed}
        /\ job' = [pc |-> "handle", todo |-> <<>>]
        /\ UNCHANGED <<last, drained>>
  /\ UNCHANGED <<sent, saved, replies, crashes, dropped, kept>>

(* One message: a command is answered with a snapshot of the ledger.  If    *)
(* reading the snapshot raises, the rest of the batch and the offset are    *)
(* skipped.                                                                 *)
Handle ==
  /\ job.todo # <<>>
  /\ LET u == Head(job.todo) IN
     \/ /\ PollFine
        /\ replies' = IF IsCommand(u) THEN [replies EXCEPT ![u] = @ + 1] ELSE replies
        /\ job' = [job EXCEPT !.todo = Tail(@)]
        /\ UNCHANGED dropped
     \/ /\ PollFault /\ IsCommand(u)
        /\ dropped' = dropped \union {job.todo[i] : i \in 1 .. Len(job.todo)}
        /\ job' = NoBatch
        /\ UNCHANGED replies
  /\ UNCHANGED <<sent, confirmed, last, saved, crashes, drained, kept>>

\* Mutant of Handled: the offset is saved before the messages are looked at.
HandledAny == job.pc = "handle"

Handled == job.pc = "handle" /\ job.todo = <<>>

\* set_telegram_offset, if there is an offset at all
Save ==
  /\ Handled
  /\ \/ PollFine /\ saved' = IF last = NoOffset THEN saved ELSE last
     \/ PollFault /\ UNCHANGED saved
  /\ job' = IF job.todo = <<>> THEN NoBatch ELSE job
  /\ UNCHANGED <<sent, confirmed, last, replies, crashes, drained, dropped, kept>>

\* Mutant of Resumed: a restart starts afresh.
ResumedAfresh == NoOffset

Resumed == saved

\* the controller dies and starts again with the offset it finds
PollRestart ==
  /\ PollFault
  /\ crashes' = crashes + 1
  /\ job' = NoBatch
  /\ last' = Resumed
  /\ UNCHANGED <<sent, confirmed, saved, replies, drained, dropped, kept>>

PollStep == Poll \/ Handle \/ Save

PollInit ==
  /\ sent = <<>> /\ confirmed = 0 /\ last = NoOffset /\ saved = NoOffset
  /\ job = NoBatch /\ faults = 0 /\ crashes = 0
  /\ replies = [u \in Updates |-> 0]
  /\ drained = {} /\ dropped = {} /\ kept = {}

PollNext == Send \/ PollStep \/ PollRestart

\* the scheduler runs the poll every 25 seconds, one at a time
PollFairness == WF_pollVars(PollStep)

PollSpec == PollInit /\ [][PollNext]_pollVars /\ PollFairness

-----------------------------------------------------------------------------
(* The saved offset is a promise to the next pod that nothing below it is   *)
(* left to do: every command up to it was answered, discarded by the first  *)
(* poll of all, or given up with a batch whose snapshot raised.             *)
SavedWasHandled ==
  \A u \in Updates :
    (u <= saved /\ IsCommand(u)) => replies[u] > 0 \/ u \in drained \union dropped

(* Answers are repeated by crashes only, once for each: the offset is saved *)
(* after the batch, so a crash in between answers it again.                 *)
OncePerRun == \A u \in Updates : replies[u] <= 1 + crashes

(* A redeploy swallows nothing: a command sent after an offset was first    *)
(* saved is answered in the end, unless the snapshot for it, or for one     *)
(* before it in its batch, raised.                                          *)
CommandsAnswered ==
  \A u \in Updates :
    (u \in kept /\ IsCommand(u)) ~> (replies[u] > 0 \/ u \in dropped)
=============================================================================
