------------------------------- MODULE MCJobs -------------------------------
(* Small instances of the command poll, of the screening and of the replay *)
(* for TLC.  They share no state: each behaviour is of one of them, the    *)
(* others stay where they begin.                                           *)
EXTENDS CommandPoll, Screening, Replay

VARIABLE scene

MCFindings == {<<"x", "mover_gainer">>, <<"x", "most_active">>, <<"y", "most_active">>}
MCScenes == {[universe |-> "safe", scans |-> 0, screens |-> 3],
             [universe |-> "market", scans |-> 3, screens |-> 2]}

Bar(c, h, l) == [close |-> c, high |-> h, low |-> l]

\* The anchor moves between two closes; the coin rises and falls within a day, falls
\* through its stop, or opens below it.
MCBars == [s \in {"BTC", "ETH"} |->
  IF s = "BTC" THEN {Bar(8, 8, 8), Bar(10, 10, 10)}
  ELSE {Bar(8, 12, 8), Bar(12, 12, 10), Bar(10, 12, 6), Bar(6, 6, 5)}]

NoHistory == [s \in {"BTC", "ETH"} |-> <<>>]
MCHistories == {NoHistory, [s \in {"BTC", "ETH"} |-> <<8, 10, 9>>]}

mcVars == <<scene, pollVars, screenVars, replayVars>>

MCInit ==
  /\ scene \in {"poll", "screen", "replay"}
  /\ PollInit
  /\ ScreenInit /\ (scene # "screen" => universe = "safe")
  /\ ReplayInit /\ (scene # "replay" => filter /\ closes = NoHistory)

PollRuns == scene = "poll" /\ UNCHANGED <<scene, screenVars, replayVars>>
ScreenRuns == scene = "screen" /\ UNCHANGED <<scene, pollVars, replayVars>>
ReplayRuns == scene = "replay" /\ UNCHANGED <<scene, pollVars, screenVars>>

MCNext ==
  \/ PollRuns /\ PollNext
  \/ ScreenRuns /\ ScreenNext
  \/ ReplayRuns /\ Day

MCSpec == MCInit /\ [][MCNext]_mcVars /\ WF_mcVars(PollRuns /\ PollStep)
=============================================================================
