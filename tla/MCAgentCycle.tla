---------------------------- MODULE MCAgentCycle ----------------------------
(* Instances of AgentCycle for TLC: one agent that holds a position past   *)
(* its target, two that share the budget, and on a live account one agent  *)
(* with a holding and one without.                                         *)
EXTENDS AgentCycle

CONSTANTS a1, a2

MCScenes ==
    {[agents |-> {a1}, held |-> "profit", live |-> FALSE, calls |-> 2, events |-> 2],
     [agents |-> {a1, a2}, held |-> "none", live |-> FALSE, calls |-> 4, events |-> 0],
     [agents |-> {a1}, held |-> "mid", live |-> TRUE, calls |-> 2, events |-> 1],
     [agents |-> {a1}, held |-> "none", live |-> TRUE, calls |-> 1, events |-> 2]}
=============================================================================
