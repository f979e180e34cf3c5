----------------------------- MODULE MCAgentTurn -----------------------------
(***************************************************************************)
(* Instances of AgentTurn for TLC: two tool calls, of two processes, next  *)
(* to the agent-runner's own events.                                       *)
(***************************************************************************)
EXTENDS AgentTurn

CONSTANTS r1, r2
=============================================================================
