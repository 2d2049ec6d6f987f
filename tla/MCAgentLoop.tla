---------------------------- MODULE MCAgentLoop -----------------------------
(* Three tool calls to an answer: two that may run together, then one whose  *)
(* tool admits no other beside it.                                           *)
EXTENDS AgentLoop

=============================================================================
