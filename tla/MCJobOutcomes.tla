---------------------------- MODULE MCJobOutcomes ----------------------------
(* Two jobs, one of an agent that drains its own, and a tool call that may *)
(* wait for both.                                                          *)
EXTENDS JobOutcomes

CONSTANTS j1, j2, t1

MCJob  == {j1, j2}
MCMine == {j1}
MCTool == {t1}
=============================================================================
