---------------------------- MODULE MCYieldQueue ----------------------------
(* Three outcomes: one can arrive before, at and after any flush.          *)
EXTENDS YieldQueue

CONSTANTS o1, o2, o3

MCOutcome == {o1, o2, o3}
=============================================================================
