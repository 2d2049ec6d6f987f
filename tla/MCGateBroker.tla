---------------------------- MODULE MCGateBroker ----------------------------
(* Two gates, two answers and a key, two calls of each kind at a time.     *)
EXTENDS GateBroker, TLC

CONSTANTS a1, a2, k1, c1, c2, r1, r2

MCAnswer == {a1, a2}
MCKey == {k1}
MCCall == {c1, c2}
MCRecoverer == {r1, r2}

Interchangeable == Permutations(MCAnswer) \cup Permutations(MCCall) \cup Permutations(MCRecoverer)
=============================================================================
