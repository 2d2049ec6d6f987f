------------------------ MODULE MCUnattendedSession ------------------------
(* Two gates can wait, be answered and be abandoned at the same time.      *)
EXTENDS UnattendedSession

CONSTANTS a1, a2, k1, c1, c2

MCAnswer == {a1, a2}
MCKey == {k1}
MCCall == {c1, c2}
=============================================================================
