----------------------------- MODULE MCRoboPool -----------------------------
(* Three events, the first two for one issue, and one slot or two.         *)
EXTENDS RoboPool

MCIssue == <<"i1", "i1", "i2">>

=============================================================================
