--------------------------- MODULE MCJobDeliveries ---------------------------
(* Two jobs, two tool calls that may wait for both; an agent drains the    *)
(* deliveries of its own job or of both.                                   *)
EXTENDS JobDeliveries

CONSTANTS j1, j2, t1, t2

MCTwoJobs  == {j1, j2}
MCOneJob   == {j1}
MCOneTool  == {t1}
MCTwoTools == {t1, t2}
=============================================================================
