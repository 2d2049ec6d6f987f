---------------------------- MODULE MCLeaseLock ----------------------------
(* Three contenders in two processes, and an older process that may have   *)
(* left a lock file of the legacy format.                                  *)
EXTENDS LeaseLock, TLC

CONSTANTS c1, c2, c3, p1, p2, p0

MCContender == {c1, c2, c3}
MCProcess == {p1, p2, p0}
MCProcOf == c1 :> p1 @@ c2 :> p2 @@ c3 :> p2
=============================================================================
