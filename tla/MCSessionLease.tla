--------------------------- MODULE MCSessionLease ---------------------------
(* Two owner processes, one of them with its heartbeat timer as a second   *)
(* caller, and a collector in a process of its own.                        *)
EXTENDS SessionLease, TLC

CONSTANTS o1, o2, gc, a1, h1, a2, g

MCOwner == {o1, o2, gc}
MCCaller == {a1, h1, a2, g}
MCOwnerOf == a1 :> o1 @@ h1 :> o1 @@ a2 :> o2 @@ g :> gc
MCCalls ==
    a1 :> {"acquire", "release"} @@ h1 :> {"heartbeat"}
        @@ a2 :> {"acquire", "release"} @@ g :> {"reap"}
=============================================================================
