--------------------------- MODULE MCRuntimeOwner ---------------------------
(* Two clients: one submits or sends nothing, the other finalizes or retires. *)
EXTENDS RuntimeOwner, TLC

CONSTANTS r1, r2

MCAsks  == (r1 :> {"submit", "nothing"}) @@ (r2 :> {"finalize", "retire"})

\* Either may ask for anything.
MCAnything == [r \in {r1, r2} |-> Verbs \ {"nothing"}]

=============================================================================
