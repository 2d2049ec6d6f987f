------------------------------- MODULE Queues -------------------------------
(***************************************************************************)
(* What the queues of async/job-manager.ts, which are arrays, have in      *)
(* common: entries are filtered out in place.                              *)
(***************************************************************************)
EXTENDS Naturals, Sequences

\* The queue q without the entries that are in S; the others keep their order.
Without(q, S) ==
    LET kept[i \in 0 .. Len(q)] ==
            IF i = 0 THEN <<>>
            ELSE IF q[i] \in S THEN kept[i - 1] ELSE Append(kept[i - 1], q[i])
    IN  kept[Len(q)]
=============================================================================
