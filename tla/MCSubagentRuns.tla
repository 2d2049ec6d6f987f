--------------------------- MODULE MCSubagentRuns ---------------------------
(* The main agent spawns s1 and s2; s3 is a subagent of its own too, or    *)
(* one of s1's.                                                            *)
EXTENDS SubagentRuns, TLC

CONSTANTS s1, s2, s3

MCSubagent == {s1, s2, s3}
MCFlat   == s1 :> Main @@ s2 :> Main @@ s3 :> Main
MCNested == s1 :> Main @@ s2 :> Main @@ s3 :> s1
MCTwoTwoOne == s1 :> 2 @@ s2 :> 2 @@ s3 :> 1
MCSecondTwice == s1 :> 1 @@ s2 :> 2 @@ s3 :> 1
Interchangeable == Permutations({s1, s2})
=============================================================================
