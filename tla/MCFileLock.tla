----------------------------- MODULE MCFileLock -----------------------------
(* Three processes: one dies, and two find its lock.                       *)
EXTENDS FileLock

CONSTANTS p1, p2, p3

MCProc == {p1, p2, p3}
=============================================================================
