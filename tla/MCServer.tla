------------------------------ MODULE MCServer ------------------------------
(* Server for TLC: a snapshot of an older version and one to be saved. *)
EXTENDS Server, TLC

CONSTANTS r1, r2

MCLogsOf(id) == id
Symmetry == Permutations(Requests)
=============================================================================
