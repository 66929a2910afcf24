-------------------------- MODULE MCSnapshotStore --------------------------
(* SnapshotStore for TLC. *)
EXTENDS SnapshotStore, TLC

CONSTANTS r1, r2, a, b, short, long, cut

\* A message of more than maxLogMessageSize bytes is cut; the cut one stays as it is.
MCStored(m) == IF m = short THEN short ELSE cut

MCInputs == {[name |-> a, logs |-> <<long>>], [name |-> b, logs |-> <<short, cut>>],
             [name |-> NoName, logs |-> <<short>>], [name |-> a, logs |-> <<long, long, short>>],
             Malformed}
Symmetry == Permutations(Requests)
=============================================================================
